------------------------------- MODULE Curated -------------------------------
(***************************************************************************)
(* From the arguments of a purpose-built tool to the parameters of its     *)
(* action: the tool table of internal/tools/curated.go, the typed          *)
(* accessors of Args, and registry.Validate against what the action        *)
(* documents.  The confirmation between preview and call is ConfirmStore's *)
(* and Binding's; here a previewed call is confirmed.                      *)
(*                                                                         *)
(* A value is the form an argument has in the JSON of the call.  "word" is *)
(* a text that is no number, "digits" one that is a positive number,       *)
(* "zero" a number below one, "off" the boolean false.                     *)
(***************************************************************************)
EXTENDS Actions, Naturals, FiniteSets

CONSTANTS
  Misspelled,  \* an argument no tool declares
  MaxGiven,    \* bounds, for model checking, on the arguments of one call and on
  MaxOdd       \* those of them that are not as they should be

VARIABLES
  chosen,   \* the tool that is called
  given,    \* the arguments of the call
  pc,       \* "called", "previewed", "built", "sent" or "refused"
  params,   \* what Tool.Params returned
  sent      \* the form values of the request

vars == <<chosen, given, pc, params, sent>>

ArgForms == {"null", "blank", "word", "digits", "number", "zero", "fraction", "on", "off"}

-----------------------------------------------------------------------------
\* How a tool reads an argument: as a positive whole number, as a text, as a
\* text that is passed on even when empty, as a flag, or as it is.
Reads(how, arg, param) == [how |-> how, arg |-> arg, param |-> param]
Texts(names) == {Reads("text", n, n) : n \in names}

\* A tool: its action; what it reads; the arguments its Params refuses to do
\* without, and those of which it wants one; whether its preview comes first.
Tool(action, reads, needs, oneOf, class) ==
  [action |-> action, reads |-> reads, needs |-> needs, oneOf |-> oneOf, class |-> class]

PageReads == {Reads("page", "limit", "limitnum"), Reads("id", "offset", "limitstart")}

ClientTools ==
  [ whmcs_client_search |->
      Tool(GetClients, PageReads \cup Texts({"search", "status", "orderby", "sorting"}),
           {}, {}, "read"),
    whmcs_client_get |->
      Tool(GetClientsDetails,
           {Reads("id", "client_id", "clientid")} \cup Texts({"email"}),
           {}, {"client_id", "email"}, "read"),
    whmcs_client_services |->
      Tool(GetClientsProducts,
           PageReads \cup Texts({"domain"})
             \cup {Reads("id", "client_id", "clientid"),
                   Reads("id", "service_id", "serviceid")},
           {}, {}, "read"),
    whmcs_client_domains |->
      Tool(GetClientsDomains,
           PageReads \cup Texts({"domain"}) \cup {Reads("id", "client_id", "clientid")},
           {}, {}, "read"),
    whmcs_client_update |->
      LET fields == {"firstname", "lastname", "companyname", "email", "address1",
                     "address2", "city", "state", "postcode", "country",
                     "phonenumber", "status"}
      IN Tool(UpdateClient, {Reads("id", "client_id", "clientid")} \cup Texts(fields),
              {"client_id"}, fields, "write"),
    whmcs_client_note_add |->
      Tool(AddClientNote,
           {Reads("id", "client_id", "userid"), Reads("text", "note", "notes"),
            Reads("flag", "sticky", "sticky")},
           {"client_id", "note"}, {}, "write") ]

BillingTools ==
  [ whmcs_invoice_list |->
      Tool(GetInvoices,
           PageReads \cup Texts({"status", "orderby", "order"})
             \cup {Reads("id", "client_id", "userid")},
           {}, {}, "read"),
    whmcs_invoice_get |->
      Tool(GetInvoice, {Reads("id", "invoice_id", "invoiceid")}, {"invoice_id"}, {},
           "read"),
    whmcs_transaction_list |->
      Tool(GetTransactions,
           {Reads("id", "invoice_id", "invoiceid"), Reads("id", "client_id", "clientid"),
            Reads("text", "transaction_id", "transid")},
           {}, {"invoice_id", "client_id", "transaction_id"}, "read"),
    whmcs_invoice_payment_add |->
      Tool(AddInvoicePayment,
           {Reads("id", "invoice_id", "invoiceid"),
            Reads("always", "transaction_id", "transid"),
            Reads("always", "gateway", "gateway"), Reads("always", "date", "date"),
            Reads("raw", "amount", "amount"), Reads("raw", "fees", "fees"),
            Reads("flag", "no_email", "noemail")},
           {"invoice_id"}, {}, "destructive") ]

OrderTools ==
  [ whmcs_order_list |->
      Tool(GetOrders,
           PageReads \cup Texts({"status"})
             \cup {Reads("id", "client_id", "userid"), Reads("id", "order_id", "id")},
           {}, {}, "read"),
    whmcs_order_accept |->
      Tool(AcceptOrder,
           {Reads("id", "order_id", "orderid"), Reads("flag", "auto_setup", "autosetup"),
            Reads("flag", "send_email", "sendemail"),
            Reads("flag", "send_registrar", "sendregistrar")},
           {"order_id"}, {}, "destructive") ]

TicketTools ==
  [ whmcs_ticket_list |->
      Tool(GetTickets,
           PageReads \cup Texts({"status", "email", "subject"})
             \cup {Reads("id", "client_id", "clientid"),
                   Reads("id", "department_id", "deptid")},
           {}, {}, "read"),
    whmcs_ticket_get |->
      Tool(GetTicket,
           {Reads("id", "ticket_id", "ticketid"), Reads("text", "ticket_number", "ticketnum"),
            Reads("text", "replies_order", "repliessort")},
           {}, {"ticket_id", "ticket_number"}, "read"),
    whmcs_ticket_reply |->
      Tool(AddTicketReply,
           {Reads("id", "ticket_id", "ticketid"), Reads("flag", "no_email", "noemail"),
            Reads("text", "admin_username", "adminusername")}
             \cup Texts({"message", "status"}),
           {"ticket_id", "message"}, {}, "destructive"),
    whmcs_ticket_note_add |->
      Tool(AddTicketNote, {Reads("id", "ticket_id", "ticketid")} \cup Texts({"message"}),
           {"ticket_id", "message"}, {}, "write"),
    whmcs_ticket_update |->
      Tool(UpdateTicket,
           {Reads("id", "ticket_id", "ticketid"), Reads("id", "department_id", "deptid"),
            Reads("id", "flag", "flag")} \cup Texts({"status", "priority"}),
           {"ticket_id"}, {"status", "priority", "department_id", "flag"}, "write") ]

ServiceTools ==
  LET service == Reads("id", "service_id", "serviceid")
  IN [ whmcs_service_suspend |->
         Tool(ModuleSuspend, {service, Reads("text", "reason", "suspendreason")},
              {"service_id"}, {}, "destructive"),
       whmcs_service_unsuspend |->
         Tool(ModuleUnsuspend, {service}, {"service_id"}, {}, "write"),
       whmcs_service_terminate |->
         Tool(ModuleTerminate, {service}, {"service_id"}, {}, "destructive") ]

SystemTools ==
  [ whmcs_stats |->
      Tool(GetStats, {Reads("id", "timeline_days", "timeline_days")}, {}, {}, "read") ]

Tables == {ClientTools, BillingTools, OrderTools, TicketTools, ServiceTools, SystemTools}

Tools ==
  [name \in UNION {DOMAIN table : table \in Tables} |->
     (CHOOSE table \in Tables : name \in DOMAIN table)[name]]

-----------------------------------------------------------------------------
Form(g, arg) == IF arg \in DOMAIN g THEN g[arg] ELSE "null"

\* Mutant: a text is read for the number it begins with.
WholePartial(form) == form \in {"digits", "number", "fraction"}

\* Args.Int, where what is wanted is above zero
Whole(form) == form \in {"digits", "number"}

\* Args.String
String(form) == IF form \in {"word", "digits"} THEN form ELSE "blank"

\* Args.Has
Has(form) == form \notin {"null", "blank"}

\* copyIfSet
Text(form) == {String(form)} \ {"blank"}

\* Mutant: a flag is sent only when it is on.
FlagIfOn(form) == {v \in {"on"} : form = "on"}

\* Args.Has, and then Args.Bool, which is off unless it is on
Flag(form) == {v \in {IF form = "on" THEN "on" ELSE "off"} : Has(form)}

\* What a tool makes of one of its arguments: a value, or nothing.  A limit has
\* a default.
Values(r, form) ==
  IF r.how = "id" THEN {v \in {"number"} : Whole(form)}
  ELSE IF r.how = "page" THEN {"number"}
  ELSE IF r.how = "text" THEN Text(form)
  ELSE IF r.how = "always" THEN {String(form)}
  ELSE IF r.how = "flag" THEN Flag(form)
  ELSE {v \in {form} : Has(form)}

Read(t, g, arg) == \E r \in t.reads : r.arg = arg /\ Values(r, Form(g, arg)) # {}

\* Mutant: a tool that wants one of several takes none.
LacksNeeds(t, g) == \E a \in t.needs : ~Read(t, g, a)

\* Tool.Params refuses.
Lacks(t, g) ==
  \/ \E a \in t.needs : ~Read(t, g, a)
  \/ t.oneOf # {} /\ \A a \in t.oneOf : ~Read(t, g, a)

\* The parameters it makes of the rest
Built(t, g) ==
  LET from(p) == {r \in t.reads : r.param = p /\ Values(r, Form(g, r.arg)) # {}}
  IN [p \in {r.param : r \in {q \in t.reads : Values(q, Form(g, q.arg)) # {}}} |->
        LET r == CHOOSE q \in from(p) : TRUE
        IN CHOOSE v \in Values(r, Form(g, r.arg)) : TRUE]

\* encode: a whole number; a number; a boolean, or a number that is taken for
\* one; any scalar.  A whole number of a tool is never below one.
EncodesAs(action, p, v) ==
  \/ p \in action.int /\ v \in {"digits", "number"}
  \/ p \in action.float /\ v \in {"digits", "number", "zero", "fraction"}
  \/ p \in action.bool /\ v \in {"on", "off", "number", "zero", "fraction"}
  \/ p \in action.text

\* registry.Validate
Valid(action, ps) ==
  /\ DOMAIN ps \subseteq Parameters(action)
  /\ \A p \in DOMAIN ps : EncodesAs(action, p, ps[p])
  /\ \A p \in action.required : p \in DOMAIN ps /\ ps[p] # "blank"

-----------------------------------------------------------------------------
NoParams == [p \in {} |-> "null"]

\* What the input schema a tool advertises says an argument is
Typed(how) ==
  IF how \in {"id", "page"} THEN {"number"}
  ELSE IF how \in {"text", "always"} THEN {"word", "digits"}
  ELSE IF how = "flag" THEN {"on", "off"}
  ELSE {"number", "zero", "fraction"}

\* An argument that is as it should be
Usual(t, arg) ==
  IF arg = Misspelled THEN "word"
  ELSE LET r == CHOOSE q \in t.reads : q.arg = arg
       IN CHOOSE f \in Typed(r.how) : f \in {"word", "on", "number"}

Declared(t) == {r.arg : r \in t.reads}

\* The arguments of a call: as they should be, but for some that may be anything
Calls(t, names) ==
  LET odd == {some \in SUBSET names : Cardinality(some) <= MaxOdd}
  IN  {[a \in names |-> IF a \in DOMAIN as THEN as[a] ELSE Usual(t, a)] :
         as \in UNION {[some -> ArgForms] : some \in odd}}

CallInit ==
  /\ chosen \in DOMAIN Tools
  /\ \E names \in SUBSET (Declared(Tools[chosen]) \cup {Misspelled}) :
       Cardinality(names) \in 1..MaxGiven /\ given \in Calls(Tools[chosen], names)
  /\ pc = "called"
  /\ params = NoParams /\ sent = NoParams

\* checkConfirmation previews before anything looks at the arguments.
PreviewCall ==
  /\ pc = "called" /\ Tools[chosen].class = "destructive"
  /\ pc' = "previewed"
  /\ UNCHANGED <<chosen, given, params, sent>>

\* Tool.Params
Build ==
  /\ \/ pc = "called" /\ Tools[chosen].class # "destructive"
     \/ pc = "previewed"
  /\ IF Lacks(Tools[chosen], given)
     THEN pc' = "refused" /\ UNCHANGED params
     ELSE pc' = "built" /\ params' = Built(Tools[chosen], given)
  /\ UNCHANGED <<chosen, given, sent>>

\* registry.Validate, and the call
SendCall ==
  /\ pc = "built"
  /\ IF Valid(Tools[chosen].action, params)
     THEN pc' = "sent" /\ sent' = params
     ELSE pc' = "refused" /\ UNCHANGED sent
  /\ UNCHANGED <<chosen, given, params>>

Done == pc \in {"sent", "refused"} /\ UNCHANGED vars

CallNext == PreviewCall \/ Build \/ SendCall \/ Done

CallSpec == CallInit /\ [][CallNext]_vars

-----------------------------------------------------------------------------
Given == DOMAIN given
WellTyped(r) == r.arg \in Given /\ given[r.arg] \in Typed(r.how)

\* The arguments a tool advertises as required, which Params or the registry
\* asks for
Demanded(t) == t.needs \cup {r.arg : r \in {q \in t.reads : q.how = "always"}}

(* The tool table and the action table agree, and nothing a caller says gets *)
(* lost between them.  A call that follows the schema a tool advertises is   *)
(* never refused for a parameter the tool made up, left out or gave another  *)
(* type; and an argument of the advertised type is in the request, as it was *)
(* given and under a parameter that no other argument writes, false as false *)
(* (Tool.Params, registry.Validate, copyIfSet, Args.Has, Args.Bool).         *)
GoodCallsArrive ==
  LET t == Tools[chosen]
      follows == /\ Given \subseteq Declared(t)
                 /\ \A r \in t.reads : r.arg \in Given => WellTyped(r)
                 /\ Demanded(t) \subseteq Given
                 /\ t.oneOf # {} => t.oneOf \cap Given # {}
  IN /\ pc = "refused" => ~follows
     /\ pc = "sent" => \A r \in t.reads : WellTyped(r) =>
          /\ r.param \in DOMAIN sent /\ sent[r.param] = given[r.arg]
          /\ \A q \in t.reads : q.param = r.param => q = r

(* Nothing is sent that the caller did not say, but for the page size: each  *)
(* parameter comes from an argument that was given and is not empty, and one *)
(* that names a record from a positive number in its entirety, "88" but not  *)
(* "88x" or 8.8 (the comment on Args.Int; Tool.Params).                      *)
NothingInvented ==
  pc = "sent" => \A p \in DOMAIN sent \ {"limitnum"} :
    \E r \in Tools[chosen].reads :
      /\ r.param = p /\ r.arg \in Given /\ given[r.arg] \notin {"null", "blank"}
      /\ r.how = "id" => given[r.arg] \in {"number", "digits"}

(* No call reaches past what was asked for: a write names its record, an     *)
(* update changes something, and a read is of a page, of one record, or      *)
(* filtered, even where the action itself would take less (the comment on    *)
(* registry.Validate: "you updated every client").                           *)
NeverUnbounded ==
  LET t == Tools[chosen]
      told(args) == {r \in t.reads : r.arg \in args /\ r.param \in DOMAIN sent}
  IN pc = "sent" /\ chosen # "whmcs_stats" =>
       /\ t.class # "read" => \E r \in told(t.needs) : r.how = "id"
       /\ t.class = "read" => \/ "limitnum" \in DOMAIN sent
                              \/ told(t.needs \cup t.oneOf) # {}
       /\ t.oneOf # {} => told(t.oneOf) # {}

-----------------------------------------------------------------------------
(***************************************************************************)
(* Why the properties hold: what the tool table and the action table have  *)
(* to agree on, tool by tool, and what a step has found out about a call.  *)
(***************************************************************************)

\* Each parameter is written by one argument of the tool,
OneWriter(t) == \A q, r \in t.reads : q.param = r.param => q = r

\* in a form the action takes;
InForm(t) ==
  \A r \in t.reads :
    /\ r.how \in {"id", "page", "text", "always", "flag", "raw"}
    /\ r.how = "page" => r.param = "limitnum"
    /\ r.how = "always" => r.param \in t.action.required
    /\ r.param \in Parameters(t.action)
    /\ \A v \in Typed(r.how) : EncodesAs(t.action, r.param, v)

\* what the action requires the tool demands, and what it demands it reads.
Demands(t) ==
  /\ \A p \in t.action.required :
       \E r \in t.reads : r.param = p /\ (r.arg \in t.needs \/ r.how = "always")
  /\ \A a \in t.needs \union t.oneOf : \E r \in t.reads : r.arg = a

\* And it says which record is changed, and which records are read.
Bounded(t) ==
  /\ t.class # "read" => \E a \in t.needs : \A r \in t.reads : r.arg = a => r.how = "id"
  /\ t.class = "read" => \/ \E r \in t.reads : r.how = "page"
                         \/ t.needs \union t.oneOf # {}

Agrees(t) == OneWriter(t) /\ InForm(t) /\ Demands(t)

CallInv ==
  LET t == Tools[chosen]
  IN  /\ chosen \in DOMAIN Tools
      /\ given \in [Given -> ArgForms]
      /\ pc \in {"called", "previewed", "built", "sent", "refused"}
      /\ pc = "built" => ~Lacks(t, given) /\ params = Built(t, given)
      /\ pc = "sent" => ~Lacks(t, given) /\ sent = Built(t, given) /\ Valid(t.action, sent)
      /\ pc = "refused" => Lacks(t, given) \/ ~Valid(t.action, Built(t, given))
=============================================================================
