------------------------------- MODULE Actions -------------------------------
(***************************************************************************)
(* The part of the generated action table (internal/registry) that the     *)
(* purpose-built tools use: the parameters each action documents, by their *)
(* declared type, and those it requires.  Deprecated ones and those of     *)
(* type array are left out: no tool sends either.                          *)
(***************************************************************************)

Documents(required, int, text, bool, float) ==
  [required |-> required, int |-> int, text |-> text, bool |-> bool, float |-> float]

AddInvoicePayment ==
  Documents({"invoiceid", "transid", "gateway", "date"}, {"invoiceid"},
            {"transid", "gateway", "date"}, {"noemail"}, {"amount", "fees"})

GetInvoice == Documents({"invoiceid"}, {"invoiceid"}, {}, {}, {})

GetInvoices ==
  Documents({}, {"limitstart", "limitnum", "userid"}, {"status", "orderby", "order"},
            {}, {})

GetTransactions == Documents({}, {"invoiceid", "clientid"}, {"transid"}, {}, {})

GetClients ==
  Documents({}, {"limitstart", "limitnum"}, {"sorting", "status", "search", "orderby"},
            {}, {})

GetClientsDetails == Documents({}, {"clientid"}, {"email"}, {"stats"}, {})

GetClientsDomains ==
  Documents({}, {"limitstart", "limitnum", "clientid", "domainid"}, {"domain"}, {}, {})

GetClientsProducts ==
  Documents({}, {"limitstart", "limitnum", "clientid", "serviceid", "pid"},
            {"domain", "username2"}, {}, {})

UpdateClient ==
  Documents({}, {"clientid", "currency", "groupid"},
    {"clientemail", "firstname", "lastname", "companyname", "email", "address1",
     "address2", "city", "state", "postcode", "country", "phonenumber", "tax_id",
     "customfields", "language", "clientip", "notes", "status", "paymentmethod"},
    {"marketingoptin", "clearcreditcard", "skipvalidation", "latefeeoveride",
     "overideduenotices", "taxexempt", "separateinvoices", "disableautocc",
     "overrideautoclose"},
    {})

AcceptOrder ==
  Documents({"orderid"}, {"orderid", "serverid"},
            {"serviceusername", "servicepassword", "registrar"},
            {"sendregistrar", "autosetup", "sendemail"}, {})

GetOrders ==
  Documents({}, {"limitstart", "limitnum", "id", "userid", "requestor_id"}, {"status"},
            {}, {})

ModuleSuspend == Documents({"serviceid"}, {"serviceid"}, {"suspendreason"}, {}, {})

ModuleTerminate == Documents({"serviceid"}, {"serviceid"}, {}, {}, {})

ModuleUnsuspend == Documents({"serviceid"}, {"serviceid"}, {}, {}, {})

AddClientNote == Documents({"userid", "notes"}, {"userid"}, {"notes"}, {"sticky"}, {})

AddTicketNote ==
  Documents({"message"}, {"ticketid"}, {"message", "ticketnum", "created"},
            {"markdown"}, {})

AddTicketReply ==
  Documents({"ticketid", "message"}, {"ticketid", "clientid", "contactid"},
            {"message", "adminusername", "name", "email", "status", "customfields",
             "created"},
            {"markdown", "noemail"}, {})

UpdateTicket ==
  Documents({"ticketid"}, {"ticketid", "deptid", "userid", "flag"},
            {"status", "subject", "name", "email", "cc", "priority", "created",
             "message", "customfields"},
            {"removeFlag", "markdown", "preventClientClosure"}, {})

GetStats == Documents({}, {"timeline_days"}, {}, {}, {})

GetTicket == Documents({}, {"ticketid"}, {"ticketnum", "repliessort"}, {}, {})

GetTickets ==
  Documents({}, {"limitstart", "limitnum", "deptid", "clientid"},
            {"email", "status", "subject"}, {"ignore_dept_assignments"}, {})

Parameters(action) == action.int \cup action.text \cup action.bool \cup action.float

=============================================================================
