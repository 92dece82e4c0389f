------------------------------- MODULE MCDocgen -------------------------------
(***************************************************************************)
(* Docgen on small sites: one of three actions in two categories, whose    *)
(* index has a duplicate, a link without a category and one without a      *)
(* name, and is out of order; and sites of one action for every page of a  *)
(* usual beginning and any few elements after it, some of which do not fit *)
(* in what is fetched.                                                     *)
(***************************************************************************)
EXTENDS Docgen

CONSTANTS w1, w2, Extra

MCWorkers == {w1, w2}

MCLower == [n \in {"AddOrder", "ADDORDER", "GetOrders", "AddNote", "Action"} |->
              CASE n \in {"AddOrder", "ADDORDER"} -> "addorder"
                [] n = "GetOrders"                -> "getorders"
                [] n = "AddNote"                  -> "addnote"
                [] n = "Action"                   -> "action"]

MCAnchor == [t \in {"Request Parameters"} |-> "request-parameters"]

MCStrings == <<"", "ADDORDER", "AddNote", "AddOrder", "Client", "GetOrders", "Orders">>

MCRank == [s \in Range(MCStrings) |-> CHOOSE i \in DOMAIN MCStrings : MCStrings[i] = s]

MCOurs == {<<"addorder", "priceoverride">>}

Request == H3("request-parameters", "Request Parameters")

ActionRow == Row(<<"Action", {}, "fact", {"required"}>>)
IdRow == Row(<<"clientid", {"int"}, "fact", {"required"}>>)

\* A page as the vendor writes them.
Usual == <<H1, P("fact"), Request, Table, ActionRow, IdRow, H3("response-parameters", ""), Table>>

ManyActions ==
  [index |-> <<Link("addnote", "AddNote"), H3("", "Orders"), Link("getorders", "GetOrders"),
               Link("addorder", "AddOrder"), Link("other", "ADDORDER"), Link("", "AddNote"),
               H3("", "Client"), Link("addnote", ""), Link("addnote", "AddNote")>>,
   page |-> [s \in {"addnote", "addorder", "getorders", "other"} |->
               CASE s = "getorders" -> <<H1, Request, Table, IdRow>>
                 [] s = "other"     -> << >>
                 [] OTHER           -> Usual]]

\* What a page may have besides.
Elements ==
  <<H1, P(""), P("prose"), Table, Request,
    H3("", "Request Parameters"), H3("response-parameters", ""), H3("", "Example"),
    ActionRow,
    Row(<<"notes", {"string", "array"}, "prose", {}>>),
    Row(<<"priceoverride", {"float", "int"}, "prose", {"required", "deprecated"}>>),
    Row(<<"", {}>>), Row(<<"status", {"bool"}>>), Row(<<"id">>)>>

\* The page of the first elements of a usual one and of those numbered.
PageOf(usual, numbers) ==
  SubSeq(Usual, 1, usual) \o [i \in DOMAIN numbers |-> Elements[numbers[i]]]

\* Rows stand in tables.
Sensible(page) ==
  \A i \in DOMAIN page :
    page[i].tag = "tr" => i > 1 /\ page[i - 1].tag \in {"table", "tr"}

Tails == UNION {[1..n -> DOMAIN Elements] : n \in 0..Extra}

OneAction(page) ==
  [index |-> <<H3("", "Orders"), Link("addorder", "AddOrder")>>,
   page |-> [s \in {"addorder"} |-> page]]

NoActions == [index |-> <<H3("", "Orders")>>, page |-> << >>]

Many == <<0, <<0>>>>
None == <<0, <<0, 0>>>>

MCSites ==
  {Many, None} \union {k \in {0, 4, 6, Len(Usual)} \X Tails : Sensible(PageOf(k[1], k[2]))}

MCSiteOf(k) ==
  CASE k = Many -> ManyActions
    [] k = None -> NoActions
    [] OTHER    -> OneAction(PageOf(k[1], k[2]))

MCTables == {{"addnote", "addorder", "getorders"}, {"addnote", "getorders"}}
===============================================================================
