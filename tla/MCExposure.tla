----------------------------- MODULE MCExposure -----------------------------
(* One name of each kind the lists of redact.go and generic.go tell apart,  *)
(* and one that differs from another in case only.                          *)
EXTENDS Exposure

MCKeys ==
  {"client", "username", "password", "passwordchanged", "adminnotes",
   "phonenumber", "notes", "subject", "Subject", "customfields", "value",
   "ticketid", "expdate", "login", "replies", "reply", "message", "records"}

MCFolded == [k \in MCKeys |-> IF k = "Subject" THEN "subject" ELSE k]

F(name, from, kind) == [name |-> name, from |-> from, kind |-> kind]

\* A shape like those of curated.go, and three that a start must refuse.
Ticket ==
  {F("ticketid", "ticketid", "plain"), F("login", "username", "plain"),
   F("value", "value", "plain"), F("phonenumber", "phonenumber", "pii"),
   F("notes", "notes", "notes"), F("subject", "subject", "untrusted"),
   F("replies", "replies", "plain")}

MCReplySpec ==
  {F("value", "value", "plain"), F("message", "message", "untrusted")}

MCSpecs ==
  {Ticket, {}, {F("password", "username", "plain")},
   {F("login", "password", "plain")},
   {F("login", "username", "plain"), F("login", "subject", "untrusted")}}

Containers == {"client", "password", "passwordchanged", "adminnotes",
               "phonenumber", "customfields", "value"}
Down == Containers \cup {Item}

Paths ==
  {<<k>> : k \in MCKeys}
    \cup {<<k, n>> : k \in Containers, n \in MCKeys \cup {Item}}
    \cup {<<k, d, n>> : k \in Containers, d \in Down, n \in MCKeys \cup {Item}}
    \cup {<<"customfields", d, c, n>> : d \in Down, c \in Containers, n \in MCKeys}
    \cup {<<"replies", n>> : n \in MCKeys \cup {Item}}
    \cup {e \o <<n>> : e \in ListPaths, n \in MCKeys \cup {Item}}
    \cup {e \o <<k, n>> : e \in ListPaths, k \in Containers, n \in MCKeys}

AnyLeaf(paths) == {[path |-> p, value |-> v] : p \in paths, v \in Upstream}

Split == {<<"client", k>> : k \in MCKeys}

\* Every single leaf, every pair of one field at the top and one under
\* "client" or in a list, and every pair of two fields of one object.
MCResponses ==
  {{l} : l \in AnyLeaf(Paths)}
    \cup {{a, b} : a \in AnyLeaf({<<k>> : k \in MCKeys \ {"client"}}),
                  b \in {[path |-> p, value |-> "prose"] : p \in Split}}
    \cup {{a, b} : a \in AnyLeaf({<<k>> : k \in MCKeys \ {"replies"}}),
                  b \in {[path |-> e \o <<n>>, value |-> "prose"] :
                            e \in ListPaths, n \in {"message", "value", "subject"}}}
    \cup {{[path |-> <<"value", k>>, value |-> "prose"],
           [path |-> <<"value", n>>, value |-> "stamp"]} :
             k \in Containers, n \in MCKeys \ Containers}
=============================================================================
