------------------------------- MODULE MCBinding -------------------------------
(***************************************************************************)
(* An action with an identifier it needs, a free text and a parameter the  *)
(* vendor deprecated; the identifier in three spellings, the argument of   *)
(* the purpose-built tool, and a misspelled one.                           *)
(***************************************************************************)
EXTENDS Binding

MCSpellings == {"serviceid", "ServiceID", " serviceid", "service_id", "Service_ID",
                "reason", "cvv"}

MCLower ==
  [k \in MCSpellings |-> CASE k = "ServiceID"  -> "serviceid"
                           [] k = "Service_ID" -> "service_id"
                           [] OTHER            -> k]

MCTrim == [k \in MCSpellings |-> IF k = " serviceid" THEN "serviceid" ELSE k]

MCParams == {"serviceid", "reason", "cvv"}
===============================================================================
