------------------------------- MODULE MCStartup -------------------------------
(***************************************************************************)
(* One tool per kind the registration tells apart: the escape hatch, a     *)
(* local tool, a read, a write, a destructive action, and a table entry    *)
(* whose action is not in the registry.  A write of billing and a blocked  *)
(* action are within reach of the escape hatch only.                       *)
(***************************************************************************)
EXTENDS Startup

MCActions == {"GetInvoice", "UpdateClient", "UpdateInvoice", "ModuleTerminate",
              "GetCredentials"}

MCClassOf ==
  [a \in MCActions |->
     CASE a = "ModuleTerminate" -> "destructive"
       [] a = "GetInvoice"      -> "read"
       [] a = "GetCredentials"  -> "blocked"
       [] OTHER                 -> "write"]

MCCategoryOf ==
  [a \in MCActions |->
     CASE a = "UpdateClient"    -> "Users"
       [] a = "ModuleTerminate" -> "Other"
       [] OTHER                 -> "Billing"]

MCTools == {"call_action", "list_actions", "invoice_get", "client_update",
            "service_terminate", "misspelled"}

MCActionOf ==
  [t \in MCTools |->
     CASE t = "call_action"       -> "*"
       [] t = "list_actions"      -> "local"
       [] t = "invoice_get"       -> "GetInvoice"
       [] t = "client_update"     -> "UpdateClient"
       [] t = "service_terminate" -> "ModuleTerminate"
       [] OTHER                   -> "NoSuchAction"]
===============================================================================
