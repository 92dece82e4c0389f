------------------------------ MODULE MCDispatch ------------------------------
(***************************************************************************)
(* Instances of Dispatch.  The registry is cut to one action per class and *)
(* per distinction the policy draws.                                       *)
(***************************************************************************)
EXTENDS Dispatch, TLC

MCActions == {"ModuleTerminate", "AddTicketNote", "UpdateInvoice", "GetInvoice",
              "GetCredentials"}

MCClassOf ==
  [a \in MCActions |->
     CASE a = "ModuleTerminate" -> "destructive"
       [] a = "GetInvoice"      -> "read"
       [] a = "GetCredentials"  -> "blocked"
       [] OTHER                 -> "write"]

MCCategoryOf ==
  [a \in MCActions |->
     CASE a = "ModuleTerminate" -> "Other"
       [] a = "AddTicketNote"   -> "Support"
       [] OTHER                 -> "Billing"]

\* Arguments by the names of the purpose-built tool and, for another service, by
\* the names of the action's parameters.  By the tool: with the action among them
\* and without, which are different arguments too.  By the escape hatch, where
\* Validate refuses the tool's names: also arguments that are not even of the shape
\* of parameters, and no action at all.  And a description of an action.
MCJudged ==
  [via : {"curated"}, action : {"ModuleTerminate"}, args : {"tool's"},
   named : BOOLEAN] \X {"fine"}
    \union
  {<<[via |-> "curated", action |-> "GetInvoice", args |-> "tool's", named |-> FALSE],
     "fine">>,
   <<[via |-> "generic", action |-> "ModuleTerminate", args |-> "tool's", named |-> FALSE],
     "invalid">>,
   <<[via |-> "generic", action |-> "ModuleTerminate", args |-> "action's", named |-> FALSE],
     "fine">>,
   <<[via |-> "generic", action |-> "ModuleTerminate", args |-> "a list", named |-> FALSE],
     "unshaped">>,
   <<[via |-> "generic", action |-> "", args |-> "tool's", named |-> FALSE], "fine">>,
   <<[via |-> "local", action |-> "GetInvoice", args |-> "tool's", named |-> FALSE], "fine">>}

MCRequests == {j[1] : j \in MCJudged}

MCVerdicts == [r \in MCRequests |-> (CHOOSE j \in MCJudged : j[1] = r)[2]]

\* One that permits all of it, and one that permits the reads only.
MCPolicies ==
  {[profile |-> "admin", allowDestructive |-> TRUE],
   [profile |-> "admin", allowDestructive |-> FALSE]}

Symmetry == Permutations(Calls)
===============================================================================
