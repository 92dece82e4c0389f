-------------------------------- MODULE Policy --------------------------------
(***************************************************************************)
(* internal/policy/policy.go and the classes of internal/registry: who may *)
(* do what.  A policy is fixed when the process starts; this module holds  *)
(* its decision and no state.                                              *)
(***************************************************************************)

CONSTANTS
  Actions,     \* the registry: WHMCS actions by name
  ClassOf,     \* classification.go: the safety class of each
  CategoryOf   \* the documentation category of each

Classes == {"read", "write", "destructive", "blocked"}

Categories == {"Addons", "Billing", "Client", "Orders", "Products", "Support",
               "Tickets", "Users", "Other"}

Profiles == {"readonly", "support", "billing", "admin"}

ASSUME PolicyAssumption ==
  /\ ClassOf \in [Actions -> Classes]
  /\ CategoryOf \in [Actions -> Categories]

\* A resolved configuration.
Policies == [profile : Profiles, allowDestructive : BOOLEAN]

Mutating(class) == class # "read"

NeedsConfirmation(class) == class = "destructive"

\* mutableCategories; admin has no entry, which stands for every category.
MutableCategories(profile) ==
  CASE profile = "readonly" -> {}
    [] profile = "support"  -> {"Support", "Tickets", "Client", "Users"}
    [] profile = "billing"  -> {"Billing", "Orders", "Addons", "Products", "Client"}
    [] OTHER                -> Categories

\* AllowsAction: the code of the refusal, "none" when the action is permitted.
AllowsAction(pol, name) ==
  IF name \notin Actions
  THEN "unknown_action"
  ELSE LET class == ClassOf[name]
       IN  IF \/ class = "blocked"
              \/ /\ Mutating(class)
                 /\ \/ pol.profile = "readonly"
                    \/ CategoryOf[name] \notin MutableCategories(pol.profile)
                    \/ class = "destructive" /\ ~pol.allowDestructive
           THEN "forbidden"
           ELSE "none"

\* registry.Resolve, which runs first: unknown and blocked names go no further.
Resolve(name) ==
  IF name \notin Actions THEN "unknown_action"
  ELSE IF ClassOf[name] = "blocked" THEN "forbidden"
  ELSE "none"

Permitted(pol) == {a \in Actions : AllowsAction(pol, a) = "none"}
===============================================================================
