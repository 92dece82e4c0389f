-------------------------------- MODULE Startup --------------------------------
(***************************************************************************)
(* What a configuration makes of the server before it answers its first    *)
(* call: config.Load resolves the profile, app.Build builds the policy,    *)
(* tools.Register decides tool by tool what is advertised, and logStartup  *)
(* says what was ignored.  Nothing of it changes afterwards.               *)
(***************************************************************************)
EXTENDS Naturals, FiniteSets, Policy

CONSTANTS
  Tools,               \* every tool a build may declare
  ActionOf,            \* the action a tool performs
  AnyAction,           \* "*": the escape hatch, which chooses at call time
  Local,               \* a tool answered from local state
  RawProfiles,         \* profile settings, trimmed and in lower case
  MaxAdvertisedTools   \* the limit on the listing

ASSUME StartupAssumption ==
  /\ MaxAdvertisedTools \in Nat
  /\ AnyAction \notin Actions
  /\ Local \notin Actions \union {AnyAction}
  /\ ActionOf \in [Tools -> Actions \union {AnyAction, Local, "NoSuchAction"}]

VARIABLES
  config,      \* [profile, allowDestructive, listed, allowlist]
  declared,    \* tools.All of this build
  pc,          \* "load", "register", "serve" or "failed"
  pol,         \* the resolved policy
  todo,        \* tools Register has yet to look at
  registered,  \* tools registered with the MCP server
  ignored      \* Policy.ignoredAllowlist

startupVars == <<config, declared, pc, pol, todo, registered, ignored>>

\* Names in the allowlist that no tool bears leave no trace in the code, nor here.
Configs == [profile : RawProfiles, allowDestructive : BOOLEAN,
            listed : BOOLEAN, allowlist : SUBSET Tools]

\* Mutant: no profile configured means no restriction configured.
ParseBlankAsAdmin(raw) ==
  CASE raw = ""          -> "admin"
    [] raw \in Profiles  -> raw
    [] OTHER             -> "invalid"

\* ParseProfile: an empty setting is the read-only default.
ParseProfile(raw) ==
  CASE raw = ""          -> "readonly"
    [] raw \in Profiles  -> raw
    [] OTHER             -> "invalid"

Fixed(t) == ActionOf[t] \notin {AnyAction, Local}

\* Mutant: the escape hatch is looked up in the classification table like any
\* other tool, where what is not found counts as a write.
ToolClassByTable(t) ==
  IF ActionOf[t] = Local THEN "read"
  ELSE IF ActionOf[t] \in Actions THEN ClassOf[ActionOf[t]] ELSE "write"

\* Tool.class: the registry's, the worst case for the escape hatch.  All local
\* tools are declared read-only.
ToolClass(t) ==
  CASE ActionOf[t] = Local     -> "read"
    [] ActionOf[t] = AnyAction -> "destructive"
    [] OTHER                   -> IF ActionOf[t] \in Actions THEN ClassOf[ActionOf[t]]
                                  ELSE "write"

\* build: what a client is told of a tool, derived from its class.
Hints(t) ==
  [readOnly    |-> ~Mutating(ToolClass(t)),
   destructive |-> ToolClass(t) = "destructive",
   takesToken  |-> NeedsConfirmation(ToolClass(t))]

\* listActions: every action but the blocked ones, and whether it is permitted.
Listing ==
  [a \in {b \in Actions : ClassOf[b] # "blocked"} |-> AllowsAction(pol, a) = "none"]

\* describeAction: "refused" for what does not resolve, else as in the listing.
Describes(a) ==
  IF Resolve(a) # "none" THEN "refused"
  ELSE IF AllowsAction(pol, a) = "none" THEN "permitted" ELSE "denied"

\* AllowsTool: an allowlist, when there is one, must name the tool.
AllowsTool(t) == config.listed => t \in config.allowlist

Init ==
  /\ config \in Configs
  /\ declared \in SUBSET Tools
  /\ pc = "load"
  /\ pol = [profile |-> "readonly", allowDestructive |-> FALSE]
  /\ todo = declared
  /\ registered = {}
  /\ ignored = {}

\* config.Load and policy.New.
Load ==
  /\ pc = "load"
  /\ LET profile == ParseProfile(config.profile)
     IN  IF profile = "invalid"
         THEN pc' = "failed" /\ UNCHANGED pol
         ELSE /\ pc' = "register"
              /\ pol' = [profile |-> profile,
                         allowDestructive |-> config.allowDestructive]
  /\ UNCHANGED <<config, declared, todo, registered, ignored>>

\* Mutant: the allowlist is taken for a grant.
RegisterListed(t) ==
  /\ pc = "register" /\ t \in todo
  /\ todo' = todo \ {t}
  /\ IF Fixed(t) /\ ActionOf[t] \notin Actions
     THEN pc' = "failed" /\ UNCHANGED <<registered, ignored>>
     ELSE /\ registered' = IF \/ config.listed /\ AllowsTool(t)
                              \/ ~Fixed(t) /\ AllowsTool(t)
                              \/ Fixed(t) /\ AllowsAction(pol, ActionOf[t]) = "none"
                                   /\ AllowsTool(t)
                           THEN registered \union {t} ELSE registered
          /\ UNCHANGED <<pc, ignored>>
  /\ UNCHANGED <<config, declared, pol>>

\* One turn of Register's loop: a tool of the table that does not validate
\* stops the server, one the allowlist leaves out is skipped, one the profile
\* does not grant is skipped too, and noted if there is an allowlist.
RegisterTool(t) ==
  /\ pc = "register" /\ t \in todo
  /\ todo' = todo \ {t}
  /\ \/ /\ Fixed(t) /\ ActionOf[t] \notin Actions
        /\ pc' = "failed"
        /\ UNCHANGED <<registered, ignored>>
     \/ /\ Fixed(t) => ActionOf[t] \in Actions
        /\ LET granted == Fixed(t) => AllowsAction(pol, ActionOf[t]) = "none"
           IN  /\ registered' = IF AllowsTool(t) /\ granted
                                THEN registered \union {t} ELSE registered
               /\ ignored' = IF AllowsTool(t) /\ ~granted /\ config.listed
                             THEN ignored \union {t} ELSE ignored
        /\ UNCHANGED pc
  /\ UNCHANGED <<config, declared, pol>>

\* The end of Register and of Build: a listing that is too long fails.
EndRegister ==
  /\ pc = "register" /\ todo = {}
  /\ pc' = IF Cardinality(registered) > MaxAdvertisedTools THEN "failed" ELSE "serve"
  /\ UNCHANGED <<config, declared, pol, todo, registered, ignored>>

\* From here on the listing stands, or the process has exited.
Started == pc \in {"serve", "failed"} /\ UNCHANGED startupVars

Next ==
  \/ Load
  \/ \E t \in Tools : RegisterTool(t)
  \/ EndRegister
  \/ Started

Spec == Init /\ [][Next]_startupVars

(***************************************************************************)
(* Properties.                                                             *)
(***************************************************************************)

TypeOK ==
  /\ config \in Configs
  /\ pc \in {"load", "register", "serve", "failed"}
  /\ pol \in Policies
  /\ declared \subseteq Tools
  /\ todo \subseteq declared
  /\ registered \subseteq declared \ todo
  /\ ignored \subseteq declared \ todo

\* What the profile grants, allowlist or no allowlist.
Granted ==
  {t \in declared : Fixed(t) => AllowsAction(pol, ActionOf[t]) = "none"}

\* "The allowlist can only subtract", and "an advertised tool that always fails
\* teaches a model to keep trying it": a running server advertises exactly the
\* tools the profile grants, less those an allowlist leaves out; and an operator
\* who listed a tool either gets it or is told.
AdvertisedExactly ==
  pc = "serve" =>
    /\ registered = IF config.listed THEN Granted \intersect config.allowlist ELSE Granted
    /\ config.listed => config.allowlist \intersect declared = registered \union ignored

\* "Starting with no profile configured must not be a way to get write access":
\* no tool with an action of its own, and no choice of the escape hatch, changes
\* anything in WHMCS.
BlankProfileChangesNothing ==
  pc = "serve" /\ config.profile = "" =>
    /\ \A t \in registered : Fixed(t) => ~Mutating(ClassOf[ActionOf[t]])
    /\ \A a \in Permitted(pol) : ~Mutating(ClassOf[a])

\* The actions a call of a registered tool can come to.
Reach(t) ==
  IF Fixed(t) THEN {ActionOf[t]} ELSE IF ActionOf[t] = AnyAction THEN Permitted(pol) ELSE {}

\* "A client can trust that readOnlyHint false really means this tool can change
\* something": no tool can come to an action worse than its hints say, nor to one
\* that is to be confirmed without an argument to confirm it with.  And "so it
\* does not discover the refusal by attempting the call": what the listing and
\* the description call permitted is what the escape hatch lets through.
TellsWhatItLets ==
  pc = "serve" =>
    /\ \A t \in registered : \A a \in Reach(t) :
         /\ Hints(t).readOnly => ~Mutating(ClassOf[a])
         /\ ~Hints(t).destructive => ClassOf[a] # "destructive"
         /\ NeedsConfirmation(ClassOf[a]) => Hints(t).takesToken
    /\ {a \in DOMAIN Listing : Listing[a]} = Permitted(pol)
    /\ \A a \in Actions : Describes(a) = "permitted" <=> a \in Permitted(pol)
===============================================================================
