------------------------------- MODULE Dispatch -------------------------------
(***************************************************************************)
(* internal/tools/dispatch.go and generic.go: the single path every tool   *)
(* call takes, many calls at a time, composed with the confirmation store  *)
(* (ConfirmStore), the policy decision (Policy), the audit log, and WHMCS  *)
(* as AtMostOnceCall describes it.                                         *)
(*                                                                         *)
(* A call is named by its operation ID.  The steps are the ones that touch *)
(* something calls share: the store, the audit log, WHMCS.  The process    *)
(* may be restarted between any two of them; the audit log and WHMCS       *)
(* survive, the calls in flight and the store do not.                      *)
(*                                                                         *)
(* Abstractions.  The arguments of a call are a model value, apart from    *)
(* the token and from whether they give the action's own name too; what a  *)
(* path makes of them is Judged.  The two paths name the same parameter    *)
(* differently, so one may refuse what the other takes.  A token is        *)
(* presented as it was handed out: ConfirmStore covers tokens pieced       *)
(* together, and Binding what is and is not the same argument.             *)
(***************************************************************************)
EXTENDS Integers, Policy

CONSTANTS
  Calls,        \* operation IDs; the nonce a call mints bears its name
  Requests,     \* what callers ask for: [via, action, args, named]; named: the
                \*   arguments of a purpose-built tool give the action's name too
  Judged,       \* what its path makes of a request's arguments
  Pols,         \* policies the process may be configured with
  LogLevels,    \*   and log levels, of debug, info, warn and error
  ClientErrors, \* codes Client.Call may fail with
  NoToken,      \* the confirmation_token argument is absent or empty
  NoRequest,    \* a call that has not begun
  TTL, Sec, MaxTime, MaxEpoch, MaxBack, NoCall   \* as in ConfirmStore

VARIABLES
  pol,        \* Deps.Policy
  level,      \* the level of Deps.Audit
  stage,      \* where each call stands in dispatch
  req,        \* what each call asks for
  result,     \* how each call ended: "ok", "preview" or an error code
  sent,       \* calls that reached Client.Call
  performed,  \* calls whose action WHMCS has performed
  audit       \* the audit log

VARIABLES
  now, latest, back, epoch, issued, lifeEnd, consumed, spent, \* as in ConfirmStore
  verify,     \* pc of ConfirmStore
  presented   \* call of ConfirmStore

storeVars == <<now, latest, back, epoch, issued, lifeEnd, consumed, verify,
               presented, spent>>

dispatchVars == <<pol, level, stage, req, result, sent, performed, audit>>

vars == <<dispatchVars, storeVars>>

\* What a call asks for, its token apart.
Request(r) ==
  [via |-> r.via, action |-> r.action, args |-> r.args, named |-> r.named]

\* Mutant: the escape hatch binds the parameters alone.
OperationUnnamed(r) == [action |-> r.action, args |-> r.args, named |-> r.named]

\* What the fingerprint covers: the action and the arguments as they were given,
\* undeclared ones included, and no path.  The escape hatch adds the action's
\* name to what it binds, as the caller of a purpose-built tool also may.
Operation(r) ==
  [action |-> r.action, args |-> r.args, named |-> r.named \/ r.via = "generic"]

Operations == {Operation(r) : r \in Requests}

Store ==
  INSTANCE ConfirmStore WITH
    Ids <- Calls, Ops <- Operations, pc <- verify, call <- presented

Stages == {"idle", "admit", "prepare", "issued", "present", "verify", "build",
           "call", "await", "finish", "returned", "dead"}

Confirmations == {"mismatch", "expired", "consumed"}

\* Codes this server gives to calls that sent nothing.
Refusals == {"preview", "invalid_params", "unknown_action", "internal"}
              \union Confirmations

Codes == {"none", "ok", "forbidden"} \union Refusals \union ClientErrors

Records == [op : Calls, event : {"start", "denied", "issued", "consumed",
                                 "rejected", "finish"},
            code : Codes]

\* The constants of the store; requests have no other parts; arguments go out, do
\* not have the shape of parameters at all or are refused by registry.Validate;
\* and client.go has codes of its own, but for "forbidden".
ASSUME DispatchAssumption ==
  /\ Store!ConfirmAssumption
  /\ \A r \in Requests : Request(r) = r
  /\ Judged \in [Requests -> {"fine", "unshaped", "invalid"}]
  /\ ClientErrors \intersect (Refusals \union {"none", "ok"}) = {}

\* What goes wrong is a warning, the rest is information, and slog writes no
\* record below the level it was given.
Written(event, code) ==
  \/ level \in {"debug", "info"}
  \/ level = "warn" /\ event \in {"denied", "rejected"}
  \/ level = "warn" /\ event = "finish" /\ code \notin {"ok", "preview"}

Log(p, event, code) ==
  audit' = IF Written(event, code)
           THEN audit \union {[op |-> p, event |-> event, code |-> code]} ELSE audit

Destructive(p) == req[p].action \in Actions /\ NeedsConfirmation(ClassOf[req[p].action])

\* The token a preview handed to its caller.
Handed == {t \in issued : stage[t.id] = "returned" /\ result[t.id] = "preview"}

Init ==
  /\ Store!Init
  /\ pol \in Pols /\ level \in LogLevels
  /\ stage = [p \in Calls |-> "idle"]
  /\ req = [p \in Calls |-> NoRequest]
  /\ result = [p \in Calls |-> "none"]
  /\ sent = {}
  /\ performed = {}
  /\ audit = {}

To(p, s) == stage' = [stage EXCEPT ![p] = s]

\* A stage returned: dispatch goes on to the audit record and the result.
End(p, code) == To(p, "finish") /\ result' = [result EXCEPT ![p] = code]

(***************************************************************************)
(* The stages.                                                             *)
(***************************************************************************)

\* dispatch mints the operation ID and records the start.  A purpose-built
\* tool can be called only if Register advertised it.
Start(p, r, tok) ==
  /\ stage[p] = "idle"
  /\ r.via = "curated" => AllowsAction(pol, r.action) = "none"
  /\ req' = [req EXCEPT ![p] =
               [via |-> r.via, action |-> r.action, args |-> r.args, named |-> r.named,
                token |-> tok]]
  /\ To(p, "admit")
  /\ Log(p, "start", "none")
  /\ UNCHANGED <<pol, level, result, sent, performed, storeVars>>

\* The early returns of run, runGeneric and describeAction, in their order.
Verdict(r) ==
  IF r.via # "curated" /\ r.action = "" THEN "invalid_params"
  ELSE IF Resolve(r.action) # "none" \/ r.via = "local" THEN Resolve(r.action)
  ELSE IF AllowsAction(pol, r.action) # "none" THEN AllowsAction(pol, r.action)
  ELSE IF r.via = "generic" /\ Judged[Request(r)] = "unshaped" THEN "invalid_params"
  ELSE "none"

\* Resolve, policy and, for the escape hatch, genericParams.  Only a refusal
\* by AllowsAction is recorded as a denial.
Admit(p) ==
  /\ stage[p] = "admit"
  /\ LET r == req[p]
         refusedByPolicy == /\ r.via # "local"
                            /\ Resolve(r.action) = "none"
                            /\ AllowsAction(pol, r.action) # "none"
     IN  /\ IF refusedByPolicy THEN Log(p, "denied", Verdict(r)) ELSE UNCHANGED audit
         /\ CASE Verdict(r) # "none"                      -> End(p, Verdict(r))
              [] Verdict(r) = "none" /\ r.via = "local"   -> End(p, "ok")
              [] OTHER ->
                   /\ To(p, IF ~Destructive(p) THEN "build"
                            ELSE IF r.token = NoToken THEN "prepare" ELSE "present")
                   /\ UNCHANGED result
  /\ UNCHANGED <<pol, level, req, sent, performed, storeVars>>

\* checkConfirmation without a token: Confirm.Issue.
Prepare(p) ==
  /\ stage[p] = "prepare"
  /\ Store!Issue(p, Operation(req[p]))
  /\ To(p, "issued")
  /\ UNCHANGED <<pol, level, req, result, sent, performed, audit>>

\* Confirm.Issue fails: no entropy, or arguments that cannot be encoded.
PrepareFails(p) ==
  /\ stage[p] = "prepare"
  /\ \E code \in {"internal", "invalid_params"} : End(p, code)
  /\ UNCHANGED <<pol, level, req, sent, performed, audit, storeVars>>

\* The issuance is recorded and the preview becomes the result.
Preview(p) ==
  /\ stage[p] = "issued"
  /\ Log(p, "issued", "none")
  /\ End(p, "preview")
  /\ UNCHANGED <<pol, level, req, sent, performed, storeVars>>

\* checkConfirmation with a token: Confirm.Verify, in the steps of the store.
Present(p) ==
  /\ stage[p] = "present"
  /\ Store!BeginVerify(p, req[p].token, Operation(req[p]))
  /\ To(p, "verify")
  /\ UNCHANGED <<pol, level, req, result, sent, performed, audit>>

\* Confirm.Verify cannot encode the arguments to look whether the token is theirs.
PresentFails(p) ==
  /\ stage[p] = "present"
  /\ Log(p, "rejected", "invalid_params")
  /\ End(p, "invalid_params")
  /\ UNCHANGED <<pol, level, req, sent, performed, storeVars>>

Verify(p) ==
  /\ stage[p] = "verify"
  /\ Store!CheckExpiry(p) \/ Store!Consume(p)
  /\ UNCHANGED dispatchVars

Reject(p) ==
  /\ stage[p] = "verify"
  /\ verify[p] \in Confirmations
  /\ Log(p, "rejected", verify[p])
  /\ End(p, verify[p])
  /\ UNCHANGED <<pol, level, req, sent, performed, storeVars>>

\* Mutant: a token already used passes for an authorisation of the retry.
AcceptUsed(p) ==
  /\ stage[p] = "verify"
  /\ verify[p] \in {"accepted", "consumed"}
  /\ Log(p, "consumed", "none")
  /\ To(p, "build")
  /\ UNCHANGED <<pol, level, req, result, sent, performed, storeVars>>

Accept(p) ==
  /\ stage[p] = "verify"
  /\ verify[p] = "accepted"
  /\ Log(p, "consumed", "none")
  /\ To(p, "build")
  /\ UNCHANGED <<pol, level, req, result, sent, performed, storeVars>>

\* Mutant: what Validate says is recorded and not returned.
BuildOnwards(p) ==
  /\ stage[p] = "build"
  /\ IF Judged[Request(req[p])] \in {"unshaped", "invalid"}
     THEN To(p, "call") /\ result' = [result EXCEPT ![p] = "invalid_params"]
     ELSE To(p, "call") /\ UNCHANGED result
  /\ UNCHANGED <<pol, level, req, sent, performed, audit, storeVars>>

\* Tool.Params and registry.Validate.
Build(p) ==
  /\ stage[p] = "build"
  /\ IF Judged[Request(req[p])] \in {"unshaped", "invalid"}
     THEN End(p, "invalid_params")
     ELSE To(p, "call") /\ UNCHANGED result
  /\ UNCHANGED <<pol, level, req, sent, performed, audit, storeVars>>

\* Client.Call begins.
Call(p) ==
  /\ stage[p] = "call"
  /\ sent' = sent \union {p}
  /\ To(p, "await")
  /\ UNCHANGED <<pol, level, req, result, performed, audit, storeVars>>

\* Client.Call returns: AtMostOnceCall's Succeed or Fail.
Answer(p) ==
  /\ stage[p] = "await"
  /\ \/ p \in performed /\ End(p, "ok")
     \/ \E code \in ClientErrors : End(p, code)
  /\ UNCHANGED <<pol, level, req, sent, performed, audit, storeVars>>

\* Mutant: only successes are recorded.
FinishIfOk(p) ==
  /\ stage[p] = "finish"
  /\ IF result[p] = "ok" THEN Log(p, "finish", "ok") ELSE UNCHANGED audit
  /\ To(p, "returned")
  /\ UNCHANGED <<pol, level, req, result, sent, performed, storeVars>>

\* The end of dispatch: the outcome is recorded and the result returned.
Finish(p) ==
  /\ stage[p] = "finish"
  /\ Log(p, "finish", result[p])
  /\ To(p, "returned")
  /\ UNCHANGED <<pol, level, req, result, sent, performed, storeVars>>

(***************************************************************************)
(* The environment.                                                        *)
(***************************************************************************)

\* WHMCS performs what it was sent, at any time, whoever is still waiting.
Perform(p) ==
  /\ p \in sent \ performed
  /\ performed' = performed \union {p}
  /\ UNCHANGED <<pol, level, stage, req, result, sent, audit, storeVars>>

\* Mutant: the store's key and map are restored from the process before.
RestartWithStore ==
  /\ epoch < MaxEpoch
  /\ epoch' = epoch + 1
  /\ stage' = [p \in Calls |-> IF stage[p] \in {"idle", "returned"}
                               THEN stage[p] ELSE "dead"]
  /\ UNCHANGED <<pol, level, req, result, sent, performed, audit, now, latest, back,
                 issued, lifeEnd, consumed, verify, presented, spent>>

\* The process ends and another takes its place.
Restart ==
  /\ Store!Restart
  /\ stage' = [p \in Calls |-> IF stage[p] \in {"idle", "returned"}
                               THEN stage[p] ELSE "dead"]
  /\ UNCHANGED <<pol, level, req, result, sent, performed, audit>>

\* The clock runs.  What setting it back does to a token, ConfirmStore shows.
Tick == Store!Tick /\ UNCHANGED dispatchVars

\* The calls a client of the server may begin now.
Begin(p) ==
  \E r \in Requests :
    \E tok \in IF r.via # "local" /\ r.action \in Actions
                  /\ NeedsConfirmation(ClassOf[r.action])
               THEN {NoToken} \union Handed ELSE {NoToken} :
      Start(p, r, tok)

Step(p) ==
  \/ Admit(p) \/ Prepare(p) \/ PrepareFails(p) \/ Preview(p)
  \/ Present(p) \/ PresentFails(p) \/ Verify(p) \/ Reject(p) \/ Accept(p)
  \/ Build(p) \/ Call(p) \/ Answer(p) \/ Finish(p)

\* Nobody calls again.  Any state with a call in flight and no other step is a
\* deadlock: it is a handler that is stuck.
Quiet ==
  /\ \A p \in Calls : stage[p] \in {"idle", "returned", "dead"}
  /\ UNCHANGED vars

Next ==
  \/ \E p \in Calls : Begin(p) \/ Step(p) \/ Perform(p)
  \/ Restart
  \/ Tick
  \/ Quiet

Spec == Init /\ [][Next]_vars

(***************************************************************************)
(* Properties.                                                             *)
(***************************************************************************)

TypeOK ==
  /\ pol \in Pols /\ level \in LogLevels
  /\ stage \in [Calls -> Stages]
  /\ \A p \in Calls : req[p] = NoRequest \/ Request(req[p]) \in Requests
  /\ performed \subseteq sent /\ sent \subseteq Calls
  /\ audit \subseteq Records
  /\ \A p \in Calls : stage[p] = "returned" /\ Written("finish", result[p]) =>
       [op |-> p, event |-> "finish", code |-> result[p]] \in audit

\* "There is no path where a destructive call reaches the network without a
\* token", and the log shows it even if the process dies: a destructive request
\* goes out only in answer to a preview that another call returned to its caller,
\* of the same action and the same arguments, with both ends of the authorisation
\* in the log if the level lets them through, and from the process that issued
\* the token: a restart revokes.  And a token is not carried between the escape
\* hatch and a purpose-built tool unless the call of the tool named the action
\* too: that far the two paths share their tokens.
SentWasConfirmed ==
  [][\A p \in sent' \ sent : Destructive(p) =>
       /\ Written("consumed", "none") =>
            [op |-> p, event |-> "consumed", code |-> "none"] \in audit
       /\ req[p].token.mac.key = epoch
       /\ \E q \in Calls \ {p} :
            /\ stage[q] = "returned" /\ result[q] = "preview"
            /\ Operation(req[q]) = Operation(req[p])
            /\ \A c, d \in {p, q} :
                 req[c].via = "curated" /\ req[d].via = "generic" => req[c].named
            /\ Written("issued", "none") =>
                 [op |-> q, event |-> "issued", code |-> "none"] \in audit]_vars

\* Two calls, however they interleave, execute on the same token only if it
\* expired meanwhile.
TokenRunsOnceWhileLive ==
  \A p, q \in sent :
    p # q /\ req[p].token = req[q].token /\ req[p].token # NoToken =>
      latest > req[p].token.exp

\* What a refusal tells.  "A client must be able to tell 'this did not happen'
\* from 'this happened'": a preview and every refusal of this server's own are
\* given only to calls that sent nothing, now or later.  And "a forbidden call
\* never reveals whether its arguments were well formed": a complaint about
\* arguments is made only of an action the policy permits.
RefusalsAreTrue ==
  \A p \in Calls :
    /\ result[p] \in Refusals => p \notin sent
    /\ result[p] = "invalid_params" /\ req[p].action # "" =>
         AllowsAction(pol, req[p].action) = "none"

\* Dispatch uses the store as ConfirmStore says it can be used, so everything
\* proved of the store holds here.  It is Store!Spec, with the steps that leave
\* the store alone told first: most do.
StoreSpec == Store!Init /\ [][storeVars' = storeVars \/ Store!Next]_vars

(***************************************************************************)
(* Why they hold: the inductive invariant behind the properties above.     *)
(***************************************************************************)

Asked == [via    : {r.via    : r \in Requests},
          action : {r.action : r \in Requests},
          args   : {r.args   : r \in Requests},
          named  : {r.named  : r \in Requests},
          token  : Store!Token \union {NoToken}]

\* A call that has begun keeps its request, and has a result when its stages are
\* over; what it asks for is permitted from the moment it was admitted.
CallsAreInOrder ==
  /\ req \in [Calls -> Asked \union {NoRequest}]
  /\ result \in [Calls -> Codes]
  /\ \A p \in Calls :
       /\ stage[p] # "idle" => req[p] \in Asked /\ Request(req[p]) \in Requests
       /\ stage[p] \notin {"finish", "returned", "dead"} => result[p] = "none"
       /\ stage[p] \in {"prepare", "issued", "present", "verify", "build", "call"} =>
            AllowsAction(pol, req[p].action) = "none"

\* What was sent is on its way or back, and what came back is the client's word.
SentIsAnswered ==
  \A p \in sent :
    /\ stage[p] \in {"await", "finish", "returned", "dead"}
    /\ result[p] \in {"none", "ok"} \union ClientErrors

\* A token bears the operation of the call that minted it, and is recorded by the
\* time it is a result.
TokensAreOfTheirCalls ==
  /\ \A t \in issued : stage[t.id] # "idle" /\ t.mac.fp = Operation(req[t.id])
  /\ \A p \in Calls : result[p] = "preview" /\ Written("issued", "none") =>
       [op |-> p, event |-> "issued", code |-> "none"] \in audit

\* A destructive call gets past its confirmation only with a token another call
\* was handed, and only such a call has one.
OnlyWithAToken ==
  \A p \in Calls : stage[p] # "idle" =>
    /\ req[p].token # NoToken => Destructive(p) /\ req[p].token \in Handed /\ req[p].token.id # p
    /\ stage[p] \in {"present", "verify"} => req[p].token # NoToken
    /\ stage[p] \in {"build", "call"} /\ Destructive(p) => req[p].token # NoToken

\* Inside Verify and after it, until the process ends, the store and the call
\* speak of the same token and operation; a call goes on to be built only when
\* the store has accepted and the log says so.
VerifiedIsRequested ==
  \A p \in Calls :
    /\ verify[p] # "idle" =>
         /\ stage[p] \notin {"idle", "admit", "prepare", "issued", "present"}
         /\ presented[p].token = req[p].token
         /\ presented[p].op = Operation(req[p])
    /\ stage[p] = "verify" => verify[p] # "idle"
    /\ stage[p] \in {"build", "call"} /\ req[p].token # NoToken =>
         /\ verify[p] = "accepted"
         /\ Written("consumed", "none") =>
              [op |-> p, event |-> "consumed", code |-> "none"] \in audit

\* Calls a token has let through, of this process or of one before it.
LetThrough == {p \in Calls : stage[p] # "idle" /\ req[p].token # NoToken
                             /\ (p \in sent \/ verify[p] = "accepted")}

\* Each of them has spent its token, and two have spent the same only if it had
\* expired.
LetThroughOnce ==
  /\ \A p \in LetThrough : spent[req[p].token.id] > 0
  /\ \A p, q \in LetThrough :
       p # q /\ req[p].token = req[q].token => latest > req[p].token.exp

DispatchInv ==
  /\ CallsAreInOrder
  /\ SentIsAnswered
  /\ TokensAreOfTheirCalls
  /\ OnlyWithAToken
  /\ VerifiedIsRequested
  /\ LetThroughOnce

\* The store's invariant, types, and the above: the handlers and the store they
\* share agree on what was issued, to whom, and on what was accepted.
IInv ==
  /\ Store!IInv
  /\ TypeOK
  /\ DispatchInv
  /\ RefusalsAreTrue
===============================================================================
