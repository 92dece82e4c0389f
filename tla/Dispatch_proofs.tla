---------------------------- MODULE Dispatch_proofs ----------------------------
(***************************************************************************)
(* Proofs about the path every tool call takes, for any number of calls at *)
(* a time, any registry, policy and requests: that no destructive request  *)
(* leaves unconfirmed, that a token lets one call through while it lives,  *)
(* and that refusals are true, through any number of restarts.             *)
(*                                                                         *)
(* What the handlers share is the confirmation store, whose own theorems   *)
(* are instantiated here and not proved again.                             *)
(***************************************************************************)
EXTENDS Dispatch, TLAPS

StoreProofs ==
  INSTANCE ConfirmStore_proofs WITH
    Ids <- Calls, Ops <- Operations, pc <- verify, call <- presented

-----------------------------------------------------------------------------
(***************************************************************************)
(* The store, as its own proofs give it.                                   *)
(***************************************************************************)

LEMMA StoreConstants == StoreProofs!ConfirmAssumption
BY DispatchAssumption DEF StoreProofs!ConfirmAssumption, Store!ConfirmAssumption

LEMMA SameStore ==
  /\ StoreProofs!Init <=> Store!Init
  /\ StoreProofs!vars = storeVars
  /\ StoreProofs!TypeOK <=> Store!TypeOK
  /\ StoreProofs!StoreInv <=> Store!StoreInv
<1>1. StoreProofs!Init <=> Store!Init
  BY DEF StoreProofs!Init, Store!Init
<1>2. StoreProofs!vars = storeVars
  BY DEF StoreProofs!vars, storeVars
<1>3. StoreProofs!TypeOK <=> Store!TypeOK
  BY DEF StoreProofs!TypeOK, StoreProofs!Token, StoreProofs!Mac, StoreProofs!Request,
         StoreProofs!Inside, StoreProofs!Answers,
         Store!TypeOK, Store!Token, Store!Mac, Store!Request, Store!Inside, Store!Answers
<1>4. StoreProofs!StoreInv <=> Store!StoreInv
  BY DEF StoreProofs!StoreInv, StoreProofs!IssuedWellSigned, StoreProofs!PastMac,
         StoreProofs!PastExpiry, StoreProofs!MapMatchesHistory, StoreProofs!Sign,
         StoreProofs!Expired,
         Store!StoreInv, Store!IssuedWellSigned, Store!PastMac, Store!PastExpiry,
         Store!MapMatchesHistory, Store!Sign, Store!Expired
<1> QED
  BY <1>1, <1>2, <1>3, <1>4

LEMMA SameSteps == StoreProofs!Next <=> Store!Next
<1>1. StoreProofs!Presentable = Store!Presentable
  BY DEF StoreProofs!Presentable, Store!Presentable
<1>2. ASSUME NEW i, NEW op PROVE StoreProofs!Issue(i, op) <=> Store!Issue(i, op)
  BY DEF StoreProofs!Issue, Store!Issue, StoreProofs!Unix, Store!Unix,
         StoreProofs!Sign, Store!Sign
<1>3. ASSUME NEW p, NEW tok, NEW op
      PROVE  StoreProofs!BeginVerify(p, tok, op) <=> Store!BeginVerify(p, tok, op)
  BY DEF StoreProofs!BeginVerify, Store!BeginVerify, StoreProofs!Inside, Store!Inside,
         StoreProofs!Sign, Store!Sign
<1>4. ASSUME NEW p PROVE StoreProofs!CheckExpiry(p) <=> Store!CheckExpiry(p)
  BY DEF StoreProofs!CheckExpiry, Store!CheckExpiry, StoreProofs!Expired, Store!Expired
<1>5. ASSUME NEW p PROVE StoreProofs!Consume(p) <=> Store!Consume(p)
  BY DEF StoreProofs!Consume, Store!Consume, StoreProofs!Unswept, Store!Unswept,
         StoreProofs!Expired, Store!Expired
<1>6. /\ StoreProofs!Restart <=> Store!Restart
      /\ StoreProofs!Tick <=> Store!Tick
      /\ StoreProofs!StepBack <=> Store!StepBack
  BY DEF StoreProofs!Restart, Store!Restart, StoreProofs!Tick, Store!Tick,
         StoreProofs!StepBack, Store!StepBack, StoreProofs!Inside, Store!Inside
<1> QED
  BY <1>1, <1>2, <1>3, <1>4, <1>5, <1>6 DEF StoreProofs!Next, Store!Next

LEMMA StoreStarts == Store!Init => Store!IInv
BY StoreProofs!IInvIsInductive, StoreConstants, SameStore
   DEF StoreProofs!IInv, Store!IInv

LEMMA StoreKeepsItsInvariant ==
  ASSUME Store!IInv, storeVars' = storeVars \/ Store!Next
  PROVE  Store!IInv'
<1>1. StoreProofs!IInv /\ [StoreProofs!Next]_(StoreProofs!vars)
  BY SameStore, SameSteps DEF StoreProofs!IInv, Store!IInv, StoreProofs!vars, storeVars
<1>2. StoreProofs!IInv'
  BY <1>1, StoreProofs!IInvIsInductive, StoreConstants
<1>3. /\ StoreProofs!TypeOK' <=> Store!TypeOK'
      /\ StoreProofs!StoreInv' <=> Store!StoreInv'
  BY SameStore, PTL
<1> QED
  BY <1>2, <1>3 DEF StoreProofs!IInv, Store!IInv

LEMMA StoreAcceptsAgain ==
  ASSUME Store!IInv, storeVars' = storeVars \/ Store!Next, NEW t \in issued,
         spent[t.id] > 0, spent'[t.id] > spent[t.id]
  PROVE  latest > t.exp
<1>1. /\ StoreProofs!TypeOK /\ StoreProofs!StoreInv
      /\ [StoreProofs!Next]_(StoreProofs!vars)
  BY SameStore, SameSteps DEF Store!IInv, StoreProofs!vars, storeVars
<1> QED
  BY <1>1, StoreProofs!AcceptedAgain, StoreConstants

-----------------------------------------------------------------------------
(***************************************************************************)
(* The steps of a call.                                                    *)
(***************************************************************************)

\* The stages that write to the audit log, and those that do not, leave what
\* was written in it.
LEMMA LogKeeps ==
  ASSUME NEW p, NEW event, NEW code, Log(p, event, code)
  PROVE  /\ audit \subseteq audit'
         /\ audit' \subseteq audit \union {[op |-> p, event |-> event, code |-> code]}
         /\ Written(event, code) => [op |-> p, event |-> event, code |-> code] \in audit'
BY DEF Log

\* A token that was handed out can be presented.
LEMMA HandedIsPresentable ==
  ASSUME Store!TypeOK, NEW t \in issued
  PROVE  t \in Store!Presentable
<1>1. t \in Store!Token
  BY DEF Store!TypeOK
<1>2. t = [id |-> t.id, exp |-> t.exp, mac |-> t.mac]
  BY <1>1 DEF Store!Token
<1>3. [id |-> t.id, exp |-> t.exp, mac |-> t.mac] \in Store!Presentable
  BY DEF Store!Presentable
<1> QED
  BY <1>2, <1>3

\* What a call asks for has its fingerprint.
LEMMA AskedHasOperation ==
  ASSUME NEW r, Request(r) \in Requests
  PROVE  Operation(r) \in Operations
<1>1. Operation(Request(r)) = Operation(r)
  BY DEF Request, Operation
<1> QED
  BY <1>1 DEF Operations

\* Every step of a call is a step of the store or leaves it alone.
LEMMA StepOfStore ==
  ASSUME IInv, [Next]_vars
  PROVE  storeVars' = storeVars \/ Store!Next
<1>1. ASSUME NEW p \in Calls, Begin(p) \/ Perform(p) PROVE storeVars' = storeVars
  BY <1>1 DEF Begin, Start, Perform, storeVars
<1>2. ASSUME NEW p \in Calls, Prepare(p) PROVE Store!Next
  <2>1. Operation(req[p]) \in Operations
    BY <1>2, AskedHasOperation DEF IInv, DispatchInv, CallsAreInOrder, Prepare
  <2> QED
    BY <1>2, <2>1 DEF Prepare, Store!Next
<1>3. ASSUME NEW p \in Calls, Present(p) PROVE Store!Next
  <2>1. Operation(req[p]) \in Operations /\ req[p].token \in issued
    BY <1>3, AskedHasOperation DEF IInv, DispatchInv, CallsAreInOrder, OnlyWithAToken, Handed, Present
  <2>2. req[p].token \in Store!Presentable
    BY <2>1, HandedIsPresentable DEF IInv, Store!IInv
  <2> QED
    BY <1>3, <2>1, <2>2 DEF Present, Store!Next
<1>4. ASSUME NEW p \in Calls, Verify(p) PROVE Store!Next
  BY <1>4 DEF Verify, Store!Next
<1>5. ASSUME NEW p \in Calls,
             \/ Admit(p) \/ PrepareFails(p) \/ Preview(p) \/ Reject(p)
             \/ PresentFails(p) \/ Accept(p)
             \/ Build(p) \/ Call(p) \/ Answer(p) \/ Finish(p)
      PROVE  storeVars' = storeVars
  BY <1>5 DEF Admit, PrepareFails, Preview, Reject, PresentFails, Accept, Build, Call,
              Answer, Finish,
              storeVars
<1>6. CASE Restart \/ Tick
  BY <1>6 DEF Restart, Tick, Store!Next
<1>7. CASE Quiet \/ UNCHANGED vars
  BY <1>7 DEF Quiet, vars
<1> QED
  BY <1>1, <1>2, <1>3, <1>4, <1>5, <1>6, <1>7 DEF Next, Step

\* What no step takes back: the configuration of the process, what was issued,
\* logged and sent, the request of a call that has begun, and the result of one
\* that has returned.
LEMMA NothingIsTakenBack ==
  ASSUME IInv, [Next]_vars
  PROVE  /\ pol' = pol /\ level' = level
         /\ audit \subseteq audit' /\ sent \subseteq sent'
         /\ \A p \in Calls :
              /\ stage[p] # "idle" => stage'[p] # "idle" /\ req'[p] = req[p]
              /\ stage[p] = "returned" => stage'[p] = "returned" /\ result'[p] = result[p]
<1> DEFINE Kept ==
       /\ pol' = pol /\ level' = level
       /\ audit \subseteq audit' /\ sent \subseteq sent'
       /\ \A p \in Calls :
            /\ stage[p] # "idle" => stage'[p] # "idle" /\ req'[p] = req[p]
            /\ stage[p] = "returned" => stage'[p] = "returned" /\ result'[p] = result[p]
<1> SUFFICES Kept
  OBVIOUS
<1>t. /\ stage \in [Calls -> Stages] /\ req \in [Calls -> Asked \union {NoRequest}]
      /\ result \in [Calls -> Codes]
  BY DEF IInv, TypeOK, DispatchInv, CallsAreInOrder
<1>1. ASSUME NEW p \in Calls, NEW r, NEW tok, Start(p, r, tok) PROVE Kept
  BY <1>t, <1>1 DEF Start, To, Log
<1>2. ASSUME NEW p \in Calls,
             \/ Admit(p) \/ Prepare(p) \/ PrepareFails(p) \/ Preview(p) \/ Present(p)
             \/ Reject(p) \/ PresentFails(p) \/ Accept(p) \/ Build(p) \/ Call(p)
             \/ Answer(p) \/ Finish(p)
      PROVE  Kept
  <2>1. CASE Admit(p)
    BY <1>t, <2>1 DEF Admit, To, End, Log
  <2>2. CASE Prepare(p) \/ PrepareFails(p) \/ Present(p) \/ Build(p) \/ Call(p) \/ Answer(p)
    BY <1>t, <2>2 DEF Prepare, PrepareFails, Present, Build, Call, Answer, To, End
  <2>3. CASE Preview(p) \/ Reject(p) \/ PresentFails(p) \/ Accept(p) \/ Finish(p)
    BY <1>t, <2>3 DEF Preview, Reject, PresentFails, Accept, Finish, To, End, Log
  <2> QED
    BY <1>2, <2>1, <2>2, <2>3
<1>3. ASSUME NEW p \in Calls, Verify(p) \/ Perform(p) PROVE Kept
  BY <1>3 DEF Verify, Perform, dispatchVars
<1>4. CASE Restart
  BY <1>4 DEF Restart
<1>5. CASE Tick \/ Quiet \/ UNCHANGED vars
  BY <1>5 DEF Tick, Quiet, dispatchVars, vars
<1> QED
  BY <1>1, <1>2, <1>3, <1>4, <1>5 DEF Next, Begin, Step

\* And in the store: tokens stay issued, acceptances counted, time shown.
LEMMA StoreTakesNothingBack ==
  ASSUME Store!IInv, storeVars' = storeVars \/ Store!Next
  PROVE  /\ issued \subseteq issued'
         /\ latest' >= latest
         /\ \A i \in Calls : spent'[i] >= spent[i]
<1>t. Store!TypeOK
  BY DEF Store!IInv
<1>1. CASE storeVars' = storeVars
  BY <1>t, <1>1 DEF storeVars, Store!TypeOK
<1>2. ASSUME NEW i \in Calls, NEW op \in Operations, Store!Issue(i, op)
      PROVE  /\ issued \subseteq issued' /\ latest' = latest /\ spent' = spent
  BY <1>2 DEF Store!Issue
<1>3. ASSUME NEW p \in Calls, NEW tok, NEW op, Store!BeginVerify(p, tok, op)
      PROVE  issued' = issued /\ latest' = latest /\ spent' = spent
  BY <1>3 DEF Store!BeginVerify
<1>4. ASSUME NEW p \in Calls, Store!CheckExpiry(p)
      PROVE  issued' = issued /\ latest' = latest /\ spent' = spent
  BY <1>4 DEF Store!CheckExpiry
<1>5. ASSUME NEW p \in Calls, Store!Consume(p)
      PROVE  /\ issued' = issued /\ latest' = latest
             /\ \A i \in Calls : spent'[i] >= spent[i]
  <2>1. spent \in [Calls -> Nat]
    BY <1>t DEF Store!TypeOK
  <2> QED
    BY <1>5, <2>1 DEF Store!Consume
<1>6. CASE Store!Restart \/ Store!StepBack
  BY <1>6, <1>t DEF Store!Restart, Store!StepBack, Store!TypeOK
<1>7. CASE Store!Tick
  BY <1>7, <1>t DEF Store!Tick, Store!TypeOK
<1> QED
  BY <1>t, <1>1, <1>2, <1>3, <1>4, <1>5, <1>6, <1>7 DEF Store!Next, Store!TypeOK

-----------------------------------------------------------------------------
(***************************************************************************)
(* Types, and what a call is at each stage.                                *)
(***************************************************************************)

\* What the early returns say, and to whom.
LEMMA VerdictSays ==
  ASSUME NEW r
  PROVE  /\ Verdict(r) \in {"none", "invalid_params", "unknown_action", "forbidden"}
         /\ Verdict(r) = "none" /\ r.via # "local" => AllowsAction(pol, r.action) = "none"
         /\ Verdict(r) = "invalid_params" /\ r.action # "" =>
              AllowsAction(pol, r.action) = "none"
<1>1. AllowsAction(pol, r.action) \in {"none", "unknown_action", "forbidden"}
  BY DEF AllowsAction
<1>2. Resolve(r.action) \in {"none", "unknown_action", "forbidden"}
  BY DEF Resolve
<1> QED
  BY <1>1, <1>2 DEF Verdict

LEMMA InitTypes == Init => TypeOK /\ CallsAreInOrder
BY DEF Init, TypeOK, CallsAreInOrder, Stages, Codes

\* A call that begins asks for one of the requests.
LEMMA StartAsks ==
  ASSUME IInv, NEW p \in Calls, NEW r \in Requests, NEW tok \in {NoToken} \union issued
  PROVE  LET asked == [via |-> r.via, action |-> r.action, args |-> r.args,
                       named |-> r.named, token |-> tok]
         IN  asked \in Asked /\ Request(asked) = r
<1>1. tok \in Store!Token \union {NoToken}
  BY DEF IInv, Store!IInv, Store!TypeOK
<1>2. Request(r) = r
  BY DispatchAssumption
<1> QED
  BY <1>1, <1>2 DEF Asked, Request

\* The request and the token of a call that begins.
LEMMA BeginStarts ==
  ASSUME NEW p \in Calls, Begin(p)
  PROVE  \E r \in Requests, tok \in {NoToken} \union Handed :
           /\ Start(p, r, tok)
           /\ tok # NoToken => r.action \in Actions /\ NeedsConfirmation(ClassOf[r.action])
BY DEF Begin

\* Requests, results and permissions stay in order, stage by stage.
LEMMA OrderStep ==
  ASSUME IInv, [Next]_vars
  PROVE  CallsAreInOrder'
<1>t. /\ stage \in [Calls -> Stages] /\ req \in [Calls -> Asked \union {NoRequest}]
      /\ result \in [Calls -> Codes] /\ CallsAreInOrder
  BY DEF IInv, TypeOK, DispatchInv, CallsAreInOrder
<1>a. Asked' = Asked /\ pol' = pol
  BY NothingIsTakenBack DEF Asked, Store!Token, Store!Mac
<1>1. ASSUME NEW p \in Calls, NEW r \in Requests, NEW tok \in {NoToken} \union issued,
             Start(p, r, tok)
      PROVE  CallsAreInOrder'
  <2> DEFINE asked == [via |-> r.via, action |-> r.action, args |-> r.args,
                       named |-> r.named, token |-> tok]
  <2>1. asked \in Asked /\ Request(asked) = r
    BY StartAsks
  <2> QED
    BY <1>t, <1>a, <1>1, <2>1 DEF Start, To, CallsAreInOrder
<1>2. ASSUME NEW p \in Calls, Admit(p) PROVE CallsAreInOrder'
  <2>1. req' = req /\ stage[p] = "admit"
    BY <1>2 DEF Admit
  <2>2. CASE stage' = [stage EXCEPT ![p] = "finish"]
             /\ \E code \in Codes : result' = [result EXCEPT ![p] = code]
    BY <1>t, <1>a, <2>1, <2>2 DEF CallsAreInOrder
  <2>3. CASE /\ Verdict(req[p]) = "none" /\ req[p].via # "local"
             /\ \E s \in {"build", "prepare", "present"} : stage' = [stage EXCEPT ![p] = s]
             /\ result' = result
    BY <1>t, <1>a, <2>1, <2>3, VerdictSays DEF CallsAreInOrder
  <2> QED
    BY <1>2, <2>2, <2>3, VerdictSays DEF Admit, To, End, Codes, Refusals
<1>3. ASSUME NEW p \in Calls, NEW code \in Codes, stage[p] # "idle", End(p, code), req' = req
      PROVE  CallsAreInOrder'
  BY <1>t, <1>a, <1>3 DEF End, To, CallsAreInOrder
<1>4. ASSUME NEW p \in Calls, NEW s,
             \/ stage[p] = "prepare" /\ s = "issued"
             \/ stage[p] = "present" /\ s = "verify"
             \/ stage[p] = "verify" /\ s = "build"
             \/ stage[p] = "build" /\ s = "call"
             \/ stage[p] = "call" /\ s = "await",
             To(p, s), req' = req, result' = result
      PROVE  CallsAreInOrder'
  BY <1>t, <1>a, <1>4 DEF To, CallsAreInOrder
<1>5. ASSUME NEW p \in Calls, Prepare(p) \/ Present(p) \/ Accept(p) \/ Call(p)
      PROVE  CallsAreInOrder'
  BY <1>5, <1>4 DEF Prepare, Present, Accept, Call
<1>6. ASSUME NEW p \in Calls, PrepareFails(p) \/ Preview(p) \/ Reject(p)
                              \/ PresentFails(p) \/ Answer(p)
      PROVE  CallsAreInOrder'
  BY <1>t, <1>6, <1>3 DEF PrepareFails, Preview, Reject, PresentFails, Answer, Codes,
                          Refusals
<1>7. ASSUME NEW p \in Calls, Build(p) PROVE CallsAreInOrder'
  BY <1>7, <1>3, <1>4 DEF Build, Codes, Refusals
<1>8. ASSUME NEW p \in Calls, Finish(p) PROVE CallsAreInOrder'
  BY <1>t, <1>a, <1>8 DEF Finish, To, CallsAreInOrder
<1>9. CASE Restart
  BY <1>t, <1>a, <1>9 DEF Restart, CallsAreInOrder
<1>10. ASSUME UNCHANGED <<stage, req, result>> PROVE CallsAreInOrder'
  BY <1>t, <1>a, <1>10 DEF CallsAreInOrder
<1>11. ASSUME NEW p \in Calls, Verify(p) \/ Perform(p) PROVE CallsAreInOrder'
  BY <1>10, <1>11 DEF Verify, Perform, dispatchVars
<1>12. CASE Tick \/ Quiet \/ UNCHANGED vars
  BY <1>10, <1>12 DEF Tick, Quiet, dispatchVars, vars
<1>13. ASSUME NEW p \in Calls, Begin(p) PROVE CallsAreInOrder'
  BY <1>1, <1>13, BeginStarts DEF Handed
<1> QED
  BY <1>2, <1>5, <1>6, <1>7, <1>8, <1>9, <1>11, <1>12, <1>13 DEF Next, Step

\* The stages of a call.
LEMMA StagesStep ==
  ASSUME IInv, [Next]_vars
  PROVE  stage' \in [Calls -> Stages]
<1>t. stage \in [Calls -> Stages]
  BY DEF IInv, TypeOK
<1>1. ASSUME NEW p \in Calls, NEW s \in Stages, To(p, s) PROVE stage' \in [Calls -> Stages]
  BY <1>t, <1>1 DEF To
<1>2. ASSUME NEW p \in Calls, NEW r, NEW tok, Start(p, r, tok)
      PROVE  stage' \in [Calls -> Stages]
  BY <1>1, <1>2 DEF Start, Stages
<1>3. ASSUME NEW p \in Calls, Admit(p) PROVE stage' \in [Calls -> Stages]
  BY <1>1, <1>3 DEF Admit, End, Stages
<1>4. ASSUME NEW p \in Calls,
             \/ Prepare(p) \/ PrepareFails(p) \/ Preview(p) \/ Present(p)
             \/ Reject(p) \/ PresentFails(p) \/ Accept(p) \/ Build(p) \/ Call(p)
             \/ Answer(p) \/ Finish(p)
      PROVE  stage' \in [Calls -> Stages]
  BY <1>1, <1>4 DEF Prepare, PrepareFails, Preview, Present, Reject, PresentFails,
                    Accept, Build, Call,
                    Answer, Finish, End, Stages
<1>5. ASSUME NEW p \in Calls, Verify(p) \/ Perform(p) PROVE stage' \in [Calls -> Stages]
  BY <1>t, <1>5 DEF Verify, Perform, dispatchVars
<1>6. CASE Restart
  BY <1>t, <1>6 DEF Restart, Stages
<1>7. CASE Tick \/ Quiet \/ UNCHANGED vars
  BY <1>t, <1>7 DEF Tick, Quiet, dispatchVars, vars
<1> QED
  BY <1>2, <1>3, <1>4, <1>5, <1>6, <1>7 DEF Next, Begin, Step

\* A call that has not begun stays as it is until it begins.
LEMMA RequestsAreAsked ==
  ASSUME IInv, [Next]_vars, NEW p \in Calls, stage'[p] = "idle"
  PROVE  req'[p] = req[p]
<1>t. /\ stage \in [Calls -> Stages] /\ req \in [Calls -> Asked \union {NoRequest}]
  BY DEF IInv, TypeOK, DispatchInv, CallsAreInOrder
<1>1. ASSUME NEW q \in Calls, NEW r, NEW tok, Start(q, r, tok) PROVE req'[p] = req[p]
  BY <1>t, <1>1 DEF Start, To
<1>2. ASSUME NEW q \in Calls, Step(q) \/ Perform(q) PROVE req' = req
  BY <1>2 DEF Step, Admit, Prepare, PrepareFails, Preview, Present, Verify, Reject,
              PresentFails, Accept,
              Build, Call, Answer, Finish, Perform, dispatchVars
<1>3. CASE Restart \/ Tick \/ Quiet \/ UNCHANGED vars
  BY <1>3 DEF Restart, Tick, Quiet, dispatchVars, vars
<1> QED
  BY <1>1, <1>2, <1>3 DEF Next, Begin

\* Only Call sends, and only what was sent is performed.
LEMMA SentStep ==
  ASSUME IInv, [Next]_vars
  PROVE  /\ performed' \subseteq sent'
         /\ \A p \in sent' \ sent : p \in Calls /\ Call(p)
<1>t. performed \subseteq sent
  BY DEF IInv, TypeOK
<1>1. ASSUME NEW p \in Calls, Begin(p) PROVE sent' = sent /\ performed' = performed
  BY <1>1 DEF Begin, Start
<1>2. ASSUME NEW p \in Calls,
             \/ Admit(p) \/ Prepare(p) \/ PrepareFails(p) \/ Preview(p) \/ Present(p)
             \/ Verify(p) \/ Reject(p) \/ PresentFails(p) \/ Accept(p) \/ Build(p)
             \/ Answer(p) \/ Finish(p)
      PROVE  sent' = sent /\ performed' = performed
  BY <1>2 DEF Admit, Prepare, PrepareFails, Preview, Present, Verify, Reject,
              PresentFails, Accept,
              Build, Answer, Finish, dispatchVars
<1>3. ASSUME NEW p \in Calls, Call(p)
      PROVE  sent' = sent \union {p} /\ performed' = performed
  BY <1>3 DEF Call
<1>4. ASSUME NEW p \in Calls, Perform(p)
      PROVE  sent' = sent /\ performed' = performed \union {p} /\ p \in sent
  BY <1>4 DEF Perform
<1>5. CASE Restart \/ Tick \/ Quiet \/ UNCHANGED vars
  BY <1>t, <1>5 DEF Restart, Tick, Quiet, dispatchVars, vars
<1> QED
  BY <1>t, <1>1, <1>2, <1>3, <1>4, <1>5 DEF Next, Step

\* What is written to the log is a record of a call.
LEMMA RecordsStep ==
  ASSUME IInv, [Next]_vars
  PROVE  audit' \subseteq audit \union Records
<1>1. ASSUME NEW p \in Calls, NEW code \in Codes,
             NEW event \in {"start", "denied", "issued", "consumed", "rejected", "finish"},
             Log(p, event, code)
      PROVE  audit' \subseteq audit \union Records
  <2>1. [op |-> p, event |-> event, code |-> code] \in Records
    BY DEF Records
  <2> QED
    BY <1>1, <2>1, LogKeeps
<1>2. ASSUME NEW p \in Calls, NEW r, NEW tok, Start(p, r, tok)
      PROVE  audit' \subseteq audit \union Records
  BY <1>1, <1>2 DEF Start, Codes
<1>3. ASSUME NEW p \in Calls, Admit(p) PROVE audit' \subseteq audit \union Records
  <2>1. Verdict(req[p]) \in Codes
    BY VerdictSays DEF Codes, Refusals
  <2>2. Log(p, "denied", Verdict(req[p])) \/ audit' = audit
    BY <1>3 DEF Admit
  <2> QED
    BY <1>1, <2>1, <2>2
<1>4. ASSUME NEW p \in Calls, Preview(p) \/ Accept(p) \/ Reject(p)
                              \/ PresentFails(p) \/ Finish(p)
      PROVE  audit' \subseteq audit \union Records
  <2>1. result[p] \in Codes
    BY DEF IInv, DispatchInv, CallsAreInOrder
  <2>2. Confirmations \subseteq Codes /\ "none" \in Codes /\ "invalid_params" \in Codes
    BY DEF Codes, Refusals
  <2>3. CASE Preview(p) \/ Accept(p)
    BY <1>1, <2>2, <2>3 DEF Preview, Accept
  <2>4. CASE Reject(p) \/ PresentFails(p)
    BY <1>1, <2>2, <2>4 DEF Reject, PresentFails
  <2>5. CASE Finish(p)
    BY <1>1, <2>1, <2>5 DEF Finish
  <2> QED
    BY <1>4, <2>3, <2>4, <2>5
<1>5. ASSUME NEW p \in Calls,
             \/ Prepare(p) \/ PrepareFails(p) \/ Present(p) \/ Verify(p) \/ Build(p)
             \/ Call(p) \/ Answer(p) \/ Perform(p)
      PROVE  audit' = audit
  BY <1>5 DEF Prepare, PrepareFails, Present, Verify, Build, Call, Answer, Perform,
              dispatchVars
<1>6. CASE Restart \/ Tick \/ Quiet \/ UNCHANGED vars
  BY <1>6 DEF Restart, Tick, Quiet, dispatchVars, vars
<1> QED
  BY <1>2, <1>3, <1>4, <1>5, <1>6 DEF Next, Begin, Step

\* Only Finish returns a call to its caller.
LEMMA ReturnedByFinish ==
  ASSUME IInv, [Next]_vars, NEW p \in Calls,
         stage[p] # "returned", stage'[p] = "returned"
  PROVE  Finish(p)
<1>t. stage \in [Calls -> Stages]
  BY DEF IInv, TypeOK
<1>1. ASSUME NEW q \in Calls, NEW s, To(q, s), s # "returned" PROVE FALSE
  BY <1>t, <1>1 DEF To
<1>2. ASSUME NEW q \in Calls, Begin(q) PROVE FALSE
  BY <1>1, <1>2 DEF Begin, Start
<1>3. ASSUME NEW q \in Calls, Admit(q) PROVE FALSE
  BY <1>1, <1>3 DEF Admit, End
<1>4. ASSUME NEW q \in Calls,
             \/ Prepare(q) \/ PrepareFails(q) \/ Preview(q) \/ Present(q)
             \/ Reject(q) \/ PresentFails(q) \/ Accept(q) \/ Build(q) \/ Call(q)
             \/ Answer(q)
      PROVE  FALSE
  BY <1>1, <1>4 DEF Prepare, PrepareFails, Preview, Present, Reject, PresentFails,
                    Accept, Build, Call,
                    Answer, End
<1>5. ASSUME NEW q \in Calls, Verify(q) \/ Perform(q) PROVE FALSE
  BY <1>t, <1>5 DEF Verify, Perform, dispatchVars
<1>6. CASE Restart \/ Tick \/ Quiet \/ UNCHANGED vars
  BY <1>t, <1>6 DEF Restart, Tick, Quiet, dispatchVars, vars
<1>7. ASSUME NEW q \in Calls, Finish(q) PROVE q = p
  BY <1>t, <1>7 DEF Finish, To
<1> QED
  BY <1>2, <1>3, <1>4, <1>5, <1>6, <1>7 DEF Next, Step

\* What is logged is a record, what is performed was sent, and a call that has
\* returned has its finish record.
LEMMA TypeStep ==
  ASSUME IInv, [Next]_vars
  PROVE  TypeOK'
<1>t. /\ TypeOK /\ CallsAreInOrder
  BY DEF IInv, DispatchInv
<1>a. pol' = pol /\ level' = level /\ audit \subseteq audit'
  BY NothingIsTakenBack
<1>b. CallsAreInOrder'
  BY OrderStep
<1>c. \A p \in Calls : req'[p] = NoRequest \/ Request(req'[p]) \in Requests
  <2> SUFFICES ASSUME NEW p \in Calls
               PROVE  req'[p] = NoRequest \/ Request(req'[p]) \in Requests
    OBVIOUS
  <2>1. CASE stage'[p] # "idle"
    BY <1>b, <2>1 DEF CallsAreInOrder, Request
  <2>2. CASE stage'[p] = "idle"
    <3>1. stage[p] = "idle"
      BY <2>2, NothingIsTakenBack
    <3>2. req'[p] = req[p]
      BY <2>2, RequestsAreAsked
    <3> QED
      BY <1>t, <3>2 DEF TypeOK
  <2> QED
    BY <2>1, <2>2
<1>d. stage' \in [Calls -> Stages]
  BY StagesStep
<1>e. performed' \subseteq sent' /\ sent' \subseteq Calls
  BY <1>t, SentStep DEF TypeOK
<1>f. audit' \subseteq Records
  BY <1>t, RecordsStep DEF TypeOK
<1>g. ASSUME NEW p \in Calls, stage'[p] = "returned", Written("finish", result[p])'
      PROVE  [op |-> p, event |-> "finish", code |-> result'[p]] \in audit'
  <2>1. Written("finish", result'[p])
    BY <1>a, <1>g DEF Written
  <2>2. CASE stage[p] = "returned"
    BY <1>t, <1>a, <2>1, <2>2, NothingIsTakenBack DEF TypeOK
  <2>3. CASE stage[p] # "returned"
    <3>1. Finish(p)
      BY <1>g, <2>3, ReturnedByFinish
    <3> QED
      BY <2>1, <3>1, LogKeeps DEF Finish
  <2> QED
    BY <2>2, <2>3
<1> QED
  BY <1>t, <1>a, <1>c, <1>d, <1>e, <1>f, <1>g DEF TypeOK

\* Whatever happens, a given call begins, takes a step of its own, dies with its
\* process or is left as it was.
Rests(p) ==
  /\ stage'[p] = stage[p] /\ req'[p] = req[p] /\ result'[p] = result[p]
  /\ verify'[p] = verify[p] /\ presented'[p] = presented[p]

LEMMA StepOfCall ==
  ASSUME IInv, [Next]_vars, NEW p \in Calls
  PROVE  Begin(p) \/ Step(p) \/ Restart \/ Rests(p)
<1>t. /\ stage \in [Calls -> Stages] /\ req \in [Calls -> Asked \union {NoRequest}]
      /\ result \in [Calls -> Codes]
      /\ DOMAIN verify = Calls /\ DOMAIN presented = Calls
  BY DEF IInv, Store!IInv, Store!TypeOK, TypeOK, DispatchInv, CallsAreInOrder
<1>1. ASSUME NEW q \in Calls, q # p, Begin(q) PROVE Rests(p)
  BY <1>t, <1>1 DEF Begin, Start, To, Rests, storeVars
<1>2. ASSUME NEW q \in Calls, q # p, Admit(q) PROVE Rests(p)
  BY <1>t, <1>2 DEF Admit, End, To, Rests, storeVars
<1>3. ASSUME NEW q \in Calls, q # p, Prepare(q) \/ Present(q) PROVE Rests(p)
  BY <1>t, <1>3 DEF Prepare, Present, To, Rests, Store!Issue, Store!BeginVerify
<1>4. ASSUME NEW q \in Calls, q # p, Verify(q) PROVE Rests(p)
  BY <1>t, <1>4 DEF Verify, Rests, dispatchVars, Store!CheckExpiry, Store!Consume
<1>5. ASSUME NEW q \in Calls, q # p,
             \/ PrepareFails(q) \/ Preview(q) \/ Reject(q) \/ PresentFails(q)
             \/ Accept(q) \/ Build(q)
             \/ Call(q) \/ Answer(q) \/ Finish(q)
      PROVE  Rests(p)
  BY <1>t, <1>5 DEF PrepareFails, Preview, Reject, PresentFails, Accept, Build, Call,
                    Answer, Finish,
                    To, End, Rests, storeVars
<1>6. ASSUME NEW q \in Calls, Perform(q) PROVE Rests(p)
  BY <1>6 DEF Perform, Rests, storeVars
<1>7. CASE Tick \/ Quiet \/ UNCHANGED vars
  BY <1>7 DEF Tick, Quiet, vars, dispatchVars, storeVars, Rests, Store!Tick
<1> QED
  BY <1>1, <1>2, <1>3, <1>4, <1>5, <1>6, <1>7 DEF Next, Step

-----------------------------------------------------------------------------
(***************************************************************************)
(* The parts of the invariant that are about one call, stage by stage.     *)
(***************************************************************************)

\* What was sent waits, and what it comes back with is not a refusal.
LEMMA SentIsAnsweredStep ==
  ASSUME IInv, [Next]_vars
  PROVE  SentIsAnswered'
<1>t. /\ stage \in [Calls -> Stages] /\ result \in [Calls -> Codes]
      /\ sent \subseteq Calls /\ CallsAreInOrder /\ SentIsAnswered
  BY DEF IInv, TypeOK, DispatchInv, CallsAreInOrder
<1> SUFFICES ASSUME NEW p \in sent'
             PROVE  /\ stage'[p] \in {"await", "finish", "returned", "dead"}
                    /\ result'[p] \in {"none", "ok"} \union ClientErrors
  BY DEF SentIsAnswered
<1>1. CASE p \notin sent
  <2>1. p \in Calls /\ Call(p)
    BY <1>1, SentStep
  <2>2. result[p] = "none"
    BY <1>t, <2>1 DEF Call, CallsAreInOrder
  <2> QED
    BY <1>t, <2>1, <2>2 DEF Call, To
<1>2. CASE p \in sent
  <2>1. /\ p \in Calls /\ stage[p] \in {"await", "finish", "returned", "dead"}
        /\ result[p] \in {"none", "ok"} \union ClientErrors
    BY <1>t, <1>2 DEF SentIsAnswered
  <2>2. CASE Begin(p) \/ Step(p)
    <3>1. Answer(p) \/ Finish(p)
      BY <2>1, <2>2 DEF Begin, Start, Step, Admit, Prepare, PrepareFails, Preview, Present,
                        Verify, Reject, PresentFails, Accept, Build, Call
    <3> QED
      BY <1>t, <2>1, <3>1 DEF Answer, Finish, End, To
  <2>3. CASE Restart
    BY <2>1, <2>3 DEF Restart
  <2>4. CASE Rests(p)
    BY <2>1, <2>4 DEF Rests
  <2> QED
    BY <2>1, <2>2, <2>3, <2>4, StepOfCall
<1> QED
  BY <1>1, <1>2

\* Codes of this server are not codes of the client.
LEMMA RefusalsAreOurs ==
  \A code \in {"none", "ok"} \union ClientErrors : code \notin Refusals
BY DispatchAssumption DEF Refusals, Confirmations

\* So what a refusal says stays true; and of arguments it speaks only where the
\* policy has let the action through.
LEMMA RefusalsStep ==
  ASSUME IInv, [Next]_vars
  PROVE  RefusalsAreTrue'
<1>t. /\ stage \in [Calls -> Stages] /\ result \in [Calls -> Codes]
      /\ CallsAreInOrder /\ RefusalsAreTrue
  BY DEF IInv, TypeOK, DispatchInv, CallsAreInOrder
<1>1. ASSUME NEW p \in Calls, result'[p] \in Refusals PROVE p \notin sent'
  BY <1>1, SentIsAnsweredStep, RefusalsAreOurs DEF SentIsAnswered
<1>2. ASSUME NEW p \in Calls, result'[p] = "invalid_params", req'[p].action # ""
      PROVE  AllowsAction(pol, req'[p].action) = "none"
  <2>1. CASE Begin(p)
    BY <1>t, <1>2, <2>1 DEF Begin, Start, CallsAreInOrder
  <2>2. CASE Restart \/ Rests(p)
    BY <1>t, <1>2, <2>2 DEF Restart, Rests, RefusalsAreTrue
  <2>3. CASE Admit(p)
    <3>1. req' = req /\ result[p] = "none"
      BY <1>t, <2>3 DEF Admit, CallsAreInOrder
    <3>2. Verdict(req[p]) = "invalid_params"
      BY <1>t, <1>2, <2>3, <3>1 DEF Admit, End
    <3> QED
      BY <1>2, <3>1, <3>2, VerdictSays
  <2>4. CASE Build(p) \/ PrepareFails(p) \/ PresentFails(p)
    BY <1>t, <2>4 DEF Build, PrepareFails, PresentFails, CallsAreInOrder
  <2>5. CASE \/ Prepare(p) \/ Preview(p) \/ Present(p) \/ Verify(p)
             \/ Reject(p) \/ Accept(p) \/ Call(p) \/ Finish(p)
    BY <1>t, <1>2, <2>5
       DEF Prepare, Preview, Present, Verify, Reject, Accept, Call, Finish, End,
           dispatchVars, Confirmations, RefusalsAreTrue
  <2>6. CASE Answer(p)
    <3>1. "invalid_params" \in Refusals
      BY DEF Refusals
    <3> QED
      BY <1>t, <1>2, <2>6, <3>1, RefusalsAreOurs DEF Answer, End
  <2> QED
    BY <2>1, <2>2, <2>3, <2>4, <2>5, <2>6, StepOfCall DEF Step
<1> QED
  BY <1>1, <1>2, NothingIsTakenBack DEF RefusalsAreTrue

\* A token that was handed out stays handed out.
LEMMA HandedStays ==
  ASSUME IInv, [Next]_vars
  PROVE  Handed \subseteq Handed'
<1>1. issued \subseteq issued'
  BY StepOfStore, StoreTakesNothingBack DEF IInv
<1>2. \A t \in issued : t.id \in Calls
  BY DEF IInv, Store!IInv, Store!TypeOK, Store!Token
<1> QED
  BY <1>1, <1>2, NothingIsTakenBack DEF Handed

\* Only Prepare mints a token, for its call and its operation.
LEMMA MintedByPrepare ==
  ASSUME IInv, [Next]_vars, NEW t \in issued', t \notin issued
  PROVE  /\ t.id \in Calls /\ Prepare(t.id)
         /\ t.mac.fp = Operation(req[t.id])
<1>1. ASSUME NEW p \in Calls, Prepare(p)
      PROVE  /\ t.id = p
             /\ t.mac.fp = Operation(req[p])
  BY <1>1 DEF Prepare, Store!Issue, Store!Sign
<1>2. ASSUME NEW p \in Calls, Present(p) \/ Verify(p) PROVE issued' = issued
  BY <1>2 DEF Present, Verify, Store!BeginVerify, Store!CheckExpiry, Store!Consume
<1>3. ASSUME NEW p \in Calls,
             \/ Begin(p) \/ Admit(p) \/ PrepareFails(p) \/ Preview(p) \/ Reject(p)
             \/ PresentFails(p)
             \/ Accept(p) \/ Build(p) \/ Call(p) \/ Answer(p) \/ Finish(p) \/ Perform(p)
      PROVE  issued' = issued
  BY <1>3 DEF Begin, Start, Admit, PrepareFails, Preview, Reject, PresentFails,
              Accept, Build, Call,
              Answer, Finish, Perform, storeVars
<1>4. CASE Restart \/ Tick \/ Quiet \/ UNCHANGED vars
  BY <1>4 DEF Restart, Tick, Quiet, vars, storeVars, Store!Restart, Store!Tick
<1> QED
  BY <1>1, <1>2, <1>3, <1>4 DEF Next, Step

LEMMA TokensStep ==
  ASSUME IInv, [Next]_vars
  PROVE  TokensAreOfTheirCalls'
<1>t. /\ stage \in [Calls -> Stages] /\ result \in [Calls -> Codes]
      /\ CallsAreInOrder /\ TokensAreOfTheirCalls
  BY DEF IInv, TypeOK, DispatchInv, CallsAreInOrder
<1>1. ASSUME NEW t \in issued'
      PROVE  stage'[t.id] # "idle" /\ t.mac.fp = Operation(req'[t.id])
  <2>1. CASE t \notin issued
    <3>1. t.id \in Calls /\ stage[t.id] # "idle" /\ t.mac.fp = Operation(req[t.id])
      BY <2>1, MintedByPrepare DEF Prepare
    <3> QED
      BY <3>1, NothingIsTakenBack
  <2>2. CASE t \in issued
    <3>1. t.id \in Calls
      BY <2>2 DEF IInv, Store!IInv, Store!TypeOK, Store!Token
    <3> QED
      BY <1>t, <2>2, <3>1, NothingIsTakenBack DEF TokensAreOfTheirCalls
  <2> QED
    BY <2>1, <2>2
<1>2. ASSUME NEW p \in Calls, result'[p] = "preview", Written("issued", "none")
      PROVE  [op |-> p, event |-> "issued", code |-> "none"] \in audit'
  <2>1. CASE result[p] = "preview"
    BY <1>t, <1>2, <2>1, NothingIsTakenBack DEF TokensAreOfTheirCalls
  <2>2. CASE result[p] # "preview"
    <3>1. CASE Begin(p)
      BY <1>2, <2>2, <3>1 DEF Begin, Start
    <3>2. CASE Restart \/ Rests(p)
      BY <1>2, <2>2, <3>2 DEF Restart, Rests
    <3>3. CASE Admit(p)
      BY <1>t, <1>2, <2>2, <3>3, VerdictSays DEF Admit, End
    <3>4. CASE \/ Prepare(p) \/ PrepareFails(p) \/ Present(p) \/ Verify(p)
               \/ Reject(p) \/ PresentFails(p) \/ Accept(p) \/ Build(p) \/ Call(p)
               \/ Finish(p)
      BY <1>t, <1>2, <2>2, <3>4
         DEF Prepare, PrepareFails, Present, Verify, Reject, PresentFails, Accept,
             Build, Call, Finish,
             End, dispatchVars, Confirmations
    <3>5. CASE Answer(p)
      <4>1. "preview" \in Refusals
        BY DEF Refusals
      <4> QED
        BY <1>t, <1>2, <2>2, <3>5, <4>1, RefusalsAreOurs DEF Answer, End
    <3>6. CASE Preview(p)
      BY <1>2, <3>6, LogKeeps DEF Preview
    <3> QED
      BY <3>1, <3>2, <3>3, <3>4, <3>5, <3>6, StepOfCall DEF Step
  <2> QED
    BY <2>1, <2>2
<1>3. \A event, code : Written(event, code)' <=> Written(event, code)
  BY NothingIsTakenBack DEF Written
<1> QED
  BY <1>1, <1>2, <1>3 DEF TokensAreOfTheirCalls

\* A call is destructive as long as its request lasts.
LEMMA DestructiveStays ==
  ASSUME NEW p, req'[p] = req[p]
  PROVE  Destructive(p)' <=> Destructive(p)
BY DEF Destructive

LEMMA OnlyWithATokenStep ==
  ASSUME IInv, [Next]_vars
  PROVE  OnlyWithAToken'
<1>t. /\ stage \in [Calls -> Stages] /\ req \in [Calls -> Asked \union {NoRequest}]
      /\ OnlyWithAToken
  BY DEF IInv, TypeOK, DispatchInv, CallsAreInOrder
<1> SUFFICES ASSUME NEW p \in Calls, stage'[p] # "idle"
             PROVE  /\ req'[p].token # NoToken =>
                         Destructive(p)' /\ req'[p].token \in Handed' /\ req'[p].token.id # p
                    /\ stage'[p] \in {"present", "verify"} => req'[p].token # NoToken
                    /\ stage'[p] \in {"build", "call"} /\ Destructive(p)' =>
                         req'[p].token # NoToken
  BY DEF OnlyWithAToken
<1>1. CASE Begin(p)
  <2>1. PICK r \in Requests, tok \in {NoToken} \union Handed :
           /\ Start(p, r, tok)
           /\ tok # NoToken => r.action \in Actions /\ NeedsConfirmation(ClassOf[r.action])
    BY <1>1, BeginStarts
  <2>2. /\ req'[p].token = tok /\ req'[p].action = r.action
        /\ stage[p] = "idle" /\ stage'[p] = "admit"
    BY <1>t, <2>1 DEF Start, To
  <2>3. tok # NoToken => tok \in Handed' /\ tok.id # p
    BY <2>1, <2>2, HandedStays DEF Handed
  <2> QED
    BY <2>1, <2>2, <2>3 DEF Destructive
<1>2. ASSUME stage[p] # "idle",
             stage'[p] \in {"present", "verify"} => req[p].token # NoToken,
             stage'[p] \in {"build", "call"} /\ Destructive(p) => req[p].token # NoToken
      PROVE  /\ req'[p].token # NoToken =>
                  Destructive(p)' /\ req'[p].token \in Handed' /\ req'[p].token.id # p
             /\ stage'[p] \in {"present", "verify"} => req'[p].token # NoToken
             /\ stage'[p] \in {"build", "call"} /\ Destructive(p)' =>
                  req'[p].token # NoToken
  <2>1. req'[p] = req[p]
    BY <1>2, NothingIsTakenBack
  <2> QED
    BY <1>t, <1>2, <2>1, HandedStays, DestructiveStays DEF OnlyWithAToken
<1>3. CASE Admit(p)
  BY <1>t, <1>2, <1>3 DEF Admit, End, To
<1>4. CASE \/ Prepare(p) \/ PrepareFails(p) \/ Preview(p) \/ Reject(p)
           \/ PresentFails(p) \/ Call(p)
           \/ Answer(p) \/ Finish(p)
  BY <1>t, <1>2, <1>4 DEF Prepare, PrepareFails, Preview, Reject, PresentFails, Call,
                          Answer, Finish,
                          End, To
<1>5. CASE Present(p) \/ Verify(p) \/ Accept(p) \/ Build(p)
  BY <1>t, <1>2, <1>5 DEF Present, Verify, Accept, Build, End, To, dispatchVars,
                          OnlyWithAToken
<1>6. CASE Restart
  BY <1>t, <1>2, <1>6 DEF Restart
<1>7. CASE Rests(p)
  BY <1>t, <1>2, <1>7 DEF Rests, OnlyWithAToken
<1> QED
  BY <1>1, <1>3, <1>4, <1>5, <1>6, <1>7, StepOfCall DEF Step

\* Store and call agree on what is being verified, and on what was accepted.
LEMMA VerifiedStep ==
  ASSUME IInv, [Next]_vars
  PROVE  VerifiedIsRequested'
<1>t. /\ stage \in [Calls -> Stages] /\ VerifiedIsRequested /\ OnlyWithAToken
      /\ DOMAIN verify = Calls /\ DOMAIN presented = Calls
  BY DEF IInv, Store!IInv, Store!TypeOK, TypeOK, DispatchInv
<1>w. \A event, code : Written(event, code)' <=> Written(event, code)
  BY NothingIsTakenBack DEF Written
<1> DEFINE Agree(p) ==
       /\ verify[p] # "idle" =>
            /\ stage[p] \notin {"idle", "admit", "prepare", "issued", "present"}
            /\ presented[p].token = req[p].token
            /\ presented[p].op = Operation(req[p])
       /\ stage[p] = "verify" => verify[p] # "idle"
       /\ stage[p] \in {"build", "call"} /\ req[p].token # NoToken =>
            /\ verify[p] = "accepted"
            /\ Written("consumed", "none") =>
                 [op |-> p, event |-> "consumed", code |-> "none"] \in audit
<1> SUFFICES ASSUME NEW p \in Calls PROVE Agree(p)'
  BY DEF VerifiedIsRequested
<1>0. Agree(p)
  BY <1>t DEF VerifiedIsRequested
<1>1. CASE Begin(p)
  BY <1>t, <1>0, <1>1 DEF Begin, Start, To, storeVars
<1>2. CASE Admit(p)
  <2>1. /\ stage[p] = "admit" /\ verify' = verify /\ req' = req
        /\ stage'[p] \in {"finish", "prepare", "build", "present"}
        /\ stage'[p] = "build" => ~Destructive(p)
    BY <1>t, <1>2 DEF Admit, End, To, storeVars
  <2>2. verify[p] = "idle" /\ (stage'[p] = "build" => req[p].token = NoToken)
    BY <1>t, <1>0, <2>1 DEF OnlyWithAToken
  <2> QED
    BY <2>1, <2>2
<1>3. CASE Prepare(p) \/ PrepareFails(p) \/ Preview(p)
  BY <1>t, <1>0, <1>3 DEF Prepare, PrepareFails, Preview, End, To, storeVars, Store!Issue
<1>4. CASE Present(p)
  BY <1>t, <1>4 DEF Present, To, Store!BeginVerify
<1>5. CASE Verify(p)
  <2>1. /\ stage' = stage /\ req' = req /\ audit' = audit /\ presented' = presented
        /\ stage[p] = "verify"
    BY <1>5 DEF Verify, dispatchVars, Store!CheckExpiry, Store!Consume
  <2>2. verify'[p] # "idle"
    BY <1>t, <1>5 DEF Verify, Store!CheckExpiry, Store!Consume
  <2> QED
    BY <1>0, <2>1, <2>2
<1>6. CASE Reject(p) \/ PresentFails(p) \/ Call(p) \/ Answer(p) \/ Finish(p)
  BY <1>t, <1>0, <1>6 DEF Reject, PresentFails, Call, Answer, Finish, End, To, storeVars
<1>7. CASE Accept(p)
  <2>1. /\ stage[p] = "verify" /\ stage'[p] = "build" /\ verify[p] = "accepted"
        /\ verify' = verify /\ presented' = presented /\ req' = req
    BY <1>t, <1>7 DEF Accept, To, storeVars
  <2>2. Written("consumed", "none") =>
          [op |-> p, event |-> "consumed", code |-> "none"] \in audit'
    BY <1>7, LogKeeps DEF Accept
  <2> QED
    BY <1>0, <1>w, <2>1, <2>2
<1>8. CASE Build(p)
  <2>1. /\ stage[p] = "build" /\ stage'[p] \in {"finish", "call"}
        /\ verify' = verify /\ presented' = presented /\ req' = req /\ audit' = audit
    BY <1>t, <1>8 DEF Build, End, To, storeVars
  <2> QED
    BY <1>0, <1>w, <2>1
<1>9. CASE Restart
  BY <1>t, <1>9 DEF Restart, Store!Restart
<1>10. CASE Rests(p)
  BY <1>0, <1>w, <1>10, NothingIsTakenBack DEF Rests
<1> QED
  BY <1>1, <1>2, <1>3, <1>4, <1>5, <1>6, <1>7, <1>8, <1>9, <1>10, StepOfCall DEF Step

\* A token lets a call through in the step that spends it, under the store's
\* lock, and in no other.
LEMMA NewlyLetThrough ==
  ASSUME IInv, [Next]_vars, NEW p \in LetThrough', p \notin LetThrough
  PROVE  /\ p \in Calls /\ stage[p] # "idle" /\ Store!Consume(p)
         /\ verify'[p] = "accepted" /\ latest' = latest
         /\ req'[p] = req[p] /\ req[p].token = presented[p].token
<1>t. /\ stage \in [Calls -> Stages] /\ VerifiedIsRequested /\ SentIsAnswered
      /\ DOMAIN verify = Calls
  BY DEF IInv, Store!IInv, Store!TypeOK, TypeOK, DispatchInv
<1>a. /\ p \in Calls /\ stage'[p] # "idle" /\ req'[p].token # NoToken
      /\ p \in sent' \/ verify'[p] = "accepted"
  BY DEF LetThrough
<1>1. CASE stage[p] = "idle"
  <2>1. verify[p] = "idle" /\ p \notin sent
    BY <1>t, <1>a, <1>1 DEF VerifiedIsRequested, SentIsAnswered
  <2>2. p \notin sent'
    BY <1>1, <2>1, SentStep DEF Call
  <2>3. CASE Begin(p)
    BY <1>a, <2>1, <2>2, <2>3 DEF Begin, Start, storeVars
  <2>4. CASE Rests(p)
    BY <1>a, <2>1, <2>2, <2>4 DEF Rests
  <2>5. CASE Restart
    BY <1>a, <2>2, <2>5 DEF Restart, Store!Restart
  <2>6. ~Step(p)
    BY <1>1 DEF Step, Admit, Prepare, PrepareFails, Preview, Present, Verify, Reject,
                PresentFails,
                Accept, Build, Call, Answer, Finish
  <2> QED
    BY <1>a, <2>3, <2>4, <2>5, <2>6, StepOfCall
<1>2. CASE stage[p] # "idle"
  <2>1. req'[p] = req[p] /\ p \notin sent /\ verify[p] # "accepted"
    BY <1>a, <1>2, NothingIsTakenBack DEF LetThrough
  <2>2. p \notin sent'
    <3>1. stage[p] = "call" /\ req[p].token # NoToken => verify[p] = "accepted"
      BY <1>t, <1>a DEF VerifiedIsRequested
    <3> QED
      BY <1>a, <2>1, <3>1, SentStep DEF Call
  <2>3. verify'[p] = "accepted"
    BY <1>a, <2>2
  <2>4. Verify(p)
    <3>1. CASE Begin(p)
      BY <1>2, <3>1 DEF Begin, Start
    <3>2. CASE Restart
      BY <1>a, <2>3, <3>2 DEF Restart, Store!Restart
    <3>3. CASE Rests(p)
      BY <2>1, <2>3, <3>3 DEF Rests
    <3>4. CASE \/ Admit(p) \/ PrepareFails(p) \/ Preview(p) \/ Reject(p)
               \/ PresentFails(p) \/ Accept(p)
               \/ Build(p) \/ Call(p) \/ Answer(p) \/ Finish(p)
      BY <2>1, <2>3, <3>4 DEF Admit, PrepareFails, Preview, Reject, PresentFails,
                              Accept, Build, Call,
                              Answer, Finish, storeVars
    <3>5. CASE Prepare(p) \/ Present(p)
      BY <1>t, <1>a, <2>1, <2>3, <3>5
         DEF Prepare, Present, Store!Issue, Store!BeginVerify
    <3> QED
      BY <1>a, <3>1, <3>2, <3>3, <3>4, <3>5, StepOfCall DEF Step
  <2>5. Store!Consume(p) /\ latest' = latest
    BY <1>t, <1>a, <2>3, <2>4 DEF Verify, Store!CheckExpiry, Store!Consume
  <2>6. req[p].token = presented[p].token
    BY <1>t, <1>a, <2>4 DEF Verify, VerifiedIsRequested
  <2> QED
    BY <1>a, <1>2, <2>1, <2>3, <2>5, <2>6
<1> QED
  BY <1>1, <1>2

\* Who was let through has a token somebody was handed.
LEMMA LetThroughHasAToken ==
  ASSUME IInv, NEW p \in LetThrough
  PROVE  /\ p \in Calls /\ stage[p] # "idle"
         /\ req[p].token \in issued /\ req[p].token.id \in Calls
         /\ req[p].token.exp \in Int
BY DEF IInv, DispatchInv, OnlyWithAToken, LetThrough, Handed, Store!IInv, Store!TypeOK,
       Store!Token

LEMMA LetThroughStep ==
  ASSUME IInv, [Next]_vars
  PROVE  LetThroughOnce'
<1>t. /\ LetThroughOnce /\ OnlyWithAToken
      /\ spent \in [Calls -> Nat] /\ latest \in Nat /\ latest' \in Nat
  <2>1. Store!IInv'
    BY StepOfStore, StoreKeepsItsInvariant DEF IInv
  <2> QED
    BY <2>1 DEF IInv, Store!IInv, Store!TypeOK, DispatchInv
<1>s. /\ storeVars' = storeVars \/ Store!Next
      /\ latest' >= latest /\ \A i \in Calls : spent'[i] >= spent[i]
  BY StepOfStore, StoreTakesNothingBack DEF IInv
<1>d. DOMAIN verify = Calls /\ DOMAIN spent = Calls
  BY DEF IInv, Store!IInv, Store!TypeOK
<1>1. ASSUME NEW p \in LetThrough', p \notin LetThrough
      PROVE  /\ req[p].token \in issued /\ req[p].token.id \in Calls
             /\ spent'[req[p].token.id] = spent[req[p].token.id] + 1
             /\ verify'[p] # verify[p]
             /\ \A q \in Calls \ {p} : verify'[q] = verify[q]
  <2>1. /\ p \in Calls /\ stage[p] # "idle" /\ Store!Consume(p) /\ verify'[p] = "accepted"
        /\ req[p].token = presented[p].token
    BY <1>1, NewlyLetThrough
  <2>2. req[p].token \in issued /\ req[p].token.id \in Calls
    <3>1. presented[p].token \in issued
      BY <2>1 DEF Store!Consume, IInv, Store!IInv, Store!StoreInv, Store!PastMac
    <3> QED
      BY <2>1, <3>1 DEF IInv, Store!IInv, Store!TypeOK, Store!Token
  <2> QED
    BY <1>d, <2>1, <2>2 DEF Store!Consume
<1>2. ASSUME NEW p \in LetThrough PROVE req'[p] = req[p]
  BY <1>2, LetThroughHasAToken, NothingIsTakenBack
<1>3. ASSUME NEW p \in LetThrough'
      PROVE  spent'[req'[p].token.id] > 0
  <2>1. CASE p \in LetThrough
    <3>1. req[p].token.id \in Calls /\ req'[p] = req[p] /\ spent[req[p].token.id] > 0
      BY <1>t, <1>2, <2>1, LetThroughHasAToken DEF LetThroughOnce
    <3>2. spent'[req[p].token.id] >= spent[req[p].token.id]
      BY <1>s, <3>1
    <3>3. spent[req[p].token.id] \in Nat
      BY <1>t, <3>1
    <3>4. spent'[req[p].token.id] \in Nat
      BY <1>s, <3>1, StoreKeepsItsInvariant DEF IInv, Store!IInv, Store!TypeOK
    <3> QED
      BY <3>1, <3>2, <3>3, <3>4
  <2>2. CASE p \notin LetThrough
    BY <1>t, <1>1, <2>2, NewlyLetThrough
  <2> QED
    BY <2>1, <2>2
<1>4. ASSUME NEW p \in LetThrough', p \notin LetThrough, NEW q \in LetThrough', q # p,
             req'[p].token = req'[q].token
      PROVE  latest' > req'[p].token.exp
  <2>1. q \in Calls /\ verify'[q] = verify[q]
    BY <1>1, <1>4 DEF LetThrough
  <2>2. q \in LetThrough
    BY <1>1, <1>4, <2>1
  <2>3. /\ req[p].token = req[q].token /\ req[p].token \in issued
        /\ spent[req[p].token.id] > 0
        /\ spent'[req[p].token.id] > spent[req[p].token.id]
        /\ latest' = latest /\ req'[p] = req[p]
    BY <1>t, <1>1, <1>2, <1>4, <2>2, NewlyLetThrough DEF LetThroughOnce
  <2> QED
    BY <1>s, <2>3, StoreAcceptsAgain DEF IInv
<1>5. ASSUME NEW p \in LetThrough, NEW q \in LetThrough, q # p,
             req'[p].token = req'[q].token
      PROVE  latest' > req'[p].token.exp
  <2>1. /\ req'[p] = req[p] /\ req'[q] = req[q] /\ req[p].token.exp \in Int
        /\ latest > req[p].token.exp
    BY <1>t, <1>2, <1>5, LetThroughHasAToken DEF LetThroughOnce
  <2> QED
    BY <1>t, <1>s, <2>1
<1>6. ASSUME NEW p \in LetThrough', NEW q \in LetThrough', q # p,
             req'[p].token = req'[q].token
      PROVE  latest' > req'[p].token.exp
  BY <1>4, <1>5, <1>6
<1> QED
  BY <1>3, <1>6 DEF LetThroughOnce

-----------------------------------------------------------------------------
(***************************************************************************)
(* The theorems.                                                           *)
(***************************************************************************)

LEMMA InitInv == Init => IInv
<1> SUFFICES ASSUME Init PROVE IInv
  OBVIOUS
<1>1. Store!IInv /\ TypeOK /\ CallsAreInOrder
  BY StoreStarts, InitTypes DEF Init
<1>2. /\ sent = {} /\ issued = {}
      /\ \A p \in Calls : stage[p] = "idle" /\ result[p] = "none" /\ verify[p] = "idle"
  BY DEF Init, Store!Init
<1>3. SentIsAnswered /\ TokensAreOfTheirCalls /\ OnlyWithAToken
  BY <1>2 DEF SentIsAnswered, TokensAreOfTheirCalls, OnlyWithAToken
<1>4. VerifiedIsRequested /\ LetThroughOnce
  BY <1>2 DEF VerifiedIsRequested, LetThroughOnce, LetThrough
<1>5. RefusalsAreTrue
  BY <1>2 DEF RefusalsAreTrue
<1> QED
  BY <1>1, <1>3, <1>4, <1>5 DEF IInv, DispatchInv

LEMMA InvStep == IInv /\ [Next]_vars => IInv'
<1> SUFFICES ASSUME IInv, [Next]_vars PROVE IInv'
  OBVIOUS
<1>1. Store!IInv'
  BY StepOfStore, StoreKeepsItsInvariant DEF IInv
<1>2. TypeOK' /\ RefusalsAreTrue'
  BY TypeStep, RefusalsStep
<1>3. DispatchInv'
  BY OrderStep, SentIsAnsweredStep, TokensStep, OnlyWithATokenStep, VerifiedStep,
     LetThroughStep DEF DispatchInv
<1> QED
  BY <1>1, <1>2, <1>3 DEF IInv

\* Through every interleaving of calls and any number of restarts, the handlers
\* and the store they share agree on what was issued, to whom, and on what was
\* accepted; and every call that returned has left its outcome in the log.
THEOREM Inductive == Spec => []IInv
BY InitInv, InvStep, PTL DEF Spec

\* A preview and every refusal of this server's own are given only to calls that
\* sent nothing, and arguments are complained about only where the policy permits
\* the action.
THEOREM RefusalsTrue == Spec => []RefusalsAreTrue
<1>1. IInv => RefusalsAreTrue
  BY DEF IInv
<1> QED
  BY <1>1, Inductive, PTL

\* However many calls present a token, at once or one after the other, at most
\* one executes while the token lives.
THEOREM TokensRunOnce == Spec => []TokenRunsOnceWhileLive
<1>1. IInv => TokenRunsOnceWhileLive
  <2> SUFFICES ASSUME IInv, NEW p \in sent, NEW q \in sent,
                      p # q, req[p].token = req[q].token, req[p].token # NoToken
               PROVE  latest > req[p].token.exp
    BY DEF TokenRunsOnceWhileLive
  <2>1. /\ p \in Calls /\ q \in Calls /\ stage[p] # "idle" /\ stage[q] # "idle"
    BY DEF IInv, TypeOK, DispatchInv, SentIsAnswered
  <2>2. p \in LetThrough /\ q \in LetThrough
    BY <2>1 DEF LetThrough
  <2> QED
    BY <2>2 DEF IInv, DispatchInv, LetThroughOnce
<1> QED
  BY <1>1, Inductive, PTL

\* The dispatcher uses the store only in the ways ConfirmStore allows.
THEOREM UsesTheStore == Spec => StoreSpec
<1>1. Init => Store!Init
  BY DEF Init
<1>2. IInv /\ [Next]_vars => [storeVars' = storeVars \/ Store!Next]_vars
  BY StepOfStore
<1> QED
  BY <1>1, <1>2, Inductive, PTL DEF Spec, StoreSpec

\* So every theorem of the store holds of the store the calls share: here, that
\* it implements the contract its callers rely on.
THEOREM SharedStoreImplementsContract == Spec => Store!ContractSpec
<1>1. Spec => StoreProofs!Spec
  <2>1. IInv /\ [Next]_vars => [StoreProofs!Next]_(StoreProofs!vars)
    BY StepOfStore, SameSteps DEF StoreProofs!vars, storeVars
  <2>2. Init => StoreProofs!Init
    BY SameStore DEF Init
  <2> QED
    BY <2>1, <2>2, Inductive, PTL DEF Spec, StoreProofs!Spec
<1>2. StoreProofs!Spec => StoreProofs!ContractSpec
  BY StoreProofs!ImplementsContract, StoreConstants
<1>3. /\ StoreProofs!Contract!Init <=> Store!Contract!Init
      /\ StoreProofs!Contract!Next <=> Store!Contract!Next
      /\ StoreProofs!Contract!contractVars = Store!Contract!contractVars
  BY DEF StoreProofs!Contract!Init, Store!Contract!Init,
         StoreProofs!Contract!Next, Store!Contract!Next,
         StoreProofs!Contract!contractVars, Store!Contract!contractVars,
         StoreProofs!Contract!Mint, Store!Contract!Mint,
         StoreProofs!Contract!Redeem, Store!Contract!Redeem,
         StoreProofs!Contract!Revoke, Store!Contract!Revoke,
         StoreProofs!Contract!Pass, Store!Contract!Pass
<1>4. StoreProofs!ContractSpec => Store!ContractSpec
  <2>1. [StoreProofs!Contract!Next]_(StoreProofs!Contract!contractVars)
          => [Store!Contract!Next]_(Store!Contract!contractVars)
    BY <1>3 DEF StoreProofs!Contract!contractVars, Store!Contract!contractVars
  <2> QED
    BY <1>3, <2>1, PTL DEF StoreProofs!ContractSpec, Store!ContractSpec,
         StoreProofs!Contract!Spec, Store!Contract!Spec
<1> QED
  BY <1>1, <1>2, <1>4

\* A destructive request leaves only after another call returned a preview of the
\* same action and the same arguments, issued by the process that sends it, and
\* with both in the log; the escape hatch and a purpose-built tool stand in for
\* each other only where the tool's call named the action too.
THEOREM DestructiveIsConfirmed == Spec => SentWasConfirmed
<1> DEFINE Confirmed(p) ==
       /\ Written("consumed", "none") =>
            [op |-> p, event |-> "consumed", code |-> "none"] \in audit
       /\ req[p].token.mac.key = epoch
       /\ \E q \in Calls \ {p} :
            /\ stage[q] = "returned" /\ result[q] = "preview"
            /\ Operation(req[q]) = Operation(req[p])
            /\ \A c, d \in {p, q} :
                 req[c].via = "curated" /\ req[d].via = "generic" => req[c].named
            /\ Written("issued", "none") =>
                 [op |-> q, event |-> "issued", code |-> "none"] \in audit
<1>1. ASSUME IInv, [Next]_vars, NEW p \in sent' \ sent, Destructive(p)
      PROVE  Confirmed(p)
  <2>1. p \in Calls /\ stage[p] = "call"
    BY <1>1, SentStep DEF Call
  <2>2. req[p].token \in Handed /\ req[p].token.id # p /\ req[p].token # NoToken
    BY <1>1, <2>1 DEF IInv, DispatchInv, OnlyWithAToken
  <2>3. /\ verify[p] = "accepted"
        /\ presented[p].token = req[p].token /\ presented[p].op = Operation(req[p])
        /\ Written("consumed", "none") =>
             [op |-> p, event |-> "consumed", code |-> "none"] \in audit
    BY <1>1, <2>1, <2>2 DEF IInv, DispatchInv, VerifiedIsRequested
  <2>4. req[p].token.mac = Store!Sign(epoch, req[p].token.id, req[p].token.exp,
                                      Operation(req[p]))
    BY <1>1, <2>1, <2>3 DEF IInv, Store!IInv, Store!StoreInv, Store!PastMac
  <2>5. req[p].token.mac.key = epoch /\ req[p].token.mac.fp = Operation(req[p])
    BY <2>4 DEF Store!Sign
  <2> DEFINE q == req[p].token.id
  <2>6. q \in Calls \ {p} /\ stage[q] = "returned" /\ result[q] = "preview"
    BY <1>1, <2>2 DEF Handed, IInv, Store!IInv, Store!TypeOK, Store!Token
  <2>7. Operation(req[q]) = Operation(req[p])
    BY <1>1, <2>2, <2>5 DEF Handed, IInv, DispatchInv, TokensAreOfTheirCalls
  <2>8. ASSUME NEW c \in {p, q}, NEW d \in {p, q},
               req[c].via = "curated", req[d].via = "generic"
        PROVE  req[c].named
    <3>1. Operation(req[c]) = Operation(req[d])
      BY <2>7
    <3>2. (req[c].named \/ req[c].via = "generic") = (req[d].named \/ req[d].via = "generic")
      BY <3>1 DEF Operation
    <3> QED
      BY <2>8, <3>2
  <2>9. Written("issued", "none") =>
          [op |-> q, event |-> "issued", code |-> "none"] \in audit
    BY <1>1, <2>6 DEF IInv, DispatchInv, TokensAreOfTheirCalls
  <2> QED
    BY <2>3, <2>5, <2>6, <2>7, <2>8, <2>9
<1>2. IInv /\ [Next]_vars =>
        [\A p \in sent' \ sent : Destructive(p) => Confirmed(p)]_vars
  BY <1>1
<1> QED
  BY <1>2, Inductive, PTL DEF Spec, SentWasConfirmed
===============================================================================
