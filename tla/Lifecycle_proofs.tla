--------------------------- MODULE Lifecycle_proofs ---------------------------
(***************************************************************************)
(* Proofs about one call of the WHMCS client, and about the server's life  *)
(* around it, for any number of retries and of redirects.  Whatever the    *)
(* process does, the call in it behaves as WhmcsClient says, so that every *)
(* theorem about the call alone holds here.                                *)
(***************************************************************************)
EXTENDS Lifecycle, FiniteSetTheorems, TLAPS

USE ClientAssumption

-----------------------------------------------------------------------------
(***************************************************************************)
(* The inductive invariant.                                                *)
(***************************************************************************)

\* The requests one turn of the loop may send: the first, and one per redirect.
Turn == 1 + MaxRedirects

\* How far the loop is: each turn sends one request and one more for each redirect
\* followed, and there is a next turn only while attempts remain and the last
\* failure may pass.
LoopInv ==
  /\ attempt < Attempts
  /\ sent <= attempt * Turn + 1 + hops
  /\ pc = "attempt" => sent <= attempt * Turn /\ hops = 0 /\ reply = NoReply
  /\ pc = "backoff" => attempt + 1 < Attempts
  /\ pc = "backoff" \/ (pc = "attempt" /\ attempt > 0) => Retryable(lastErr)

\* What is known of WHMCS: a request is performed at most once, a success on its
\* way means the request waited for has been performed, and of a write that is
\* passed on only the last request can be, or can have been.
ReplyInv ==
  /\ pending \intersect performed = {}
  /\ mutating /\ passesOn => pending \union performed \subseteq {sent}
  /\ reply.status = "2xx" /\ reply.body = "success" => sent \in performed

\* What is known of the result.
ResultInv ==
  /\ pc # "done" <=> result = "none"
  /\ SuccessWasPerformed
  /\ GivesUpWhenSpent

Inv == TypeOK /\ LoopInv /\ ReplyInv /\ ResultInv

\* Every outcome of an attempt has a code.
LEMMA JudgeCodes ==
  ASSUME NEW r \in Reply
  PROVE  /\ Judge(r) \in Codes \union {"none"}
         /\ Judge(r) = "none" => r.status = "2xx" /\ r.body = "success"
<1>1. r.status \in Statuses /\ r.body \in Bodies
  BY DEF Reply
<1>2. StatusError(r.status) \in Codes \union {"none"}
  BY <1>1 DEF StatusError, Statuses, Codes
<1>3. StatusError(r.status) = "none" => r.status = "2xx"
  BY <1>1 DEF StatusError, Statuses
<1>4. Decode(r.body) \in Codes \union {"none"}
  BY <1>1 DEF Decode, Bodies, Codes
<1>5. Decode(r.body) = "none" => r.body = "success"
  BY <1>1 DEF Decode, Bodies
<1> QED
  BY <1>2, <1>3, <1>4, <1>5 DEF Judge

LEMMA TransportCodes ==
  ASSUME NEW timedOut \in BOOLEAN
  PROVE  TransportError(timedOut) \in Codes
BY DEF TransportError, Codes

\* There is at least one attempt, and exactly one for a write.
LEMMA AttemptsBounds ==
  ASSUME TypeOK
  PROVE  /\ Attempts \in Nat /\ Attempts >= 1 /\ Attempts <= 1 + MaxRetries
         /\ mutating => Attempts = 1
BY DEF Attempts, TypeOK

\* What the turns up to one attempt may send, and up to the next.
LEMMA TurnBounds ==
  ASSUME NEW a \in Nat
  PROVE  /\ Turn \in Nat /\ Turn >= 1
         /\ a * Turn \in Nat /\ 0 * Turn = 0
         /\ (a + 1) * Turn = a * Turn + Turn
         /\ \A b \in Nat : a <= b => a * Turn <= b * Turn
BY DEF Turn

\* A write has one turn.
LEMMA WritesSendOneTurn ==
  ASSUME TypeOK, LoopInv, mutating
  PROVE  sent <= 1 + hops /\ (pc = "attempt" => sent = 0)
<1>1. attempt = 0
  BY AttemptsBounds DEF LoopInv, TypeOK
<1> QED
  BY <1>1, TurnBounds DEF LoopInv, TypeOK

\* A failed turn keeps the invariant, whatever it failed with, provided that no
\* success is on its way.
LEMMA FailWithInv ==
  ASSUME Inv, pc \in {"attempt", "waiting"},
         NEW code \in Codes, FailWith(code),
         UNCHANGED <<mutating, passesOn, ctx, attempt, sent, hops, performed>>,
         pending' \subseteq pending,
         \/ reply' = NoReply
         \/ /\ reply' = reply
            /\ ~(reply.status = "2xx" /\ reply.body = "success")
            /\ reply \in Reply \union {NoReply}
  PROVE  Inv'
<1>1. code # "none" /\ code # "ok"
  BY DEF Codes
<1>2. Attempts' = Attempts
  BY DEF Attempts
<1>3. NoReply.status # "2xx"
  BY DEF NoReply
<1>4. TypeOK'
  BY DEF Inv, TypeOK, FailWith
<1>5. LoopInv'
  BY <1>1, <1>2, AttemptsBounds, TurnBounds DEF Inv, LoopInv, TypeOK, FailWith, Retryable
<1>6. ReplyInv'
  BY <1>3 DEF Inv, ReplyInv, FailWith
<1>7. ResultInv'
  <2>1. result = "none"
    BY DEF Inv, ResultInv
  <2>2. (pc # "done" <=> result = "none")'
    BY <1>1, <2>1 DEF FailWith
  <2>3. SuccessWasPerformed'
    BY <1>1, <2>1 DEF FailWith, SuccessWasPerformed
  <2>4. GivesUpWhenSpent'
    <3>1. CASE ~mutating /\ Retryable(code) /\ attempt + 1 < Attempts
      BY <3>1, <2>1 DEF FailWith, GivesUpWhenSpent, Retryable
    <3>2. CASE ~(~mutating /\ Retryable(code) /\ attempt + 1 < Attempts)
      <4>1. result' = code
        BY <3>2 DEF FailWith
      <4>2. attempt \in Nat /\ attempt < Attempts
        BY DEF Inv, TypeOK, LoopInv
      <4>3. Retryable(code) => attempt + 1 = Attempts
        BY <3>2, <4>2, AttemptsBounds DEF Inv
      <4> QED
        BY <4>1, <4>3, <1>2 DEF GivesUpWhenSpent, Retryable
    <3> QED
      BY <3>1, <3>2
  <2> QED
    BY <2>2, <2>3, <2>4 DEF ResultInv
<1> QED
  BY <1>4, <1>5, <1>6, <1>7 DEF Inv

LEMMA InitInv == Init => Inv
<1> SUFFICES ASSUME Init PROVE Inv
  OBVIOUS
<1>1. TypeOK
  BY DEF Init, TypeOK
<1>2. LoopInv
  <2>1. attempt * Turn = 0
    BY TurnBounds DEF Init
  <2> QED
    BY <1>1, <2>1, AttemptsBounds DEF Init, LoopInv, TypeOK
<1>3. ReplyInv
  BY DEF Init, ReplyInv, NoReply
<1>4. ResultInv
  BY DEF Init, ResultInv, SuccessWasPerformed, GivesUpWhenSpent, Retryable
<1> QED
  BY <1>1, <1>2, <1>3, <1>4 DEF Inv

LEMMA StepInv == Inv /\ [Next]_clientVars => Inv'
<1> SUFFICES ASSUME Inv, [Next]_clientVars PROVE Inv'
  OBVIOUS
<1>0. TypeOK /\ LoopInv /\ ReplyInv /\ ResultInv
  BY DEF Inv
<1>a. /\ ~(NoReply.status = "2xx" /\ NoReply.body = "success")
      /\ NoReply \notin Reply
  BY DEF NoReply, Reply, Statuses
<1>1. CASE Send
  <2>1. TypeOK'
    BY <1>0, <1>1 DEF Send, TypeOK
  <2>2. Attempts' = Attempts
    BY <1>1 DEF Send, Attempts
  <2>3. LoopInv'
    BY <1>0, <1>1, <2>2, TurnBounds DEF Send, LoopInv, TypeOK
  <2>4. ReplyInv'
    <3>1. reply' = NoReply
      BY <1>0, <1>1 DEF Send, LoopInv
    <3>2. sent + 1 \notin performed
      BY <1>0 DEF TypeOK
    <3>3. mutating => pending = {} /\ performed = {}
      BY <1>0, <1>1, WritesSendOneTurn DEF Send, TypeOK
    <3> QED
      BY <1>0, <1>1, <1>a, <3>1, <3>2, <3>3 DEF Send, ReplyInv
  <2>5. ResultInv'
    BY <1>0, <1>1, <2>2
    DEF Send, ResultInv, SuccessWasPerformed, GivesUpWhenSpent, Retryable
  <2> QED
    BY <2>1, <2>3, <2>4, <2>5 DEF Inv
<1>2. CASE DialFails
  <2>1. PICK timedOut \in BOOLEAN : FailWith(TransportError(timedOut))
    BY <1>2 DEF DialFails
  <2>2. reply = NoReply
    BY <1>0, <1>2 DEF DialFails, LoopInv
  <2> QED
    BY <1>2, <1>a, <2>1, <2>2, TransportCodes, FailWithInv DEF DialFails
<1>3. CASE BreaksOff
  <2>1. PICK timedOut \in {FALSE, ctx = "deadline"} : FailWith(TransportError(timedOut))
    BY <1>3 DEF BreaksOff
  <2>2. timedOut \in BOOLEAN
    OBVIOUS
  <2> QED
    BY <1>3, <2>1, <2>2, TransportCodes, FailWithInv DEF BreaksOff
<1>4. CASE AttemptTimesOut
  BY <1>4, TransportCodes, FailWithInv DEF AttemptTimesOut
<1>5. CASE Receive
  <2>1. reply \in Reply
    BY <1>0, <1>5 DEF Receive, TypeOK
  <2>2. CASE Judge(reply) = "none"
    <3>1. /\ pc' = "done" /\ result' = "ok"
          /\ UNCHANGED <<lastErr, mutating, passesOn, ctx, attempt, sent, hops, pending,
                        performed, reply>>
      BY <1>5, <2>2 DEF Receive
    <3>2. sent \in performed
      BY <1>0, <2>1, <2>2, JudgeCodes DEF ReplyInv
    <3>3. Attempts' = Attempts
      BY <3>1 DEF Attempts
    <3>4. TypeOK'
      BY <1>0, <3>1 DEF TypeOK
    <3>5. LoopInv'
      BY <1>0, <3>1, <3>3 DEF LoopInv
    <3>6. ReplyInv'
      BY <1>0, <3>1 DEF ReplyInv
    <3>7. ResultInv'
      BY <3>1, <3>2 DEF ResultInv, SuccessWasPerformed, GivesUpWhenSpent, Retryable
    <3> QED
      BY <3>4, <3>5, <3>6, <3>7 DEF Inv
  <2>3. CASE Judge(reply) # "none"
    <3>1. Judge(reply) \in Codes
      BY <2>1, <2>3, JudgeCodes
    <3>2. ~(reply.status = "2xx" /\ reply.body = "success")
      BY <2>3 DEF Judge, StatusError, Decode
    <3>3. /\ FailWith(Judge(reply)) /\ pc = "waiting"
          /\ UNCHANGED <<mutating, passesOn, ctx, attempt, sent, hops, pending, performed,
                        reply>>
      BY <1>5, <2>3 DEF Receive
    <3> QED
      BY <2>1, <3>1, <3>2, <3>3, FailWithInv
  <2> QED
    BY <2>2, <2>3
<1>6. CASE BackoffEnds
  <2>1. TypeOK'
    BY <1>0, <1>6 DEF BackoffEnds, TypeOK
  <2>2. Attempts' = Attempts
    BY <1>6 DEF BackoffEnds, Attempts
  <2>3. LoopInv'
    <3>1. sent <= (attempt + 1) * Turn
      BY <1>0, TurnBounds DEF LoopInv, TypeOK, Turn
    <3> QED
      <4>1. (attempt + 1) * Turn \in Nat /\ attempt + 1 \in Nat
        BY <1>0, TurnBounds DEF TypeOK
      <4>2. attempt' = attempt + 1 /\ hops' = 0 /\ sent' = sent /\ sent \in Nat
        BY <1>0, <1>6 DEF BackoffEnds, TypeOK
      <4>3. sent' <= attempt' * Turn /\ sent' <= attempt' * Turn + 1 + hops'
        BY <3>1, <4>1, <4>2
      <4>4. attempt' < Attempts'
        BY <1>0, <1>6, <2>2, <4>2 DEF BackoffEnds, LoopInv
      <4> QED
        BY <1>0, <1>6, <4>2, <4>3, <4>4 DEF BackoffEnds, LoopInv, Retryable, Turn
  <2>4. ReplyInv'
    BY <1>0, <1>6, <1>a DEF BackoffEnds, ReplyInv
  <2>5. ResultInv'
    BY <1>0, <1>6 DEF BackoffEnds, ResultInv, SuccessWasPerformed, GivesUpWhenSpent, Retryable
  <2> QED
    BY <2>1, <2>3, <2>4, <2>5 DEF Inv
<1>7. CASE BackoffInterrupted
  <2>1. TypeOK'
    BY <1>0, <1>7 DEF BackoffInterrupted, TypeOK, Codes
  <2>2. Attempts' = Attempts
    BY <1>7 DEF BackoffInterrupted, Attempts
  <2>3. LoopInv'
    BY <1>0, <1>7, <2>2 DEF BackoffInterrupted, LoopInv
  <2>4. ReplyInv'
    BY <1>0, <1>7 DEF BackoffInterrupted, ReplyInv
  <2>5. ResultInv'
    BY <1>7 DEF BackoffInterrupted, ResultInv, SuccessWasPerformed, GivesUpWhenSpent, Retryable
  <2> QED
    BY <2>1, <2>3, <2>4, <2>5 DEF Inv
<1>8. CASE ContextEnds
  <2>1. Attempts' = Attempts
    BY <1>8 DEF ContextEnds, Attempts
  <2>2. TypeOK'
    BY <1>0, <1>8 DEF ContextEnds, TypeOK
  <2>3. LoopInv' /\ ReplyInv'
    BY <1>0, <1>8, <2>1 DEF ContextEnds, LoopInv, ReplyInv, Retryable
  <2>4. ResultInv'
    BY <1>0, <1>8, <2>1
    DEF ContextEnds, ResultInv, SuccessWasPerformed, GivesUpWhenSpent, Retryable
  <2> QED
    BY <2>2, <2>3, <2>4 DEF Inv
<1>9. ASSUME NEW n \in pending, NEW done \in BOOLEAN, NEW r \in Reply, Dispose(n, done, r)
      PROVE  Inv'
  <2>1. Attempts' = Attempts
    BY <1>9 DEF Dispose, Attempts
  <2>2. performed \subseteq performed' /\ performed' \subseteq performed \union {n}
    BY <1>9 DEF Dispose
  <2>3. TypeOK'
    <3>1. performed' \subseteq 1..sent
      BY <1>0, <2>2 DEF TypeOK
    <3> QED
      BY <1>0, <1>9, <3>1 DEF Dispose, TypeOK
  <2>4. LoopInv'
    BY <1>0, <1>9, <2>1 DEF Dispose, LoopInv, Retryable
  <2>5. ReplyInv'
    <3>1. pending' \intersect performed' = {}
      BY <1>0, <1>9, <2>2 DEF Dispose, ReplyInv
    <3>2. CASE pc = "waiting" /\ n = sent
      BY <1>0, <1>9, <3>1, <3>2 DEF Dispose, ReplyInv
    <3>3. CASE ~(pc = "waiting" /\ n = sent)
      BY <1>0, <1>9, <2>2, <3>1, <3>3 DEF Dispose, ReplyInv
    <3> QED
      BY <3>2, <3>3
  <2>6. ResultInv'
    BY <1>0, <1>9, <2>1, <2>2
    DEF Dispose, ResultInv, SuccessWasPerformed, GivesUpWhenSpent, Retryable
  <2> QED
    BY <2>3, <2>4, <2>5, <2>6 DEF Inv
<1>12. CASE FollowRedirect
  <2>1. TypeOK'
    BY <1>0, <1>12 DEF FollowRedirect, LeftBehind, TypeOK
  <2>2. Attempts' = Attempts
    BY <1>12 DEF FollowRedirect, Attempts
  <2>3. LoopInv'
    BY <1>0, <1>12, <2>2, TurnBounds DEF FollowRedirect, LoopInv, TypeOK, Retryable
  <2>5. ReplyInv'
    <3>1. sent \notin performed /\ sent + 1 \notin performed
      BY <1>0, <1>12 DEF FollowRedirect, ReplyInv, TypeOK
    <3>2. pending' \intersect performed' = {}
      BY <1>0, <1>12, <3>1 DEF FollowRedirect, LeftBehind, ReplyInv
    <3>3. ASSUME mutating, passesOn
          PROVE  (pending \union performed)' \subseteq {sent + 1}
      BY <1>0, <1>12, <3>1, <3>3 DEF FollowRedirect, LeftBehind, ReplyInv
    <3>4. ~(reply.status = "2xx" /\ reply.body = "success")
      BY <1>0, <3>1 DEF ReplyInv
    <3> QED
      BY <1>12, <3>2, <3>3, <3>4 DEF FollowRedirect, ReplyInv
  <2>4. ResultInv'
    BY <1>0, <1>12, <2>2
    DEF FollowRedirect, ResultInv, SuccessWasPerformed, GivesUpWhenSpent, Retryable
  <2> QED
    BY <2>1, <2>3, <2>4, <2>5 DEF Inv
<1>13. CASE RedirectsExhausted
  BY <1>13, TransportCodes, FailWithInv DEF RedirectsExhausted, LeftBehind
<1>10. CASE UNCHANGED clientVars
  BY <1>0, <1>10
  DEF clientVars, Inv, TypeOK, LoopInv, ReplyInv, ResultInv, Attempts, Retryable,
      SuccessWasPerformed, GivesUpWhenSpent
<1>11. CASE Returned
  BY <1>10, <1>11 DEF Returned
<1> QED
  BY <1>1, <1>2, <1>3, <1>4, <1>5, <1>6, <1>7, <1>8, <1>9, <1>10, <1>11, <1>12,
     <1>13 DEF Next

LEMMA Invariance == Spec => []Inv
BY InitInv, StepInv, PTL DEF Spec

-----------------------------------------------------------------------------
(***************************************************************************)
(* The properties.                                                         *)
(***************************************************************************)

\* Every variable of the call keeps its type.
THEOREM TypeCorrect == Spec => []TypeOK
<1>1. Inv => TypeOK
  BY DEF Inv
<1> QED
  BY Invariance, <1>1, PTL

\* A write is sent once, and again only for each redirect; and, whatever the network
\* and WHMCS do, it is performed at most once if what redirects has left it alone,
\* and else at most once per request: "no call site can accidentally make a payment
\* twice".
THEOREM WritesAreSentOnce == Spec => []WriteSentOnce
<1>1. Inv => WriteSentOnce
  <2> SUFFICES ASSUME Inv, mutating
               PROVE  /\ sent <= 1 + hops
                      /\ Cardinality(performed) <= IF passesOn THEN 1 ELSE 1 + hops
    BY DEF WriteSentOnce
  <2>1. TypeOK /\ sent <= 1 + hops
    BY WritesSendOneTurn DEF Inv
  <2>2. ASSUME passesOn PROVE Cardinality(performed) <= 1
    <3>1. performed \in SUBSET {sent}
      BY <2>2 DEF Inv, ReplyInv
    <3>2. IsFiniteSet({sent}) /\ Cardinality({sent}) = 1
      BY FS_Singleton
    <3>3. Cardinality(performed) <= Cardinality({sent})
      BY <3>1, <3>2, FS_Subset
    <3> QED
      BY <3>2, <3>3
  <2>3. Cardinality(performed) <= sent
    <3>1. performed \in SUBSET (1..sent) /\ sent \in Nat
      BY <2>1 DEF TypeOK
    <3>2. IsFiniteSet(1..sent) /\ Cardinality(1..sent) = sent
      BY <3>1, FS_Interval
    <3>3. Cardinality(performed) <= Cardinality(1..sent)
      BY <3>1, <3>2, FS_Subset
    <3> QED
      BY <3>2, <3>3
  <2>4. Cardinality(performed) \in Nat
    <3>1. performed \in SUBSET (1..sent) /\ sent \in Nat
      BY <2>1 DEF TypeOK
    <3>2. IsFiniteSet(1..sent)
      BY <3>1, FS_Interval
    <3>3. IsFiniteSet(performed)
      BY <3>1, <3>2, FS_Subset
    <3> QED
      BY <3>3, FS_CardinalityType
  <2> QED
    BY <2>1, <2>2, <2>3, <2>4 DEF TypeOK
<1> QED
  BY Invariance, <1>1, PTL

\* Success is reported only for a request WHMCS performed.
THEOREM SuccessIsPerformed == Spec => []SuccessWasPerformed
<1>1. Inv => SuccessWasPerformed
  BY DEF Inv, ResultInv
<1> QED
  BY Invariance, <1>1, PTL

\* A read is not given up while attempts remain.
THEOREM NotGivenUpEarly == Spec => []GivesUpWhenSpent
<1>1. Inv => GivesUpWhenSpent
  BY DEF Inv, ResultInv
<1> QED
  BY Invariance, <1>1, PTL

\* Only Send and FollowRedirect put a request on the wire.
LEMMA WhatSends ==
  ASSUME [Next]_clientVars, sent' # sent
  PROVE  Send \/ FollowRedirect
<1>1. ASSUME NEW n \in pending, NEW done \in BOOLEAN, NEW r \in Reply, Dispose(n, done, r)
      PROVE  sent' = sent
  BY <1>1 DEF Dispose
<1>2. DialFails \/ BreaksOff \/ AttemptTimesOut \/ Receive => sent' = sent
  BY DEF DialFails, BreaksOff, AttemptTimesOut, Receive
<1>3. BackoffEnds \/ BackoffInterrupted \/ ContextEnds => sent' = sent
  BY DEF BackoffEnds, BackoffInterrupted, ContextEnds
<1>4. Returned \/ UNCHANGED clientVars \/ RedirectsExhausted => sent' = sent
  BY DEF Returned, clientVars, RedirectsExhausted
<1> QED
  BY <1>1, <1>2, <1>3, <1>4 DEF Next

\* Retries are bounded, follow retryable failures only, and are used up; and
\* redirects add to them no more than their own bound, attempt by attempt.
THEOREM RetriesAreDisciplined == Spec => RetryDiscipline
<1>1. Inv /\ Inv' /\ [Next]_clientVars =>
        [/\ sent' > sent /\ sent > 0 =>
              /\ sent < (1 + MaxRetries) * (1 + MaxRedirects)
              /\ hops' = hops =>
                   attempt > 0 /\ lastErr \in {"upstream_unavailable", "timeout"}
         /\ GivesUpWhenSpent']_clientVars
  <2> SUFFICES ASSUME Inv, Inv', [Next]_clientVars
               PROVE  /\ sent' > sent /\ sent > 0 =>
                           /\ sent < (1 + MaxRetries) * (1 + MaxRedirects)
                           /\ hops' = hops =>
                                /\ attempt > 0
                                /\ lastErr \in {"upstream_unavailable", "timeout"}
                      /\ GivesUpWhenSpent'
    OBVIOUS
  <2>0. TypeOK /\ LoopInv /\ sent \in Nat /\ attempt \in Nat /\ hops \in 0..MaxRedirects
    BY DEF Inv, TypeOK
  <2>1. ASSUME sent' > sent, sent > 0
        PROVE  /\ sent < (1 + MaxRetries) * Turn
               /\ hops' = hops =>
                    attempt > 0 /\ lastErr \in {"upstream_unavailable", "timeout"}
    <3>1. (attempt + 1) * Turn <= (1 + MaxRetries) * Turn
      <4>1. attempt + 1 <= 1 + MaxRetries
        BY <2>0, AttemptsBounds DEF LoopInv
      <4>2. \A a, b \in Nat : a <= b => a * Turn <= b * Turn
        BY TurnBounds
      <4> QED
        BY <2>0, <4>1, <4>2
    <3>2. (attempt + 1) * Turn = attempt * Turn + Turn /\ Turn >= 1
      BY <2>0, TurnBounds
    <3>3. attempt * Turn \in Nat /\ (1 + MaxRetries) * Turn \in Nat /\ Turn \in Nat
      <4>1. \A a \in Nat : a * Turn \in Nat
        BY TurnBounds
      <4>2. 1 + MaxRetries \in Nat
        OBVIOUS
      <4> QED
        BY <2>0, <4>1, <4>2 DEF Turn
    <3>4. CASE Send
      <4>1. sent <= attempt * Turn
        BY <2>0, <3>4 DEF Send, LoopInv
      <4>2. sent < (1 + MaxRetries) * Turn
        BY <2>0, <3>1, <3>2, <3>3, <4>1
      <4>3. attempt > 0
        BY <2>0, <2>1, <4>1, TurnBounds
      <4> QED
        BY <2>0, <3>4, <4>2, <4>3 DEF Send, LoopInv, Retryable
    <3>5. CASE FollowRedirect
      <4>1. sent < attempt * Turn + Turn
        BY <2>0, <3>3, <3>5 DEF FollowRedirect, LoopInv, Turn
      <4>2. hops' # hops
        BY <2>0, <3>5 DEF FollowRedirect, TypeOK
      <4> QED
        BY <2>0, <3>1, <3>2, <3>3, <4>1, <4>2
    <3> QED
      BY <2>0, <2>1, <3>4, <3>5, WhatSends
  <2>2. GivesUpWhenSpent'
    BY DEF Inv, ResultInv
  <2> QED
    BY <2>1, <2>2 DEF Turn
<1> QED
  BY Invariance, <1>1, PTL DEF Spec, RetryDiscipline

\* No request goes out, and none is redirected, for a caller that has gone.
THEOREM NothingSentAfterCancel == Spec => NoSendAfterCancel
<1>1. Inv /\ [Next]_clientVars => [sent' > sent => ctx = "live"]_clientVars
  <2> SUFFICES ASSUME Inv, [Next]_clientVars, sent' > sent
               PROVE  ctx = "live"
    OBVIOUS
  <2>1. sent \in Nat
    BY DEF Inv, TypeOK
  <2> QED
    BY <2>1, WhatSends DEF Send, FollowRedirect
<1> QED
  BY Invariance, <1>1, PTL DEF Spec, NoSendAfterCancel

-----------------------------------------------------------------------------
(***************************************************************************)
(* Refinement.                                                             *)
(***************************************************************************)

\* The performed requests are finitely many, and there are none of them until a
\* write is performed.
LEMMA PerformedFinite ==
  ASSUME TypeOK
  PROVE  /\ IsFiniteSet(performed)
         /\ Cardinality(performed) \in Nat
         /\ performed # {} => Cardinality(performed) > 0
<1>1. IsFiniteSet(1..sent)
  BY FS_Interval DEF TypeOK
<1>2. IsFiniteSet(performed)
  BY <1>1, FS_Subset DEF TypeOK
<1>3. Cardinality(performed) \in Nat
  BY <1>2, FS_CardinalityType
<1> QED
  BY <1>2, <1>3, FS_EmptySet

\* A step that leaves WHMCS alone is a step of the contract: the call returns,
\* or the contract does not move.
LEMMA ClientStepRefines ==
  ASSUME Inv, UNCHANGED <<mutating, passesOn, performed>>,
         \/ result' = result
         \/ /\ result = "none" /\ result' \in Codes \union {"ok"}
            /\ result' = "ok" => performed # {}
  PROVE  [Contract!Next]_(Contract!callVars)
<1>1. Cardinality(performed)' = Cardinality(performed)
  OBVIOUS
<1>2. CASE result' = result
  BY <1>1, <1>2 DEF Contract!callVars
<1>3. CASE result = "none" /\ result' \in Codes
  <2>1. result' \notin {"none", "ok"}
    BY <1>3 DEF Codes
  <2> QED
    BY <1>1, <1>3, <2>1 DEF Contract!Next, Contract!Fail
<1>4. CASE result = "none" /\ result' = "ok" /\ performed # {}
  <2>1. Cardinality(performed) > 0
    BY <1>4, PerformedFinite DEF Inv
  <2> QED
    BY <1>1, <1>4, <2>1 DEF Contract!Next, Contract!Succeed
<1> QED
  BY <1>2, <1>3, <1>4

\* A write that is passed on never performed twice is what WHMCS's steps come down
\* to.
LEMMA DisposeRefines ==
  ASSUME Inv, NEW n \in pending, NEW done \in BOOLEAN, NEW r \in Reply,
         Dispose(n, done, r)
  PROVE  [Contract!Next]_(Contract!callVars)
<1>0. UNCHANGED <<mutating, passesOn, result>>
  BY DEF Dispose
<1>1. CASE ~done
  BY <1>0, <1>1, ClientStepRefines DEF Dispose
<1>2. CASE done
  <2>1. performed' = performed \union {n} /\ n \notin performed
    BY <1>2 DEF Dispose, Inv, ReplyInv
  <2>2. Cardinality(performed)' = Cardinality(performed) + 1
    <3>1. IsFiniteSet(performed) /\ Cardinality(performed) \in Nat
      BY PerformedFinite DEF Inv
    <3>2. Cardinality(performed \union {n}) = Cardinality(performed) + 1
      BY <2>1, <3>1, FS_AddElement
    <3> QED
      BY <2>1, <3>2
  <2>3. mutating /\ passesOn => Cardinality(performed) = 0
    <3>1. mutating /\ passesOn => performed = {}
      BY <2>1 DEF Inv, ReplyInv
    <3> QED
      BY <3>1, FS_EmptySet
  <2> QED
    BY <1>0, <2>2, <2>3 DEF Contract!Next, Contract!Perform
<1> QED
  BY <1>1, <1>2

\* The call is honest about success, and at most once for writes where what redirects
\* has left them alone: the client implements AtMostOnceCall.
THEOREM ImplementsContract == Spec => ContractSpec
<1>1. Init => Contract!Init
  <2> SUFFICES ASSUME Init PROVE Contract!Init
    OBVIOUS
  <2>1. Cardinality(performed) = 0
    BY FS_EmptySet DEF Init
  <2> QED
    BY <2>1 DEF Init, Contract!Init
<1>2. Inv /\ Inv' /\ [Next]_clientVars => [Contract!Next]_(Contract!callVars)
  <2> SUFFICES ASSUME Inv, Inv', [Next]_clientVars
               PROVE  [Contract!Next]_(Contract!callVars)
    OBVIOUS
  <2>1. ASSUME NEW n \in pending, NEW done \in BOOLEAN, NEW r \in Reply,
               Dispose(n, done, r)
        PROVE  [Contract!Next]_(Contract!callVars)
    BY <2>1, DisposeRefines
  <2>2. CASE Send \/ DialFails \/ BreaksOff \/ AttemptTimesOut \/ Receive
             \/ FollowRedirect \/ RedirectsExhausted
             \/ BackoffEnds \/ BackoffInterrupted \/ ContextEnds
    <3>1. UNCHANGED <<mutating, passesOn, performed>>
      BY <2>2
      DEF Send, DialFails, BreaksOff, AttemptTimesOut, Receive, FollowRedirect,
          RedirectsExhausted, BackoffEnds,
          BackoffInterrupted, ContextEnds
    <3>2. CASE result' = result
      BY <3>1, <3>2, ClientStepRefines
    <3>3. CASE result' # result
      <4>1. result = "none"
        BY <2>2, <3>3
        DEF Inv, ResultInv, Send, DialFails, BreaksOff, AttemptTimesOut, Receive,
            FollowRedirect, RedirectsExhausted, BackoffEnds, BackoffInterrupted, ContextEnds
      <4>2. result' \in Codes \union {"ok"}
        BY <3>3, <4>1 DEF Inv, TypeOK
      <4>3. result' = "ok" => performed # {}
        BY <3>1 DEF Inv, ResultInv, SuccessWasPerformed
      <4> QED
        BY <3>1, <4>1, <4>2, <4>3, ClientStepRefines
    <3> QED
      BY <3>2, <3>3
  <2>3. CASE UNCHANGED clientVars \/ Returned
    BY <2>3, ClientStepRefines DEF clientVars, Returned
  <2> QED
    BY <2>1, <2>2, <2>3 DEF Next
<1> QED
  BY <1>1, <1>2, Invariance, PTL DEF Spec, ContractSpec, Contract!Spec

-----------------------------------------------------------------------------
(***************************************************************************)
(* The call in its process.                                                *)
(***************************************************************************)

\* The steps of the process that leave the call alone.
Around ==
  \/ Arrive \/ Finish \/ InputEnds \/ ListenReturns \/ ServeFails
  \/ StreamCloses \/ ShutdownDone \/ GraceOver \/ HealthCheckEnds

LEMMA AroundLeavesCall == Around \/ Exited \/ UNCHANGED vars => UNCHANGED clientVars
BY DEF Around, Arrive, Finish, InputEnds, ListenReturns, ServeFails, StreamCloses,
       ShutdownDone, GraceOver, HealthCheckEnds, Exited, vars

\* A step of the call is one of WhmcsClient, taken by a process that runs.
LEMMA ClientSteps ==
  ASSUME Client
  PROVE  /\ Running /\ UNCHANGED lifeVars /\ [Next]_clientVars
         /\ ctx' = ctx
<1>1. /\ Running /\ UNCHANGED lifeVars
      /\ \/ Send \/ DialFails \/ BreaksOff \/ AttemptTimesOut \/ Receive
         \/ FollowRedirect \/ RedirectsExhausted \/ BackoffEnds \/ BackoffInterrupted
  BY DEF Client, Process
<1>2. ctx' = ctx
  BY <1>1 DEF Send, DialFails, BreaksOff, AttemptTimesOut, Receive, FollowRedirect,
     RedirectsExhausted, BackoffEnds, BackoffInterrupted
<1> QED
  BY <1>1, <1>2 DEF Next

LEMMA SignalEndsContext == Signal => [Next]_clientVars
<1> SUFFICES ASSUME Signal PROVE [Next]_clientVars
  OBVIOUS
<1>1. UNCHANGED <<mutating, passesOn, pc, attempt, sent, hops, pending, performed,
                  reply, lastErr, result>>
  BY DEF Signal
<1>2. CASE mode = "stdio" /\ ctx = "live"
  <2>1. ContextEnds
    BY <1>1, <1>2 DEF Signal, ContextEnds
  <2> QED
    BY <2>1 DEF Next
<1>3. CASE ~(mode = "stdio" /\ ctx = "live")
  BY <1>1, <1>3 DEF Signal, clientVars
<1> QED
  BY <1>2, <1>3

LEMMA StepOfCall == [LifeNext]_vars => [Next]_clientVars
<1> SUFFICES ASSUME [LifeNext]_vars PROVE [Next]_clientVars
  OBVIOUS
<1>1. CASE Client
  BY <1>1, ClientSteps
<1>2. CASE Whmcs
  BY <1>2 DEF Whmcs, Next
<1>3. CASE ContextOver
  BY <1>3 DEF ContextOver, Next
<1>4. CASE Signal
  BY <1>4, SignalEndsContext
<1>5. CASE Around \/ Exited \/ UNCHANGED vars
  BY <1>5, AroundLeavesCall
<1> QED
  BY <1>1, <1>2, <1>3, <1>4, <1>5 DEF LifeNext, Around

\* The process runs the call as WhmcsClient specifies it, up to the end.
THEOREM RunsTheClient == LifeSpec => Spec
<1>1. LifeInit => Init
  BY DEF LifeInit
<1> QED
  BY <1>1, StepOfCall, PTL DEF LifeSpec, Spec

\* Therefore a write is sent once, and again only for each redirect, and performed as
\* often as WritesAreSentOnce says, also when the process exits while WHMCS has it.
THEOREM WritesSurviveExit == LifeSpec => []WriteSentOnce
BY RunsTheClient, WritesAreSentOnce, PTL

\* And the call keeps the promise of AtMostOnceCall.
THEOREM ContractSurvivesExit == LifeSpec => ContractSpec
BY RunsTheClient, ImplementsContract, PTL

\* And its retries stay bounded.
THEOREM RetriesSurviveSignals == LifeSpec => RetryDiscipline
BY RunsTheClient, RetriesAreDisciplined, PTL

-----------------------------------------------------------------------------
(***************************************************************************)
(* The process.                                                            *)
(***************************************************************************)

\* What the exit status rests on: a stdio server that was told to stop has
\* ended the context of its calls, and a handler that returned has the result
\* of its call.
ProcessInv ==
  /\ life = "exited" <=> exit # "none"
  /\ waits => mode = "stdio"
  /\ mode = "stdio" /\ life = "signalled" => ctx # "live"
  /\ handler = "returned" => pc = "done"
  /\ exit = "ok" /\ mode = "healthcheck" => handler = "returned" /\ result = "ok"
  /\ exit = "ok" /\ (mode = "http" \/ waits) => handler # "running"

LifeInv == LifeTypeOK /\ Inv /\ ProcessInv

LEMMA LifeInitInv == LifeInit => LifeInv
<1> SUFFICES ASSUME LifeInit PROVE LifeInv
  OBVIOUS
<1>1. Inv
  BY InitInv DEF LifeInit
<1>2. LifeTypeOK
  BY <1>1 DEF Inv, LifeTypeOK, LifeInit, Modes
<1>3. ProcessInv
  BY DEF LifeInit, ProcessInv
<1> QED
  BY <1>1, <1>2, <1>3 DEF LifeInv

\* A call that is over changes its result no more.
LEMMA DoneStaysDone ==
  ASSUME [Next]_clientVars, pc = "done"
  PROVE  pc' = "done" /\ result' = result
<1>1. ASSUME NEW n \in pending, NEW done \in BOOLEAN, NEW r \in Reply, Dispose(n, done, r)
      PROVE  pc' = "done" /\ result' = result
  BY <1>1 DEF Dispose
<1> QED
  BY <1>1 DEF Next, Send, DialFails, BreaksOff, AttemptTimesOut, Receive, FollowRedirect,
     RedirectsExhausted, BackoffEnds, BackoffInterrupted, ContextEnds, Returned, clientVars

LEMMA ContextStaysOver ==
  ASSUME [Next]_clientVars, ctx # "live"
  PROVE  ctx' # "live"
<1>1. ASSUME NEW n \in pending, NEW done \in BOOLEAN, NEW r \in Reply, Dispose(n, done, r)
      PROVE  ctx' = ctx
  BY <1>1 DEF Dispose
<1> QED
  BY <1>1 DEF Next, Send, DialFails, BreaksOff, AttemptTimesOut, Receive, FollowRedirect,
     RedirectsExhausted, BackoffEnds, BackoffInterrupted, ContextEnds, Returned, clientVars

LEMMA LifeStepInv == LifeInv /\ [LifeNext]_vars => LifeInv'
<1> SUFFICES ASSUME LifeInv, [LifeNext]_vars PROVE LifeInv'
  OBVIOUS
<1>0. LifeTypeOK /\ Inv /\ ProcessInv /\ [Next]_clientVars
  BY StepOfCall DEF LifeInv
<1>1. Inv' /\ TypeOK'
  BY <1>0, StepInv DEF Inv
<1>a. /\ pc = "done" => pc' = "done" /\ result' = result
      /\ ctx # "live" => ctx' # "live"
  BY <1>0, DoneStaysDone, ContextStaysOver
<1>2. CASE UNCHANGED lifeVars
  <2>1. LifeTypeOK'
    BY <1>0, <1>1, <1>2 DEF LifeTypeOK, lifeVars
  <2>2. ProcessInv'
    BY <1>0, <1>2, <1>a DEF ProcessInv, lifeVars
  <2> QED
    BY <1>1, <2>1, <2>2 DEF LifeInv
<1>3. CASE Signal
  <2>1. LifeTypeOK'
    BY <1>0, <1>1, <1>3 DEF LifeTypeOK, Signal, Exit
  <2>2. ProcessInv'
    BY <1>0, <1>3, <1>a DEF ProcessInv, LifeTypeOK, Signal, Exit
  <2> QED
    BY <1>1, <2>1, <2>2 DEF LifeInv
<1>4. CASE Around
  <2>1. UNCHANGED clientVars
    BY <1>4, AroundLeavesCall
  <2>2. UNCHANGED <<pc, ctx, result>>
    BY <2>1 DEF clientVars
  <2>3. LifeTypeOK'
    BY <1>0, <1>1, <1>4
    DEF LifeTypeOK, Around, Arrive, Finish, InputEnds, ListenReturns, ServeFails,
        StreamCloses, ShutdownDone, GraceOver, HealthCheckEnds, Exit
  <2>4. ProcessInv'
    BY <1>0, <1>4, <2>2
    DEF ProcessInv, LifeTypeOK, Around, Arrive, Finish, InputEnds, ListenReturns,
        ServeFails, StreamCloses, ShutdownDone, GraceOver, HealthCheckEnds, Exit
  <2> QED
    BY <1>1, <2>3, <2>4 DEF LifeInv
<1> QED
  <2>1. Client \/ Whmcs \/ ContextOver \/ Exited \/ UNCHANGED vars => UNCHANGED lifeVars
    BY ClientSteps DEF Whmcs, ContextOver, Exited, vars
  <2> QED
    BY <1>2, <1>3, <1>4, <2>1 DEF LifeNext, Around

LEMMA LifeInvariance == LifeSpec => []LifeInv
BY LifeInitInv, LifeStepInv, PTL DEF LifeSpec

\* Every variable of the process and of the call keeps its type.
THEOREM LifeTypeCorrect == LifeSpec => []LifeTypeOK
<1>1. LifeInv => LifeTypeOK
  BY DEF LifeInv
<1> QED
  BY LifeInvariance, <1>1, PTL

\* Status 0 means that no call was cut off, and of a health check that WHMCS
\* answered for this credential.
THEOREM ExitIsTruthful == LifeSpec => []ExitTellsTheTruth
<1>1. LifeInv => ExitTellsTheTruth
  BY DEF LifeInv, ProcessInv, ExitTellsTheTruth, Inv, ResultInv, SuccessWasPerformed
<1> QED
  BY LifeInvariance, <1>1, PTL

\* Nothing is sent for a caller that has gone, by a process that has exited, or
\* by a stdio server that was told to stop.
THEOREM NothingIsSentForTheGone == LifeSpec => NothingSentForTheGone
<1>1. LifeInv /\ [LifeNext]_vars =>
        [sent' > sent =>
           /\ ctx = "live"
           /\ life # "exited"
           /\ ~(mode = "stdio" /\ life = "signalled")]_vars
  <2> SUFFICES ASSUME LifeInv, [LifeNext]_vars, sent' > sent
               PROVE  /\ ctx = "live"
                      /\ life # "exited"
                      /\ ~(mode = "stdio" /\ life = "signalled")
    OBVIOUS
  <2>1. sent \in Nat
    BY DEF LifeInv, Inv, TypeOK
  <2>2. [Next]_clientVars
    BY StepOfCall
  <2>3. Send \/ FollowRedirect
    BY <2>1, <2>2, WhatSends
  <2>4. ctx = "live"
    BY <2>3 DEF Send, FollowRedirect
  <2>5. Client
    <3>1. ~(Around \/ Exited \/ UNCHANGED vars)
      BY <2>1, AroundLeavesCall DEF clientVars
    <3>2. ~(Whmcs \/ ContextOver \/ Signal)
      BY <2>1 DEF Whmcs, Dispose, ContextOver, ContextEnds, Signal
    <3> QED
      BY <3>1, <3>2 DEF LifeNext, Around
  <2>6. life # "exited"
    BY <2>5, ClientSteps DEF Running
  <2> QED
    BY <2>4, <2>6 DEF LifeInv, ProcessInv
<1> QED
  BY LifeInvariance, <1>1, PTL DEF LifeSpec, NothingSentForTheGone
===============================================================================
