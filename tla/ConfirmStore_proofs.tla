------------------------- MODULE ConfirmStore_proofs -------------------------
(***************************************************************************)
(* Proofs about the confirmation store, for any number of concurrent       *)
(* calls, nonces and operations and for any TTL and clock precision.       *)
(***************************************************************************)
EXTENDS ConfirmStore, TLAPS

USE ConfirmAssumption

-----------------------------------------------------------------------------
(***************************************************************************)
(* The clock.                                                              *)
(***************************************************************************)

\* Cutting a time to whole seconds gives a time less than a second earlier.
LEMMA UnixBounds ==
  ASSUME NEW t \in Nat
  PROVE  /\ Unix(t) \in Int
         /\ Unix(t) <= t
         /\ Unix(t) > t - Sec
<1>1. /\ t = Sec * (t \div Sec) + (t % Sec)
      /\ (t \div Sec) \in Int
      /\ (t % Sec) \in 0..(Sec - 1)
  BY SMT
<1>2. Sec * (t \div Sec) = (t \div Sec) * Sec /\ (t \div Sec) * Sec \in Int
  BY <1>1, SMT
<1> QED
  BY <1>1, <1>2, SMT DEF Unix

-----------------------------------------------------------------------------
(***************************************************************************)
(* Type correctness.                                                       *)
(***************************************************************************)

\* A presented token is well-formed: its fields come from issued tokens.
LEMMA PresentableType ==
  ASSUME TypeOK, NEW tok \in Presentable
  PROVE  tok \in Token
BY DEF TypeOK, Presentable, Token, Mac

LEMMA TypeStep ==
  ASSUME TypeOK, [Next]_vars
  PROVE  TypeOK'
<1>1. ASSUME NEW i \in Ids, NEW op \in Ops, Issue(i, op) PROVE TypeOK'
  <2>1. Unix(now + TTL) \in Int /\ now + TTL \in Nat
    BY UnixBounds DEF TypeOK
  <2>2. issued' \subseteq Token
    BY <1>1, <2>1 DEF TypeOK, Issue, Sign, Token, Mac
  <2> QED
    BY <1>1, <2>1, <2>2 DEF TypeOK, Issue
<1>2. ASSUME NEW p \in Calls, NEW tok \in Presentable, NEW op \in Ops,
             BeginVerify(p, tok, op)
      PROVE  TypeOK'
  <2>1. [token |-> tok, op |-> op, began |-> now] \in Request
    BY PresentableType DEF TypeOK, Request
  <2>2. call' \in [Calls -> Request \union {NoCall}]
    BY <1>2, <2>1 DEF TypeOK, BeginVerify
  <2>3. pc' \in [Calls -> {"idle"} \union Inside \union Answers]
    BY <1>2 DEF TypeOK, BeginVerify, Inside, Answers
  <2>4. \A q \in Calls : pc'[q] # "idle" => call'[q] \in Request
    BY <1>2, <2>1 DEF TypeOK, BeginVerify
  <2> QED
    BY <1>2, <2>2, <2>3, <2>4 DEF TypeOK, BeginVerify
<1>3. ASSUME NEW p \in Calls, CheckExpiry(p) PROVE TypeOK'
  BY <1>3 DEF TypeOK, CheckExpiry, Inside, Answers
<1>4. ASSUME NEW p \in Calls, Consume(p) PROVE TypeOK'
  <2>1. call[p].token \in Token
    BY <1>4 DEF TypeOK, Consume, Request
  <2>2. call[p].token.id \in Ids /\ call[p].token.exp \in Int
    BY <2>1 DEF Token
  <2>3. Unswept(now) \subseteq DOMAIN consumed
    BY DEF Unswept
  <2>4. \/ consumed' = [i \in Unswept(now) |-> consumed[i]]
        \/ consumed' = [i \in Unswept(now) \union {call[p].token.id} |->
              IF i = call[p].token.id THEN call[p].token.exp ELSE consumed[i]]
    BY <1>4 DEF Consume
  <2>5. DOMAIN consumed' \subseteq Ids /\ consumed' \in [DOMAIN consumed' -> Int]
    BY <2>2, <2>3, <2>4 DEF TypeOK
  <2>6. spent' \in [Ids -> Nat]
    BY <1>4, <2>2 DEF TypeOK, Consume
  <2>7. pc' \in [Calls -> {"idle"} \union Inside \union Answers]
    BY <1>4 DEF TypeOK, Consume, Inside, Answers
  <2>8. \A q \in Calls : pc'[q] # "idle" => call'[q] \in Request
    BY <1>4 DEF TypeOK, Consume
  <2> QED
    BY <1>4, <2>5, <2>6, <2>7, <2>8 DEF TypeOK, Consume
<1>5. CASE Restart
  BY <1>5 DEF TypeOK, Restart
<1>6. CASE Tick
  BY <1>6 DEF TypeOK, Tick
<1>7. CASE StepBack
  <2>1. now' \in Nat /\ now' <= latest' /\ latest' \in Nat /\ back' \in Nat
    BY <1>7 DEF TypeOK, StepBack
  <2>2. \A p \in Calls : call[p] \in Request =>
          [call[p] EXCEPT !.began = now'] \in Request
    BY <2>1 DEF Request
  <2>3. /\ call' \in [Calls -> Request \union {NoCall}]
        /\ \A p \in Calls : pc'[p] # "idle" => call'[p] \in Request
    BY <1>7, <2>2 DEF TypeOK, StepBack, Inside
  <2> QED
    BY <1>7, <2>1, <2>3 DEF TypeOK, StepBack
<1>8. CASE UNCHANGED vars
  BY <1>8 DEF TypeOK, vars
<1> QED
  BY <1>1, <1>2, <1>3, <1>4, <1>5, <1>6, <1>7, <1>8 DEF Next

\* Every variable of the store keeps its type, whatever the callers present.
THEOREM TypeCorrect == Spec => []TypeOK
<1>1. Init => TypeOK
  BY DEF Init, TypeOK
<1> QED
  BY <1>1, TypeStep, PTL DEF Spec

-----------------------------------------------------------------------------
(***************************************************************************)
(* The inductive invariant, one lemma per action.                          *)
(***************************************************************************)

LEMMA InitStoreInv == Init => StoreInv
BY DEF Init, StoreInv, IssuedWellSigned, PastMac, PastExpiry, MapMatchesHistory

\* A fresh nonce collides with no token, no entry and no acceptance.
LEMMA IssueStoreInv ==
  ASSUME TypeOK, StoreInv, NEW i \in Ids, NEW op \in Ops, Issue(i, op)
  PROVE  StoreInv'
<1> DEFINE tok == [id |-> i, exp |-> Unix(now + TTL),
                   mac |-> Sign(epoch, i, Unix(now + TTL), op)]
<1>1. /\ issued' = issued \union {tok}
      /\ \A t \in issued : t.id # i
      /\ UNCHANGED <<now, latest, back, epoch, consumed, pc, call, spent>>
      /\ lifeEnd' = [lifeEnd EXCEPT ![i] = now + TTL]
  BY DEF Issue
<1>2. tok.id = i /\ tok.mac.key = epoch /\ tok.mac.fp = op
      /\ tok.mac = Sign(epoch, tok.id, tok.exp, op)
  BY DEF Sign
<1>3. epoch \in Nat
  BY DEF TypeOK
<1>4. spent[i] = 0
  BY <1>1 DEF StoreInv, MapMatchesHistory
<1>9. /\ lifeEnd'[i] - Sec < tok.exp /\ tok.exp <= lifeEnd'[i]
      /\ \A t \in issued : lifeEnd'[t.id] = lifeEnd[t.id]
  <2>1. now \in Nat /\ now + TTL \in Nat /\ lifeEnd'[i] = now + TTL
    BY <1>1 DEF TypeOK
  <2>2. /\ Unix(now + TTL) \in Int
        /\ Unix(now + TTL) > now + TTL - Sec
        /\ Unix(now + TTL) <= now + TTL
    BY <2>1, UnixBounds
  <2>3. \A t \in issued : t.id \in Ids /\ t.id # i
    BY <1>1 DEF TypeOK, Token
  <2> QED
    BY <1>1, <2>1, <2>2, <2>3 DEF TypeOK
<1> HIDE DEF tok
<1>5. IssuedWellSigned'
  BY <1>1, <1>2, <1>3, <1>9 DEF StoreInv, IssuedWellSigned
<1>6. PastMac'
  BY <1>1 DEF StoreInv, PastMac
<1>7. PastExpiry'
  BY <1>1 DEF StoreInv, PastExpiry, Expired
<1>8. MapMatchesHistory'
  <2>1. \A j \in DOMAIN consumed : j # i
    BY <1>4 DEF StoreInv, MapMatchesHistory
  <2> QED
    BY <1>1, <1>2, <1>4, <2>1 DEF StoreInv, MapMatchesHistory, Expired
<1> QED
  BY <1>5, <1>6, <1>7, <1>8 DEF StoreInv

\* A token whose MAC matches is one that was issued: were its fields taken from
\* different tokens, the MAC would name other fields than the ones presented.
LEMMA MatchedIsIssued ==
  ASSUME TypeOK, StoreInv, NEW tok \in Presentable, NEW op,
         tok.mac = Sign(epoch, tok.id, tok.exp, op)
  PROVE  tok \in issued
<1>1. PICK c \in issued : c.mac = tok.mac
  BY DEF Presentable
<1>2. c.mac = Sign(c.mac.key, c.id, c.exp, c.mac.fp)
  BY DEF StoreInv, IssuedWellSigned
<1>3. c.id = tok.id /\ c.exp = tok.exp
  BY <1>1, <1>2 DEF Sign
<1>4. tok \in Token /\ c \in Token
  BY PresentableType DEF TypeOK
<1>5. tok = c
  BY <1>1, <1>3, <1>4 DEF Token
<1> QED
  BY <1>5

LEMMA BeginStoreInv ==
  ASSUME TypeOK, StoreInv, NEW p \in Calls, NEW tok \in Presentable,
         NEW op \in Ops, BeginVerify(p, tok, op)
  PROVE  StoreInv'
<1>1. /\ call' = [call EXCEPT ![p] = [token |-> tok, op |-> op, began |-> now]]
      /\ UNCHANGED <<now, latest, back, epoch, issued, lifeEnd, consumed, spent>>
      /\ \A q \in Calls \ {p} : pc'[q] = pc[q] /\ call'[q] = call[q]
      /\ call'[p].token = tok /\ call'[p].op = op /\ call'[p].began = now
      /\ pc'[p] = IF tok.mac = Sign(epoch, tok.id, tok.exp, op)
                  THEN "signed" ELSE "mismatch"
  BY DEF BeginVerify, TypeOK
<1>2. tok.mac = Sign(epoch, tok.id, tok.exp, op) => tok \in issued
  BY MatchedIsIssued
<1>3. now \in Nat
  BY DEF TypeOK
<1>4. PastMac'
  BY <1>1, <1>2 DEF StoreInv, PastMac
<1>5. PastExpiry'
  BY <1>1, <1>3 DEF StoreInv, PastExpiry
<1>6. IssuedWellSigned' /\ MapMatchesHistory'
  BY <1>1 DEF StoreInv, IssuedWellSigned, MapMatchesHistory
<1> QED
  BY <1>4, <1>5, <1>6 DEF StoreInv

\* A time that has passed has passed: what the clock shows now, it has shown.
LEMMA ExpiredStays ==
  ASSUME TypeOK, NEW exp \in Int, Expired(now, exp)
  PROVE  Expired(latest, exp)
BY DEF TypeOK, Expired

LEMMA ExpiryStoreInv ==
  ASSUME TypeOK, StoreInv, NEW p \in Calls, CheckExpiry(p)
  PROVE  StoreInv'
<1>1. /\ UNCHANGED <<now, latest, back, epoch, issued, lifeEnd, consumed, call, spent>>
      /\ \A q \in Calls \ {p} : pc'[q] = pc[q]
      /\ pc[p] = "signed"
      /\ pc'[p] = IF Expired(now, call[p].token.exp) THEN "expired" ELSE "live"
  BY DEF CheckExpiry, TypeOK
<1>2. call[p].began <= now /\ call[p].began \in Nat /\ now \in Nat
      /\ call[p].token.exp \in Int
  BY <1>1 DEF StoreInv, PastExpiry, TypeOK, Request, Token
<1>7. Expired(now, call[p].token.exp) => Expired(latest, call[p].token.exp)
  BY <1>2, ExpiredStays
<1>3. ~Expired(now, call[p].token.exp) =>
         ~Expired(call[p].began, call[p].token.exp)
  BY <1>2 DEF Expired
<1>4. PastMac'
  BY <1>1 DEF StoreInv, PastMac
<1>5. PastExpiry'
  BY <1>1, <1>3, <1>7 DEF StoreInv, PastExpiry
<1>6. IssuedWellSigned' /\ MapMatchesHistory'
  BY <1>1 DEF StoreInv, IssuedWellSigned, MapMatchesHistory
<1> QED
  BY <1>4, <1>5, <1>6 DEF StoreInv

\* What the step under the lock does to the token it is about.
LEMMA ConsumeFacts ==
  ASSUME TypeOK, StoreInv, NEW p \in Calls, Consume(p)
  PROVE  /\ call[p].token \in issued
         /\ call[p].token.mac.key = epoch
         /\ call[p].token.id \in Ids
         /\ (call[p].token.id \notin Unswept(now) /\ spent[call[p].token.id] > 0)
               => Expired(latest, call[p].token.exp)
<1>1. call[p].token \in issued /\ call[p].token.mac.key = epoch
  <2>1. pc[p] = "live"
    BY DEF Consume
  <2>2. /\ call[p].token \in issued
        /\ call[p].token.mac = Sign(epoch, call[p].token.id,
                                    call[p].token.exp, call[p].op)
    BY <2>1 DEF StoreInv, PastMac
  <2> QED
    BY <2>2 DEF Sign
<1>2. call[p].token.id \in Ids
  BY <1>1 DEF TypeOK, Token
<1>3. call[p].token.id \in DOMAIN consumed =>
        consumed[call[p].token.id] = call[p].token.exp
  BY <1>1 DEF StoreInv, MapMatchesHistory
<1>4. spent[call[p].token.id] > 0 =>
        call[p].token.id \in DOMAIN consumed \/ Expired(latest, call[p].token.exp)
  BY <1>1 DEF StoreInv, MapMatchesHistory
<1>5. Expired(now, call[p].token.exp) => Expired(latest, call[p].token.exp)
  BY <1>1, ExpiredStays DEF TypeOK, Token
<1> QED
  BY <1>1, <1>2, <1>3, <1>4, <1>5 DEF Unswept

LEMMA ConsumeStoreInv ==
  ASSUME TypeOK, StoreInv, NEW p \in Calls, Consume(p)
  PROVE  StoreInv'
<1> DEFINE tok == call[p].token
<1>1. /\ UNCHANGED <<now, latest, back, epoch, issued, lifeEnd, call>>
      /\ pc[p] = "live"
      /\ \A q \in Calls \ {p} : pc'[q] = pc[q]
  BY DEF Consume, TypeOK
<1>2. tok \in issued /\ tok.id \in Ids /\ tok.mac.key = epoch
  BY ConsumeFacts
<1>3. spent \in [Ids -> Nat] /\ now \in Nat
  BY DEF TypeOK
<1>4. \A t \in issued : t.id = tok.id => t = tok
  BY <1>2 DEF StoreInv, IssuedWellSigned
<1>5. Unswept(now) \subseteq DOMAIN consumed
  BY DEF Unswept
<1>6. \A t \in issued : t.id \in DOMAIN consumed /\ t.id \notin Unswept(now)
                          => Expired(latest, t.exp)
  <2>1. \A t \in issued : t.id \in DOMAIN consumed /\ t.id \notin Unswept(now)
                            => Expired(now, t.exp)
    BY DEF Unswept, StoreInv, MapMatchesHistory
  <2> QED
    BY <2>1, ExpiredStays DEF TypeOK, Token
<1>7. IssuedWellSigned'
  BY <1>1 DEF StoreInv, IssuedWellSigned
<1>8. CASE tok.id \in Unswept(now)
  <2>1. /\ pc'[p] = "consumed"
        /\ consumed' = [i \in Unswept(now) |-> consumed[i]]
        /\ spent' = spent
    BY <1>8 DEF Consume, TypeOK
  <2>2. spent[tok.id] > 0
    BY <1>5, <1>8 DEF StoreInv, MapMatchesHistory
  <2>3. PastMac'
    BY <1>1, <2>1 DEF StoreInv, PastMac
  <2>4. PastExpiry'
    BY <1>1, <2>1, <2>2 DEF StoreInv, PastExpiry
  <2>5. MapMatchesHistory'
    BY <1>1, <1>5, <1>6, <2>1 DEF StoreInv, MapMatchesHistory
  <2> QED
    BY <1>7, <2>3, <2>4, <2>5 DEF StoreInv
<1>9. CASE tok.id \notin Unswept(now)
  <2>1. /\ pc'[p] = "accepted"
        /\ consumed' = [i \in Unswept(now) \union {tok.id} |->
                          IF i = tok.id THEN tok.exp ELSE consumed[i]]
        /\ spent' = [spent EXCEPT ![tok.id] = @ + 1]
    BY <1>9 DEF Consume, TypeOK
  <2>2. /\ spent'[tok.id] = spent[tok.id] + 1 /\ spent'[tok.id] > 0
        /\ \A i \in Ids \ {tok.id} : spent'[i] = spent[i]
    BY <1>2, <1>3, <2>1
  <2>3. PastMac'
    BY <1>1, <2>1 DEF StoreInv, PastMac
  <2>4. PastExpiry'
    <3>1. \A q \in Calls : pc'[q] = "consumed" => spent'[call[q].token.id] > 0
      <4> SUFFICES ASSUME NEW q \in Calls, pc'[q] = "consumed"
                   PROVE  spent'[call[q].token.id] > 0
        OBVIOUS
      <4>1. pc[q] = "consumed" /\ spent[call[q].token.id] > 0
        BY <1>1, <2>1 DEF StoreInv, PastExpiry
      <4>2. call[q].token.id \in Ids
        BY <4>1 DEF TypeOK, Request, Token
      <4> QED
        BY <4>1, <4>2, <2>2
    <3> QED
      BY <1>1, <2>1, <3>1 DEF StoreInv, PastExpiry
  <2>5. MapMatchesHistory'
    <3>1. \A i \in DOMAIN consumed' :
            /\ spent'[i] > 0
            /\ \A t \in issued : t.id = i => consumed'[i] = t.exp
      BY <1>4, <1>5, <2>1, <2>2 DEF StoreInv, MapMatchesHistory, TypeOK
    <3>2. \A t \in issued :
            (spent'[t.id] > 0 /\ t.mac.key = epoch) =>
               t.id \in DOMAIN consumed' \/ Expired(latest, t.exp)
      BY <1>6, <2>1, <2>2 DEF StoreInv, MapMatchesHistory, TypeOK, Token
    <3>3. \A i \in Ids : (\A t \in issued : t.id # i) => spent'[i] = 0
      BY <1>2, <2>2 DEF StoreInv, MapMatchesHistory
    <3> QED
      BY <1>1, <3>1, <3>2, <3>3 DEF MapMatchesHistory
  <2> QED
    BY <1>7, <2>3, <2>4, <2>5 DEF StoreInv
<1> QED
  BY <1>8, <1>9

LEMMA RestartStoreInv ==
  ASSUME TypeOK, StoreInv, Restart
  PROVE  StoreInv'
<1>1. /\ UNCHANGED <<now, latest, back, issued, lifeEnd, spent>>
      /\ epoch' = epoch + 1
      /\ consumed' = [i \in {} |-> 0]
      /\ \A p \in Calls : pc'[p] = "idle"
  BY DEF Restart
<1>2. epoch \in Nat /\ \A t \in issued : t.mac.key \in Nat
  BY DEF TypeOK, Token, Mac
<1>3. \A t \in issued : t.mac.key <= epoch' /\ t.mac.key # epoch'
  BY <1>1, <1>2 DEF StoreInv, IssuedWellSigned
<1>4. IssuedWellSigned' /\ MapMatchesHistory'
  BY <1>1, <1>3 DEF StoreInv, IssuedWellSigned, MapMatchesHistory
<1>5. PastMac' /\ PastExpiry'
  BY <1>1 DEF PastMac, PastExpiry
<1> QED
  BY <1>4, <1>5 DEF StoreInv

LEMMA TickStoreInv ==
  ASSUME TypeOK, StoreInv, Tick
  PROVE  StoreInv'
<1>1. /\ UNCHANGED <<epoch, issued, lifeEnd, consumed, pc, call, spent>>
      /\ now' = now + 1 /\ now \in Nat
      /\ latest' \in Nat /\ latest' >= latest /\ latest \in Nat
  BY DEF Tick, TypeOK
<1>2. \A exp \in Int : Expired(latest, exp) => Expired(latest', exp)
  BY <1>1 DEF Expired
<1>3. \A t \in issued : t.exp \in Int
  BY DEF TypeOK, Token
<1>4. \A p \in Calls : pc[p] # "idle" =>
         call[p].began \in Nat /\ call[p].token.exp \in Int
  BY DEF TypeOK, Request, Token
<1>5. IssuedWellSigned' /\ PastMac'
  BY <1>1 DEF StoreInv, IssuedWellSigned, PastMac
<1>6. PastExpiry'
  BY <1>1, <1>2, <1>4 DEF StoreInv, PastExpiry
<1>7. MapMatchesHistory'
  BY <1>1, <1>2, <1>3 DEF StoreInv, MapMatchesHistory
<1> QED
  BY <1>5, <1>6, <1>7 DEF StoreInv

\* Setting the clock back can only bring forward the earliest time a call saw.
LEMMA StepBackStoreInv ==
  ASSUME TypeOK, StoreInv, StepBack
  PROVE  StoreInv'
<1>1. /\ UNCHANGED <<latest, epoch, issued, lifeEnd, consumed, pc, spent>>
      /\ now' \in Nat /\ now' < now /\ now \in Nat
  BY DEF StepBack, TypeOK
<1>2. ASSUME NEW p \in Calls
      PROVE  /\ call'[p].token = call[p].token /\ call'[p].op = call[p].op
             /\ call'[p].began = IF pc[p] \in Inside /\ now' < call[p].began
                                THEN now' ELSE call[p].began
  <2>1. CASE pc[p] \in Inside /\ now' < call[p].began
    <3>1. call[p] \in Request
      BY <2>1 DEF TypeOK, Inside
    <3>2. call'[p] = [call[p] EXCEPT !.began = now']
      BY <2>1 DEF StepBack
    <3> QED
      BY <2>1, <3>1, <3>2 DEF Request
  <2>2. CASE ~(pc[p] \in Inside /\ now' < call[p].began)
    BY <2>2 DEF StepBack
  <2> QED
    BY <2>1, <2>2
<1>3. \A p \in Calls : pc[p] # "idle" =>
         call[p].began \in Nat /\ call[p].token.exp \in Int
  BY DEF TypeOK, Request, Token
<1>4. IssuedWellSigned' /\ MapMatchesHistory'
  BY <1>1 DEF StoreInv, IssuedWellSigned, MapMatchesHistory
<1>5. PastMac'
  BY <1>1, <1>2 DEF StoreInv, PastMac
<1>6. PastExpiry'
  <2> SUFFICES ASSUME NEW p \in Calls
               PROVE  PastExpiry!(p)'
    BY DEF PastExpiry
  <2>1. pc[p] = "signed" => call'[p].began <= now'
    BY <1>1, <1>2, <1>3 DEF Inside
  <2>2. pc[p] \in {"live", "accepted", "consumed"} =>
           ~Expired(call'[p].began, call'[p].token.exp)
    BY <1>1, <1>2, <1>3 DEF StoreInv, PastExpiry, Expired
  <2> QED
    BY <1>1, <1>2, <2>1, <2>2 DEF StoreInv, PastExpiry
<1> QED
  BY <1>4, <1>5, <1>6 DEF StoreInv

LEMMA StoreInvStep ==
  ASSUME TypeOK, StoreInv, [Next]_vars
  PROVE  StoreInv'
<1>1. CASE UNCHANGED vars
  BY <1>1 DEF vars, StoreInv, IssuedWellSigned, PastMac, PastExpiry,
              MapMatchesHistory, Expired
<1> QED
  BY <1>1, IssueStoreInv, BeginStoreInv, ExpiryStoreInv, ConsumeStoreInv,
     RestartStoreInv, TickStoreInv, StepBackStoreInv DEF Next

\* The invariant holds throughout: a token is what its MAC says, and the
\* consumed map forgets an accepted nonce only once the clock has been past its
\* expiry.
THEOREM StoreInvariant == Spec => []StoreInv
BY InitStoreInv, StoreInvStep, TypeCorrect, PTL DEF Spec

\* What those who share the store build on: its invariant is inductive.
LEMMA IInvIsInductive ==
  /\ Init => IInv
  /\ IInv /\ [Next]_vars => IInv'
<1>1. Init => TypeOK
  BY DEF Init, TypeOK
<1> QED
  BY <1>1, InitStoreInv, TypeStep, StoreInvStep DEF IInv

\* Types included: the inductive invariant, as the instances check it.
THEOREM Inductive == Spec => []IInv
BY TypeCorrect, StoreInvariant, PTL DEF IInv

-----------------------------------------------------------------------------
(***************************************************************************)
(* The properties.                                                         *)
(***************************************************************************)

\* Verify accepts only tokens this process issued for the operation presented,
\* and only from calls that came within the lifetime of the token.
THEOREM OnlyAuthorised == Spec => []Authorised
<1>1. IInv => Authorised
  <2> SUFFICES ASSUME IInv, NEW p \in Calls, pc[p] = "accepted"
               PROVE  /\ call[p].token \in issued
                      /\ call[p].token.mac.key = epoch
                      /\ call[p].token.mac.fp = call[p].op
                      /\ call[p].began <= call[p].token.exp
                      /\ call[p].began <= lifeEnd[call[p].token.id]
    BY DEF Authorised
  <2>1. /\ call[p].token \in issued
        /\ call[p].token.mac = Sign(epoch, call[p].token.id,
                                    call[p].token.exp, call[p].op)
    BY DEF IInv, StoreInv, PastMac
  <2>2. /\ ~Expired(call[p].began, call[p].token.exp)
        /\ call[p].token.exp <= lifeEnd[call[p].token.id]
    BY <2>1 DEF IInv, StoreInv, PastExpiry, IssuedWellSigned
  <2>3. /\ call[p].began \in Nat /\ call[p].token.exp \in Int
        /\ lifeEnd[call[p].token.id] \in Nat
    BY DEF IInv, TypeOK, Request, Token
  <2>4. call[p].token.mac.key = epoch /\ call[p].token.mac.fp = call[p].op
    BY <2>1 DEF Sign
  <2> QED
    BY <2>1, <2>2, <2>3, <2>4 DEF Expired
<1> QED
  BY <1>1, Inductive, PTL

\* Each refusal says what is true of the token.
THEOREM RefusalsAreTruthful == Spec => []RefusalsTruthful
<1>1. TypeOK /\ StoreInv => RefusalsTruthful
  <2> SUFFICES ASSUME TypeOK, StoreInv, NEW p \in Calls
               PROVE  RefusalsTruthful!(p)
    BY DEF RefusalsTruthful
  <2>1. pc[p] = "consumed" => spent[call[p].token.id] > 0
    BY DEF StoreInv, PastExpiry
  <2>2. ASSUME pc[p] = "expired"
        PROVE  /\ latest > call[p].token.exp
               /\ latest > lifeEnd[call[p].token.id] - Sec
    <3>1. /\ latest > call[p].token.exp
          /\ lifeEnd[call[p].token.id] - Sec < call[p].token.exp
      BY <2>2 DEF StoreInv, PastMac, PastExpiry, IssuedWellSigned, Expired
    <3>2. /\ latest \in Nat /\ call[p].token.exp \in Int
          /\ lifeEnd[call[p].token.id] \in Nat
      BY <2>2 DEF TypeOK, Request, Token
    <3> QED
      BY <3>1, <3>2
  <2>3. pc[p] = "mismatch" => ~ /\ call[p].token \in issued
                                /\ call[p].token.mac.key = epoch
                                /\ call[p].token.mac.fp = call[p].op
    BY DEF StoreInv, IssuedWellSigned, PastMac, Sign
  <2> QED
    BY <2>1, <2>2, <2>3
<1> QED
  BY <1>1, TypeCorrect, StoreInvariant, PTL

\* A nonce is accepted again only by a consumption that finds it swept.
LEMMA AcceptedAgain ==
  ASSUME TypeOK, StoreInv, [Next]_vars, NEW t \in issued,
         spent[t.id] > 0, spent'[t.id] > spent[t.id]
  PROVE  latest > t.exp
<1>1. t.id \in Ids /\ spent[t.id] \in Nat
  BY DEF TypeOK, Token
<1>2. spent' # spent
  BY <1>1
<1>3. PICK p \in Calls : Consume(p)
  BY <1>2 DEF Next, vars, Issue, BeginVerify, CheckExpiry, Restart, Tick,
                         StepBack
<1>4. /\ call[p].token.id \notin Unswept(now)
      /\ spent' = [spent EXCEPT ![call[p].token.id] = @ + 1]
  BY <1>2, <1>3 DEF Consume
<1>5. t.id = call[p].token.id
  BY <1>1, <1>4 DEF TypeOK
<1>6. t = call[p].token
  BY <1>3, <1>5, ConsumeFacts DEF StoreInv, IssuedWellSigned
<1> QED
  BY <1>3, <1>4, <1>6, ConsumeFacts DEF Expired

\* No nonce is accepted a second time before the clock has been past its expiry.
THEOREM NoReplay == Spec => NoReplayWhileLive
<1>1. TypeOK /\ StoreInv /\ [Next]_vars =>
        [\A t \in issued :
           (spent[t.id] > 0 /\ spent'[t.id] > spent[t.id])
              => latest > t.exp]_vars
  BY AcceptedAgain
<1> QED
  BY <1>1, TypeCorrect, StoreInvariant, PTL DEF Spec, NoReplayWhileLive

\* Every step of the store is a step the contract allows, or none at all.
THEOREM ImplementsContract == Spec => ContractSpec
<1> DEFINE G(S) == {[id |-> t.id, op |-> t.mac.fp, deadline |-> t.exp,
                     epoch |-> t.mac.key] : t \in S}
<1>1. Init => Contract!Init
  BY DEF Init, Contract!Init
<1>2. ASSUME TypeOK, StoreInv, [Next]_vars
      PROVE  [Contract!Next]_(Contract!contractVars)
  <2>1. ASSUME NEW i \in Ids, NEW op \in Ops, Issue(i, op)
        PROVE  Contract!Mint(i, op)
    <3>1. now + TTL \in Nat /\ now \in Nat
      BY <1>2 DEF TypeOK
    <3>2. Unix(now + TTL) \in (now + TTL - Sec + 1)..(now + TTL)
      BY <3>1, UnixBounds
    <3>3. G(issued') = G(issued) \union
            {[id |-> i, op |-> op, deadline |-> Unix(now + TTL), epoch |-> epoch]}
      <4> DEFINE exp == Unix(now + TTL)
                 n == [id |-> i, exp |-> exp, mac |-> Sign(epoch, i, exp, op)]
      <4>1. issued' = issued \union {n}
        BY <2>1 DEF Issue
      <4>2. n.id = i /\ n.exp = exp /\ n.mac.fp = op /\ n.mac.key = epoch
        BY DEF Sign
      <4> HIDE DEF n, exp
      <4>3. G(issued \union {n}) = G(issued) \union
              {[id |-> n.id, op |-> n.mac.fp, deadline |-> n.exp,
                epoch |-> n.mac.key]}
        OBVIOUS
      <4> QED
        BY <4>1, <4>2, <4>3 DEF exp
    <3>4. \A g \in G(issued) : g.id # i
      BY <2>1 DEF Issue
    <3> QED
      BY <2>1, <3>2, <3>3, <3>4 DEF Issue, Contract!Mint
  <2>2. ASSUME NEW p \in Calls, Consume(p), spent' # spent
        PROVE  \E g \in G(issued) : Contract!Redeem(g)
    <3> DEFINE tok == call[p].token
               g == [id |-> tok.id, op |-> tok.mac.fp, deadline |-> tok.exp,
                     epoch |-> tok.mac.key]
    <3>1. /\ tok \in issued /\ tok.mac.key = epoch /\ tok.id \in Ids
          /\ (tok.id \notin Unswept(now) /\ spent[tok.id] > 0)
                => Expired(latest, tok.exp)
      BY <1>2, <2>2, ConsumeFacts
    <3>2. /\ tok.id \notin Unswept(now)
          /\ spent' = [spent EXCEPT ![tok.id] = @ + 1]
          /\ UNCHANGED <<now, latest, epoch, issued>>
      BY <2>2 DEF Consume
    <3>3. spent[tok.id] = 0 \/ latest > tok.exp
      BY <1>2, <3>1, <3>2 DEF TypeOK, Expired
    <3>4. g \in G(issued)
      BY <3>1
    <3>5. Contract!Redeem(g)
      BY <3>1, <3>2, <3>3 DEF Contract!Redeem
    <3> QED
      BY <3>4, <3>5
  <2>3. ASSUME UNCHANGED <<now, latest, epoch, issued, spent>>
        PROVE  UNCHANGED Contract!contractVars
    BY <2>3 DEF Contract!contractVars
  <2>4. ASSUME Restart PROVE Contract!Revoke
    BY <2>4 DEF Restart, Contract!Revoke
  <2>5. ASSUME Tick PROVE Contract!Pass
    BY <1>2, <2>5 DEF Tick, TypeOK, Contract!Pass
  <2>10. ASSUME StepBack PROVE Contract!Pass
    BY <1>2, <2>10 DEF StepBack, TypeOK, Contract!Pass
  <2>6. \A p \in Calls : Consume(p) => UNCHANGED <<now, latest, epoch, issued>>
    BY DEF Consume
  <2>7. \A p \in Calls : CheckExpiry(p) => UNCHANGED <<now, latest, epoch, issued, spent>>
    BY DEF CheckExpiry
  <2>8. \A p \in Calls, tok \in Presentable, op \in Ops :
          BeginVerify(p, tok, op) => UNCHANGED <<now, latest, epoch, issued, spent>>
    BY DEF BeginVerify
  <2>9. UNCHANGED vars => UNCHANGED <<now, latest, epoch, issued, spent>>
    BY DEF vars
  <2> QED
    BY <1>2, <2>1, <2>2, <2>3, <2>4, <2>5, <2>6, <2>7, <2>8, <2>9, <2>10
       DEF Next, Contract!Next
<1> QED
  BY <1>1, <1>2, TypeCorrect, StoreInvariant, PTL
     DEF Spec, ContractSpec, Contract!Spec
==============================================================================
