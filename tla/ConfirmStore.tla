----------------------------- MODULE ConfirmStore -----------------------------
(***************************************************************************)
(* internal/confirm/confirm.go: the in-memory store that issues and        *)
(* verifies the tokens of the two-step confirmation protocol.              *)
(*                                                                         *)
(* A call inside Verify takes three steps that other calls interleave      *)
(* with: it compares the MAC, it compares the clock with the expiry in the *)
(* token, and only then does it take the lock, sweep, and look itself up   *)
(* in the consumed map.  The clock of the second step and the clock of the *)
(* sweep are two reads of time.Now.                                        *)
(*                                                                         *)
(* Abstractions.  An operation stands for a fingerprint: the action and    *)
(* the canonical arguments.  A MAC is the record of what was signed, so    *)
(* two MACs are equal only when key and message are (HMAC-SHA256 is        *)
(* injective as far as a caller can tell).  Nonces are drawn from Ids and  *)
(* never repeat.  A token stores its expiry as a wall clock second, so     *)
(* every comparison is between readings of the wall clock, which may be    *)
(* set back at any moment.                                                 *)
(***************************************************************************)
EXTENDS Integers

CONSTANTS
  Calls,    \* tool calls that can be inside Verify at the same time
  Ids,      \* nonces
  Ops,      \* fingerprints of an action and its arguments
  TTL,      \* token lifetime, in clock ticks
  Sec,      \* clock ticks in a second
  MaxTime,  \* bound on the clock, for model checking
  MaxEpoch, \* bound on the number of restarts, for model checking
  MaxBack,  \* bound on how often the clock is set back, for model checking
  NoCall    \* a call slot that holds no call yet

ASSUME ConfirmAssumption ==
  /\ TTL \in Nat \ {0}
  /\ Sec \in Nat \ {0}
  /\ MaxTime \in Nat
  /\ MaxEpoch \in Nat
  /\ MaxBack \in Nat
  /\ NoCall \notin [token : [id : Ids, exp : Int,
                            mac : [key : Nat, id : Ids, exp : Int, fp : Ops]],
                    op : Ops, began : Nat]

VARIABLES
  now,      \* time.Now
  latest,   \* the latest time the clock has ever shown (history)
  back,     \* how often the clock has been set back (history)
  epoch,    \* the running process: each has a signing key of its own
  issued,   \* tokens handed to callers, by any process
  lifeEnd,  \* Token.ExpiresAt of each nonce, before it is cut to seconds
  consumed, \* Store.consumed of the running process: nonce -> expiry
  pc,       \* where each call stands in Verify, or how Verify answered it
  call,     \* what each call presents, and the earliest time the clock has
            \* shown since it entered Verify
  spent     \* how many times each nonce has been accepted (history)

vars == <<now, latest, back, epoch, issued, lifeEnd, consumed, pc, call, spent>>

(***************************************************************************)
(* Tokens.                                                                 *)
(***************************************************************************)
Mac == [key : Nat, id : Ids, exp : Int, fp : Ops]

Token == [id : Ids, exp : Int, mac : Mac]

Request == [token : Token, op : Ops, began : Nat]

Answers == {"accepted", "mismatch", "expired", "consumed"}

Inside == {"signed", "live"}

\* Mutant: the arguments are left out of what is signed.
SignActionOnly(key, id, exp, fp) ==
  [key |-> key, id |-> id, exp |-> exp, fp |-> CHOOSE o \in Ops : TRUE]

Sign(key, id, exp, fp) == [key |-> key, id |-> id, exp |-> exp, fp |-> fp]

\* time.Time.Unix drops the fraction of a second.
Unix(t) == (t \div Sec) * Sec

\* Mutant: "not before" where the code has "after".
ExpiredAtExpiry(t, exp) == t >= exp

Expired(t, exp) == t > exp

\* What a caller can put in the three fields of a token: whatever it has seen.
Presentable ==
  [id  : {t.id  : t \in issued},
   exp : {t.exp : t \in issued},
   mac : {t.mac : t \in issued}]

(***************************************************************************)
(* Actions.                                                                *)
(***************************************************************************)
Init ==
  /\ now = 0
  /\ latest = 0
  /\ back = 0
  /\ epoch = 0
  /\ issued = {}
  /\ lifeEnd = [i \in Ids |-> 0]
  /\ consumed = [i \in {} |-> 0]
  /\ pc = [p \in Calls |-> "idle"]
  /\ call = [p \in Calls |-> NoCall]
  /\ spent = [i \in Ids |-> 0]

\* Store.Issue: a fresh nonce, an expiry one TTL away and cut to whole
\* seconds, and a MAC over both and the fingerprint.
Issue(i, op) ==
  /\ \A t \in issued : t.id # i
  /\ LET exp == Unix(now + TTL)
     IN  issued' = issued \union
           {[id |-> i, exp |-> exp, mac |-> Sign(epoch, i, exp, op)]}
  /\ lifeEnd' = [lifeEnd EXCEPT ![i] = now + TTL]
  /\ UNCHANGED <<now, latest, back, epoch, consumed, pc, call, spent>>

\* Store.Verify up to the constant-time comparison of the MAC.
BeginVerify(p, tok, op) ==
  /\ pc[p] \notin Inside
  /\ call' = [call EXCEPT ![p] = [token |-> tok, op |-> op, began |-> now]]
  /\ pc' = [pc EXCEPT ![p] =
              IF tok.mac = Sign(epoch, tok.id, tok.exp, op)
              THEN "signed" ELSE "mismatch"]
  /\ UNCHANGED <<now, latest, back, epoch, issued, lifeEnd, consumed, spent>>

\* The expiry check, outside the lock.
CheckExpiry(p) ==
  /\ pc[p] = "signed"
  /\ pc' = [pc EXCEPT ![p] =
              IF Expired(now, call[p].token.exp) THEN "expired" ELSE "live"]
  /\ UNCHANGED <<now, latest, back, epoch, issued, lifeEnd, consumed, call, spent>>

\* Mutant: the sweep is one tick too eager.
UnsweptBefore(t) == {i \in DOMAIN consumed : t < consumed[i]}

\* sweepLocked: the entries that outlive a sweep at time t.
Unswept(t) == {i \in DOMAIN consumed : ~Expired(t, consumed[i])}

\* Mutant: the sweep and the lookup are there, the insert is forgotten.
ConsumeNothing(p) ==
  /\ pc[p] = "live"
  /\ LET tok == call[p].token
     IN  IF tok.id \in Unswept(now)
         THEN pc' = [pc EXCEPT ![p] = "consumed"] /\ UNCHANGED spent
         ELSE /\ pc' = [pc EXCEPT ![p] = "accepted"]
              /\ spent' = [spent EXCEPT ![tok.id] = @ + 1]
  /\ consumed' = [i \in Unswept(now) |-> consumed[i]]
  /\ UNCHANGED <<now, latest, back, epoch, issued, lifeEnd, call>>

\* The rest of Verify, under the lock: sweep, look up, insert.
Consume(p) ==
  /\ pc[p] = "live"
  /\ LET tok == call[p].token
     IN  IF tok.id \in Unswept(now)
         THEN /\ pc' = [pc EXCEPT ![p] = "consumed"]
              /\ consumed' = [i \in Unswept(now) |-> consumed[i]]
              /\ UNCHANGED spent
         ELSE /\ pc' = [pc EXCEPT ![p] = "accepted"]
              /\ consumed' = [i \in Unswept(now) \union {tok.id} |->
                                IF i = tok.id THEN tok.exp ELSE consumed[i]]
              /\ spent' = [spent EXCEPT ![tok.id] = @ + 1]
  /\ UNCHANGED <<now, latest, back, epoch, issued, lifeEnd, call>>

\* Mutant: the signing key survives the restart, the consumed map does not.
RestartSameKey ==
  /\ consumed' = [i \in {} |-> 0]
  /\ pc' = [p \in Calls |-> "idle"]
  /\ call' = [p \in Calls |-> NoCall]
  /\ UNCHANGED <<now, latest, back, epoch, issued, lifeEnd, spent>>

\* A new process: a new key, an empty map, and no call survives.
Restart ==
  /\ epoch < MaxEpoch
  /\ epoch' = epoch + 1
  /\ consumed' = [i \in {} |-> 0]
  /\ pc' = [p \in Calls |-> "idle"]
  /\ call' = [p \in Calls |-> NoCall]
  /\ UNCHANGED <<now, latest, back, issued, lifeEnd, spent>>

Tick ==
  /\ now < MaxTime
  /\ now' = now + 1
  /\ latest' = IF now' > latest THEN now' ELSE latest
  /\ UNCHANGED <<back, epoch, issued, lifeEnd, consumed, pc, call, spent>>

\* The wall clock is set back, by hand or by its time server.
StepBack ==
  /\ back < MaxBack
  /\ back' = back + 1
  /\ now' \in 0..(now - 1)
  /\ call' = [p \in Calls |->
                IF pc[p] \in Inside /\ now' < call[p].began
                THEN [call[p] EXCEPT !.began = now'] ELSE call[p]]
  /\ UNCHANGED <<latest, epoch, issued, lifeEnd, consumed, pc, spent>>

Next ==
  \/ \E i \in Ids, op \in Ops : Issue(i, op)
  \/ \E p \in Calls, tok \in Presentable, op \in Ops : BeginVerify(p, tok, op)
  \/ \E p \in Calls : CheckExpiry(p) \/ Consume(p)
  \/ Restart
  \/ Tick
  \/ StepBack

Spec == Init /\ [][Next]_vars

(***************************************************************************)
(* Properties.                                                             *)
(***************************************************************************)

\* Every variable keeps its type; the consumed map is a partial map on nonces.
TypeOK ==
  /\ now \in Nat /\ latest \in Nat /\ now <= latest
  /\ back \in Nat
  /\ epoch \in Nat
  /\ issued \subseteq Token
  /\ lifeEnd \in [Ids -> Nat]
  /\ DOMAIN consumed \subseteq Ids
  /\ consumed \in [DOMAIN consumed -> Int]
  /\ pc \in [Calls -> {"idle"} \union Inside \union Answers]
  /\ call \in [Calls -> Request \union {NoCall}]
  /\ \A p \in Calls : pc[p] # "idle" => call[p] \in Request
  /\ spent \in [Ids -> Nat]

\* A token Verify accepts was issued, unaltered, by the running process for
\* the very operation it is presented for: it cannot be moved to another
\* target, pieced together from several tokens, or carried over a restart.  And
\* however long the call waits for the lock, and however the clock is set
\* meanwhile, it was inside Verify at a time within the life the token was
\* promised.
Authorised ==
  \A p \in Calls : pc[p] = "accepted" =>
    /\ call[p].token \in issued
    /\ call[p].token.mac.key = epoch
    /\ call[p].token.mac.fp = call[p].op
    /\ call[p].began <= call[p].token.exp
    /\ call[p].began <= lifeEnd[call[p].token.id]

\* "Every failure mode is a distinct code, because they mean different
\* things": consumed means some call was accepted with that token, expired
\* means the clock has shown a time within a second of the end of the life the
\* token was promised, and mismatch is never said of a token the running
\* process issued for the operation at hand.
RefusalsTruthful ==
  \A p \in Calls :
    /\ pc[p] = "consumed" => spent[call[p].token.id] > 0
    /\ pc[p] = "expired" =>
         /\ latest > call[p].token.exp
         /\ latest > lifeEnd[call[p].token.id] - Sec
    /\ pc[p] = "mismatch" =>
         ~ /\ call[p].token \in issued
           /\ call[p].token.mac.key = epoch
           /\ call[p].token.mac.fp = call[p].op

\* Single use as far as the code guarantees it: a nonce that has been accepted
\* is accepted again only if the clock has shown a time past the expiry of its
\* token.  That takes a call that passed the expiry check before and the lock
\* after it, or a clock set back after a sweep; nothing else lets it happen, and
\* a clock set back with no sweep in between does not.
NoReplayWhileLive ==
  [][\A t \in issued :
       (spent[t.id] > 0 /\ spent'[t.id] > spent[t.id]) => latest > t.exp
    ]_vars

(***************************************************************************)
(* Why they hold: the inductive invariant behind the properties above.     *)
(***************************************************************************)

\* Nonces are unique among tokens, each MAC signs the fields next to it under
\* the key of this process or of an earlier one, and an expiry falls in the
\* last second of the life promised.
IssuedWellSigned ==
  /\ \A t \in issued :
       /\ t.mac = Sign(t.mac.key, t.id, t.exp, t.mac.fp)
       /\ t.mac.key <= epoch
       /\ lifeEnd[t.id] - Sec < t.exp /\ t.exp <= lifeEnd[t.id]
  /\ \A s, t \in issued : s.id = t.id => s = t

\* Past the MAC check a call holds an issued token of this process.
PastMac ==
  \A p \in Calls :
    /\ pc[p] \in {"signed", "live", "accepted", "expired", "consumed"} =>
         /\ call[p].token \in issued
         /\ call[p].token.mac = Sign(epoch, call[p].token.id,
                                     call[p].token.exp, call[p].op)
    /\ pc[p] = "mismatch" =>
         call[p].token.mac # Sign(epoch, call[p].token.id,
                                  call[p].token.exp, call[p].op)

\* What the expiry check told a call is not undone by the passing of time, in
\* either direction.
PastExpiry ==
  \A p \in Calls :
    /\ pc[p] = "signed" => call[p].began <= now
    /\ pc[p] \in {"live", "accepted", "consumed"} =>
         ~Expired(call[p].began, call[p].token.exp)
    /\ pc[p] = "expired" => Expired(latest, call[p].token.exp)
    /\ pc[p] = "consumed" => spent[call[p].token.id] > 0

\* The map and the history agree.  An entry is there only for an accepted
\* nonce and carries its expiry; an accepted nonce of this process is still in
\* the map unless the clock has been past its expiry; a nonce nobody issued is
\* unspent.
MapMatchesHistory ==
  /\ \A i \in DOMAIN consumed :
       /\ spent[i] > 0
       /\ \A t \in issued : t.id = i => consumed[i] = t.exp
  /\ \A t \in issued :
       (spent[t.id] > 0 /\ t.mac.key = epoch) =>
          t.id \in DOMAIN consumed \/ Expired(latest, t.exp)
  /\ \A i \in Ids : (\A t \in issued : t.id # i) => spent[i] = 0

StoreInv == IssuedWellSigned /\ PastMac /\ PastExpiry /\ MapMatchesHistory

\* Types and all of the above, which together no step disturbs: the map of
\* Store.Verify forgets an accepted nonce only when the clock is past its expiry.
IInv == TypeOK /\ StoreInv

\* The store implements the contract its callers rely on.
Contract ==
  INSTANCE ConfirmContract WITH
    grants   <- {[id |-> t.id, op |-> t.mac.fp, deadline |-> t.exp,
                  epoch |-> t.mac.key] : t \in issued},
    redeemed <- spent

ContractSpec == Contract!Spec

\* Single use as confirm.go states it: "it is consumed on first use, so a
\* retried tool call cannot execute the operation twice".
SingleUse == \A i \in Ids : spent[i] <= 1
===============================================================================
