--------------------------- MODULE ConfirmContract ---------------------------
(***************************************************************************)
(* What the confirmation store promises its callers, with no keys, MACs,   *)
(* locks or sweeps in sight: a grant is minted for one operation with a    *)
(* deadline within a second of its TTL, a restart revokes every            *)
(* outstanding grant, and a grant is redeemed at most once for as long as  *)
(* no clock has been past its deadline.  The clock may be set to any time  *)
(* at any moment.  ConfirmStore.tla is shown to implement this module.     *)
(***************************************************************************)
EXTENDS Integers

CONSTANTS
  Ids,      \* grant identifiers, never reused
  Ops,      \* operations a grant can be bound to
  TTL,      \* lifetime of a grant, in clock ticks
  Sec       \* ticks in a second: the precision deadlines are kept at

VARIABLES
  now,      \* the clock
  latest,   \* the latest time it has ever shown
  epoch,    \* the running process; a restart starts the next one
  grants,   \* every grant ever minted
  redeemed  \* redeemed[i]: how many times grant i has been redeemed

contractVars == <<now, latest, epoch, grants, redeemed>>

Init ==
  /\ now = 0
  /\ latest = 0
  /\ epoch = 0
  /\ grants = {}
  /\ redeemed = [i \in Ids |-> 0]

Mint(i, op) ==
  /\ \A g \in grants : g.id # i
  /\ \E d \in (now + TTL - Sec + 1)..(now + TTL) :
       grants' = grants \union
                   {[id |-> i, op |-> op, deadline |-> d, epoch |-> epoch]}
  /\ UNCHANGED <<now, latest, epoch, redeemed>>

Redeem(g) ==
  /\ g.epoch = epoch
  /\ redeemed[g.id] = 0 \/ latest > g.deadline
  /\ redeemed' = [redeemed EXCEPT ![g.id] = @ + 1]
  /\ UNCHANGED <<now, latest, epoch, grants>>

Revoke ==
  /\ epoch' = epoch + 1
  /\ UNCHANGED <<now, latest, grants, redeemed>>

\* Time passes, or somebody sets the clock.
Pass ==
  /\ now' \in Nat
  /\ latest' = IF now' > latest THEN now' ELSE latest
  /\ UNCHANGED <<epoch, grants, redeemed>>

Next ==
  \/ \E i \in Ids, op \in Ops : Mint(i, op)
  \/ \E g \in grants : Redeem(g)
  \/ Revoke
  \/ Pass

Spec == Init /\ [][Next]_contractVars
==============================================================================
