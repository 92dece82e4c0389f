------------------------------ MODULE WhmcsClient ------------------------------
(***************************************************************************)
(* internal/whmcs/client.go: one Client.Call against a WHMCS that answers  *)
(* late, wrongly or not at all.  The client keeps no state between calls,  *)
(* so one call is the whole component.                                     *)
(*                                                                         *)
(* The environment is the caller's context (cancelled, or past a deadline  *)
(* as under the health check), the network, and WHMCS: a request that was  *)
(* sent may be performed at any later time, also after the client stopped  *)
(* waiting for it, and any answer may follow, except that a "success" body *)
(* comes only from a WHMCS that performed the action.  A 307 or 308 makes  *)
(* http.Client post the same body again, to where it points: one request   *)
(* more on the wire.  Whether what redirects a request has left it alone,  *)
(* as HTTP means it to, is not the client's to decide: passesOn says so,   *)
(* and that a write is performed at most once is claimed where it is true. *)
(* After any other redirect the answer is the answer to a GET, never a     *)
(* success.                                                                *)
(***************************************************************************)
EXTENDS Naturals, FiniteSets

CONSTANTS
  MaxRetries,   \* Config.MaxRetries: retries after the first attempt of a read
  MaxRedirects  \* redirects http.Client follows within one attempt

ASSUME ClientAssumption == MaxRetries \in Nat /\ MaxRedirects \in Nat

VARIABLES
  mutating,   \* registry.Classify(action).Mutating()
  passesOn,   \* what redirects a request does not perform it too
  ctx,        \* the context: "live", "cancelled" or "deadline"
  pc,         \* "attempt", "waiting", "backoff" or "done"
  attempt,    \* loop index of Call
  sent,       \* requests put on the wire; request n is the n-th
  hops,       \* redirects followed in this attempt
  pending,    \* requests that may yet be performed or answered
  performed,  \* requests WHMCS has performed
  reply,      \* answer on its way to the request being waited for
  lastErr,    \* code of the last failed attempt
  result      \* "none", then "ok" or the code Call returned

clientVars == <<mutating, passesOn, ctx, pc, attempt, sent, hops, pending,
                performed, reply, lastErr, result>>

Statuses == {"2xx", "auth", "429", "5xx", "4xx"}

Bodies == {"success", "whmcsError", "noResult", "malformed", "html", "empty",
           "oversize"}

Reply == [status : Statuses, body : Bodies]

NoReply == [status |-> "none", body |-> "none"]

\* errs.Code: what an attempt can fail with.
Codes == {"forbidden", "upstream_unavailable", "invalid_response",
          "response_too_large", "whmcs_error", "cancelled", "timeout"}

\* Mutant: any failure of a read is worth another attempt.
AlwaysRetryable(code) == code # "none"

\* errs.retryable: the single definition of what is worth repeating.
Retryable(code) == code \in {"upstream_unavailable", "timeout"}

\* statusError: judged before the body, although the body is read first.
StatusError(status) ==
  CASE status = "2xx"            -> "none"
    [] status = "auth"           -> "forbidden"
    [] status \in {"429", "5xx"} -> "upstream_unavailable"
    [] OTHER                     -> "invalid_response"

\* Mutant: a 200 is taken for an answer, as in "this client has no invoices".
DecodeByStatus(body) ==
  CASE body = "oversize"   -> "response_too_large"
    [] body = "whmcsError" -> "whmcs_error"
    [] OTHER               -> "none"

\* The size cap, then decode: only a JSON object whose result is "success" is
\* an answer.
Decode(body) ==
  CASE body = "success"    -> "none"
    [] body = "oversize"   -> "response_too_large"
    [] body = "whmcsError" -> "whmcs_error"
    [] OTHER               -> "invalid_response"

\* do: the code of an attempt that got an answer, "none" for success.
Judge(r) ==
  IF StatusError(r.status) # "none" THEN StatusError(r.status) ELSE Decode(r.body)

\* transportError: whose doing a transport failure was.  A cancelled context
\* wins, whatever the error; a timeout, of either kind, comes next.
TransportError(timedOut) ==
  IF ctx = "cancelled" THEN "cancelled"
  ELSE IF timedOut THEN "timeout"
  ELSE "upstream_unavailable"

Init ==
  /\ mutating \in BOOLEAN
  /\ passesOn \in BOOLEAN
  /\ ~mutating => passesOn  \* of reads nothing depends on it
  /\ ctx = "live"
  /\ pc = "attempt"
  /\ attempt = 0
  /\ sent = 0
  /\ hops = 0
  /\ pending = {}
  /\ performed = {}
  /\ reply = NoReply
  /\ lastErr = "none"
  /\ result = "none"

(***************************************************************************)
(* The client.                                                             *)
(***************************************************************************)

\* Call: writes get one attempt, reads MaxRetries more.
Attempts == IF mutating THEN 1 ELSE 1 + MaxRetries

\* Mutant: the class of the action is not consulted.
FailUnclassified(code) ==
  /\ lastErr' = code
  /\ IF Retryable(code) /\ attempt < MaxRetries
     THEN pc' = "backoff" /\ UNCHANGED result
     ELSE pc' = "done" /\ result' = code

\* The end of a failed turn of Call's loop.
FailWith(code) ==
  /\ lastErr' = code
  /\ IF ~mutating /\ Retryable(code) /\ attempt + 1 < Attempts
     THEN pc' = "backoff" /\ UNCHANGED result
     ELSE pc' = "done" /\ result' = code

\* http.Client.Do puts the request on the wire.
Send ==
  /\ pc = "attempt"
  /\ ctx = "live"
  /\ sent' = sent + 1
  /\ pending' = pending \union {sent + 1}
  /\ pc' = "waiting"
  /\ UNCHANGED <<mutating, passesOn, ctx, attempt, hops, performed, reply,
                 lastErr, result>>

\* http.Client.Do fails with nothing on the wire: no connection, or a context
\* that is already done.
DialFails ==
  /\ pc = "attempt"
  /\ \E timedOut \in BOOLEAN : FailWith(TransportError(timedOut))
  /\ UNCHANGED <<mutating, passesOn, ctx, attempt, sent, hops, pending,
                 performed, reply>>

\* The request or the reading of its body breaks off: connection lost, context
\* done.  Whether WHMCS performs it is not known.
BreaksOff ==
  /\ pc = "waiting"
  /\ \E timedOut \in {FALSE, ctx = "deadline"} : FailWith(TransportError(timedOut))
  /\ reply' = NoReply
  /\ UNCHANGED <<mutating, passesOn, ctx, attempt, sent, hops, pending,
                 performed>>

\* What is left to be performed once the request waited for is redirected: not that
\* request, where passesOn is true.
LeftBehind == IF passesOn THEN pending \ {sent} ELSE pending

\* http.Client posts the body again, to where a 307 or 308 points: a write like a
\* read, for the class of the action is not known here.
FollowRedirect ==
  /\ pc = "waiting" /\ sent \in pending
  /\ ctx = "live"
  /\ hops < MaxRedirects
  /\ hops' = hops + 1
  /\ sent' = sent + 1
  /\ pending' = LeftBehind \union {sent + 1}
  /\ UNCHANGED <<mutating, passesOn, ctx, pc, attempt, performed, reply, lastErr,
                 result>>

\* One redirect too many: http.Client gives up, as if WHMCS were out of reach.
RedirectsExhausted ==
  /\ pc = "waiting" /\ sent \in pending
  /\ hops = MaxRedirects
  /\ pending' = LeftBehind
  /\ FailWith(TransportError(FALSE))
  /\ reply' = NoReply
  /\ UNCHANGED <<mutating, passesOn, ctx, attempt, sent, hops, performed>>

\* http.Client.Timeout ends the attempt.
AttemptTimesOut ==
  /\ pc = "waiting"
  /\ FailWith(TransportError(TRUE))
  /\ reply' = NoReply
  /\ UNCHANGED <<mutating, passesOn, ctx, attempt, sent, hops, pending,
                 performed>>

\* do returns with an answer, and Call with it or with the next turn.
Receive ==
  /\ pc = "waiting"
  /\ reply # NoReply
  /\ LET code == Judge(reply)
     IN  IF code = "none"
         THEN /\ pc' = "done"
              /\ result' = "ok"
              /\ UNCHANGED lastErr
         ELSE FailWith(code)
  /\ UNCHANGED <<mutating, passesOn, ctx, attempt, sent, hops, pending,
                 performed, reply>>

\* sleep: the timer fires first.
BackoffEnds ==
  /\ pc = "backoff"
  /\ attempt' = attempt + 1
  /\ pc' = "attempt"
  /\ hops' = 0
  /\ reply' = NoReply
  /\ UNCHANGED <<mutating, passesOn, ctx, sent, pending, performed, lastErr,
                 result>>

\* sleep: the context is done first, whichever way it ended.
BackoffInterrupted ==
  /\ pc = "backoff"
  /\ ctx # "live"
  /\ pc' = "done"
  /\ result' = "cancelled"
  /\ UNCHANGED <<mutating, passesOn, ctx, attempt, sent, hops, pending,
                 performed, reply, lastErr>>

(***************************************************************************)
(* The environment.                                                        *)
(***************************************************************************)

ContextEnds ==
  /\ ctx = "live"
  /\ ctx' \in {"cancelled", "deadline"}
  /\ UNCHANGED <<mutating, passesOn, pc, attempt, sent, hops, pending,
                 performed, reply, lastErr, result>>

\* Something between the client and WHMCS, or WHMCS itself, disposes of request
\* n: performed or not, answered if the client still waits for it.
Dispose(n, done, r) ==
  /\ n \in pending
  /\ r.status = "2xx" /\ r.body = "success" => done
  /\ pending' = pending \ {n}
  /\ performed' = IF done THEN performed \union {n} ELSE performed
  /\ reply' = IF pc = "waiting" /\ n = sent THEN r ELSE reply
  /\ UNCHANGED <<mutating, passesOn, ctx, pc, attempt, sent, hops, lastErr,
                 result>>

\* The call is over.
Returned == pc = "done" /\ UNCHANGED clientVars

Next ==
  \/ Returned
  \/ Send \/ DialFails \/ BreaksOff \/ AttemptTimesOut \/ Receive
  \/ FollowRedirect \/ RedirectsExhausted
  \/ BackoffEnds \/ BackoffInterrupted
  \/ ContextEnds
  \/ \E n \in pending, done \in BOOLEAN, r \in Reply : Dispose(n, done, r)

Spec == Init /\ [][Next]_clientVars

(***************************************************************************)
(* Properties.                                                             *)
(***************************************************************************)

TypeOK ==
  /\ mutating \in BOOLEAN /\ passesOn \in BOOLEAN
  /\ ctx \in {"live", "cancelled", "deadline"}
  /\ pc \in {"attempt", "waiting", "backoff", "done"}
  /\ attempt \in Nat
  /\ sent \in Nat
  /\ hops \in 0..MaxRedirects
  /\ pending \subseteq 1..sent
  /\ performed \subseteq 1..sent
  /\ reply \in Reply \union {NoReply}
  /\ lastErr \in Codes \union {"none"}
  /\ result \in Codes \union {"none", "ok"}

\* "no call site can accidentally make a payment twice": the client sends a write
\* once, and again only where it is redirected.  So however late or often WHMCS acts
\* on what it was sent, it performs the action at most once, if what redirects has
\* left it alone; if not, once more for each redirect, and no retry adds to it.
WriteSentOnce ==
  mutating => /\ sent <= 1 + hops
              /\ Cardinality(performed) <= IF passesOn THEN 1 ELSE 1 + hops

\* Success is the answer of a WHMCS that performed the request the client was
\* waiting for, never a 200 with something else in it.
SuccessWasPerformed == result = "ok" => sent \in performed

\* The retryable codes are the verdict of the last attempt allowed: a read is
\* not given up early.
GivesUpWhenSpent == Retryable(result) => attempt + 1 = Attempts

\* Retries are bounded, are spent only on failures that may pass, and are all
\* spent on those: but for redirects, a request follows another only while attempts
\* remain and after a retryable failure; with the redirects of each attempt there
\* are never more than the two bounds allow; and a retryable code is the verdict of
\* the last attempt allowed.
RetryDiscipline ==
  [][/\ sent' > sent /\ sent > 0 =>
          /\ sent < (1 + MaxRetries) * (1 + MaxRedirects)
          /\ hops' = hops =>
               attempt > 0 /\ lastErr \in {"upstream_unavailable", "timeout"}
     /\ GivesUpWhenSpent']_clientVars

\* No request goes out, and none is redirected, for a caller that has gone.
NoSendAfterCancel == [][sent' > sent => ctx = "live"]_clientVars

\* The call is honest about success, and at most once for writes that what
\* redirects does not perform.
Contract ==
  INSTANCE AtMostOnceCall WITH
    mutating  <- mutating /\ passesOn,
    performed <- Cardinality(performed),
    outcome   <- IF result \in {"none", "ok"} THEN result ELSE "error"

ContractSpec == Contract!Spec
===============================================================================
