------------------------------- MODULE Lifecycle -------------------------------
(***************************************************************************)
(* cmd/toc-whmcs-mcp/main.go from the end of startup to the exit of the    *)
(* process, around one call of the WHMCS client: the stdio and the HTTP    *)
(* server and the health check, how the caller's context is derived in     *)
(* each of them, and what the end of the process does to the call it       *)
(* meets.  Any call may be the one: it may arrive before or after the      *)
(* signal, or not at all.                                                  *)
(*                                                                         *)
(* External: the MCP library, whose Listen reads until its input ends or   *)
(* its context is done, and which may or may not wait for handlers that    *)
(* run (waits); and net/http, whose Shutdown waits for active connections. *)
(***************************************************************************)
EXTENDS WhmcsClient

VARIABLES
  mode,      \* "stdio", "http" or "healthcheck"
  life,      \* "serving", "eof" (standard input ended), "signalled", "exited"
  exit,      \* "none", then "ok" (status 0) or "failed" (status 1)
  handler,   \* the call: "none", "running", or "returned" with its record written
  stream,    \* http: a client holds an event stream open
  waits      \* stdio: Listen returns only after the handlers it started

lifeVars == <<mode, life, exit, handler, stream, waits>>
vars == <<clientVars, lifeVars>>

Modes == {"stdio", "http", "healthcheck"}

\* run: a health check is one read, begun at once.
LifeInit ==
  /\ Init
  /\ mode \in Modes
  /\ life = "serving"
  /\ exit = "none"
  /\ IF mode = "healthcheck"
     THEN handler = "running" /\ ~mutating
     ELSE handler = "none"
  /\ stream \in {FALSE, mode = "http"}
  /\ waits \in {FALSE, mode = "stdio"}

Exit(status) == life' = "exited" /\ exit' = status

(***************************************************************************)
(* The call.                                                               *)
(***************************************************************************)

Running == handler = "running" /\ life # "exited"

\* A step of Client.Call, which only a process that runs takes.
Process(step) == Running /\ step /\ UNCHANGED lifeVars

Arrive ==
  /\ handler = "none" /\ life \in {"serving", "signalled"}
  /\ handler' = "running"
  /\ UNCHANGED <<clientVars, mode, life, exit, stream, waits>>

Client ==
  \/ Process(Send) \/ Process(DialFails) \/ Process(BreaksOff)
  \/ Process(AttemptTimesOut) \/ Process(Receive)
  \/ Process(FollowRedirect) \/ Process(RedirectsExhausted)
  \/ Process(BackoffEnds) \/ Process(BackoffInterrupted)

\* WHMCS acts on what it was sent also when the process has exited.
Whmcs ==
  /\ \E n \in pending, done \in BOOLEAN, r \in Reply : Dispose(n, done, r)
  /\ UNCHANGED lifeVars

\* The handler returns; its finish record is written before the answer.
Finish ==
  /\ Running /\ pc = "done"
  /\ handler' = "returned"
  /\ UNCHANGED <<clientVars, mode, life, exit, stream, waits>>

\* http: the client closes the connection its request came on.  The health
\* check: its ten seconds are over.
ContextOver ==
  /\ Running /\ mode # "stdio"
  /\ ContextEnds
  /\ ctx' = IF mode = "http" THEN "cancelled" ELSE "deadline"
  /\ UNCHANGED lifeVars

(***************************************************************************)
(* The process.                                                            *)
(***************************************************************************)

\* Mutant: the stdio server listens under context.Background().
SignalKeepsCalls ==
  /\ life \in {"serving", "eof"}
  /\ IF mode = "healthcheck"
     THEN Exit("failed")
     ELSE life' = "signalled" /\ UNCHANGED exit
  /\ UNCHANGED <<clientVars, mode, handler, stream, waits>>

\* SIGINT or SIGTERM.  signal.NotifyContext turns it into the end of the
\* context Listen was given, from which the contexts of stdio calls derive;
\* the contexts of http requests do not.  The health check installs no handler.
Signal ==
  /\ life \in {"serving", "eof"}
  /\ IF mode = "healthcheck"
     THEN Exit("failed")
     ELSE life' = "signalled" /\ UNCHANGED exit
  /\ ctx' = IF mode = "stdio" /\ ctx = "live" THEN "cancelled" ELSE ctx
  /\ UNCHANGED <<mutating, passesOn, pc, attempt, sent, hops, pending, performed,
                 reply, lastErr, result, mode, handler, stream, waits>>

\* stdio: the client closes its end.
InputEnds ==
  /\ mode = "stdio" /\ life = "serving"
  /\ life' = "eof"
  /\ UNCHANGED <<clientVars, mode, exit, handler, stream, waits>>

\* serveStdio: Listen is back, and context.Canceled is no failure.
ListenReturns ==
  /\ mode = "stdio" /\ life \in {"eof", "signalled"}
  /\ waits => handler # "running"
  /\ Exit("ok")
  /\ UNCHANGED <<clientVars, mode, handler, stream, waits>>

\* serveHTTP: ListenAndServe fails.
ServeFails ==
  /\ mode = "http" /\ life = "serving"
  /\ Exit("failed")
  /\ UNCHANGED <<clientVars, mode, handler, stream, waits>>

\* The client closes the stream it held.
StreamCloses ==
  /\ stream /\ life # "exited"
  /\ stream' = FALSE
  /\ UNCHANGED <<clientVars, mode, life, exit, handler, waits>>

\* Mutant: http.Server.Close in place of Shutdown.
ClosesAtOnce ==
  /\ mode = "http" /\ life = "signalled"
  /\ Exit("ok")
  /\ UNCHANGED <<clientVars, mode, handler, stream, waits>>

\* Shutdown finds every connection idle.
ShutdownDone ==
  /\ mode = "http" /\ life = "signalled"
  /\ handler # "running" /\ ~stream
  /\ Exit("ok")
  /\ UNCHANGED <<clientVars, mode, handler, stream, waits>>

\* Mutant: Shutdown under context.Background(), with no grace to run out.
WaitsForever ==
  /\ mode = "http" /\ life = "signalled"
  /\ handler = "running" /\ ~stream
  /\ Exit("failed")
  /\ UNCHANGED <<clientVars, mode, handler, stream, waits>>

\* The 15 seconds are over with a connection still active, by which time a call
\* may have twice as long to go.
GraceOver ==
  /\ mode = "http" /\ life = "signalled"
  /\ handler = "running" \/ stream
  /\ Exit("failed")
  /\ UNCHANGED <<clientVars, mode, handler, stream, waits>>

\* HealthCheck has its answer, and run returns it.
HealthCheckEnds ==
  /\ mode = "healthcheck" /\ life = "serving" /\ handler = "returned"
  /\ Exit(IF result = "ok" THEN "ok" ELSE "failed")
  /\ UNCHANGED <<clientVars, mode, handler, stream, waits>>

Exited == life = "exited" /\ UNCHANGED vars

LifeNext ==
  \/ Arrive \/ Client \/ Whmcs \/ Finish \/ ContextOver
  \/ Signal \/ InputEnds \/ ListenReturns
  \/ ServeFails \/ StreamCloses \/ ShutdownDone \/ GraceOver
  \/ HealthCheckEnds
  \/ Exited

\* A call that runs gets on, as in WhmcsClient, timers go off, and what main
\* waits for is noticed.  Neither WHMCS nor any client is asked for anything.
LifeFairness ==
  /\ WF_vars(Process(Send) \/ Process(DialFails))
  /\ WF_vars(Process(AttemptTimesOut) \/ Process(Receive))
  /\ WF_vars(Process(BackoffEnds))
  /\ WF_vars(Finish)
  /\ WF_vars(ListenReturns)
  /\ WF_vars(ShutdownDone \/ GraceOver)
  /\ WF_vars(HealthCheckEnds)

LifeSpec == LifeInit /\ [][LifeNext]_vars /\ LifeFairness

(***************************************************************************)
(* Properties.                                                             *)
(***************************************************************************)

LifeTypeOK ==
  /\ TypeOK
  /\ mode \in Modes
  /\ life \in {"serving", "eof", "signalled", "exited"}
  /\ exit \in {"none", "ok", "failed"}
  /\ handler \in {"none", "running", "returned"}
  /\ stream \in BOOLEAN
  /\ waits \in BOOLEAN

\* Status 0 is the truth about what was going on.  Of the http server: no call
\* was cut off, every one has its finish record.  Of the stdio server, the same
\* if the library waits for its handlers.  Of the health check: WHMCS performed
\* WhmcsDetails for this credential; being reachable is not enough.
ExitTellsTheTruth ==
  exit = "ok" =>
    /\ mode = "http" \/ waits => handler # "running"
    /\ mode = "healthcheck" => sent \in performed

\* No request goes out, and none is redirected, for a caller that has gone, by a
\* process that has exited, or by a stdio server that was told to stop.
NothingSentForTheGone ==
  [][sent' > sent =>
       /\ ctx = "live"
       /\ life # "exited"
       /\ ~(mode = "stdio" /\ life = "signalled")]_vars

\* A process told to stop stops, whatever WHMCS and its clients do; every call
\* that runs returns or ends with the process; and so does a health check.
Ends ==
  /\ life \in {"eof", "signalled"} ~> life = "exited"
  /\ handler = "running" ~> handler = "returned" \/ life = "exited"
  /\ mode = "healthcheck" ~> life = "exited"
===============================================================================
