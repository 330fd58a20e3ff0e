------------------------------ MODULE Recovery ------------------------------
(***************************************************************************)
(* A supervised dial: recoverer.Do with its restarts (supervisor.go), over  *)
(* the supervisor that runs monty-server as a child process                 *)
(* (supervisor/native).                                                     *)
(*                                                                          *)
(* Several checkouts and rotations of a pool dial at the same time, each    *)
(* in its own Do.  A server listens on a port of its own, so its URL is the *)
(* number of its start.  The supervisor's mutex is held over a whole        *)
(* restart; r.mu only over the map of flights.  Time appears once in the    *)
(* code, in f.completed.After(failedAt): since[c] holds the flights         *)
(* completed after the last failure of c.                                   *)
(***************************************************************************)
EXTENDS Integers, Sequences, FiniteSets

CONSTANTS
  Dialers,        \* calls of Do
  Attempts,       \* RecoveryPolicy.attempts()
  RestartServer,  \* RecoveryPolicy.RestartServer
  MaxStarts       \* bound on server starts

ASSUME RecoveryAssumption ==
  /\ Attempts \in Nat \ {0} /\ RestartServer \in BOOLEAN
  /\ MaxStarts \in Nat \ {0} /\ IsFiniteSet(Dialers)

VARIABLES
  pc,        \* where each Do is
  round,     \* 1 before the restart, 2 after
  tries,     \* attempts of this round
  ep,        \* the endpoint of the attempt
  lastEP,    \* the endpoint of the last failed dial, 0 for ""
  waits,     \* the flight it waits for, 0 for none
  since,     \* flights completed after the last failure
  restarts,  \* URL -> index of its latest flight, 0 for none
  flights,   \* the restart goroutines started so far
  mu,        \* holder of the supervisor's mutex: a flight, or 0
  endpoint,  \* what Endpoint answers
  cmd,       \* the child process the supervisor knows, 0 for nil
  alive,     \* server processes that run
  starts,    \* server starts so far
  closed     \* the supervisor is closed

doVars == <<pc, round, tries, ep, lastEP, waits>>
supVars == <<mu, endpoint, cmd, alive, starts, closed>>
vars == <<doVars, since, restarts, flights, supVars>>

Urls == 1 .. MaxStarts

\* New started the first server; nobody has dialled yet.
Init ==
  /\ pc = [c \in Dialers |-> "endpoint"] /\ round = [c \in Dialers |-> 1]
  /\ tries = [c \in Dialers |-> 0] /\ ep = [c \in Dialers |-> 0]
  /\ lastEP = [c \in Dialers |-> 0] /\ waits = [c \in Dialers |-> 0]
  /\ since = [c \in Dialers |-> {}]
  /\ restarts = [u \in Urls |-> 0] /\ flights = <<>>
  /\ mu = 0 /\ endpoint = 1 /\ cmd = 1 /\ alive = {1} /\ starts = 1
  /\ closed = FALSE

-----------------------------------------------------------------------------
(* Do.                                                                     *)

\* Mutant: one attempt too many.
FailedOneMore(c) ==
  LET over == tries[c] = Attempts IN
  /\ tries' = [tries EXCEPT ![c] = @ + 1]
  /\ since' = [since EXCEPT ![c] = {}]
  /\ pc' = [pc EXCEPT ![c] = IF ~over THEN "endpoint" ELSE "failed"]

\* The loop after a retryable failure: another attempt, a restart, or the end.
Failed(c) ==
  LET over == tries[c] + 1 = Attempts IN
  /\ tries' = [tries EXCEPT ![c] = @ + 1]
  /\ since' = [since EXCEPT ![c] = {}]
  /\ pc' = [pc EXCEPT ![c] =
       IF ~over THEN "endpoint"
       ELSE IF RestartServer /\ round[c] = 1 /\ lastEP'[c] # 0 THEN "restart"
       ELSE "failed"]

Endpoint(c) ==
  /\ pc[c] = "endpoint" /\ mu = 0
  /\ \/ /\ ~closed
        /\ ep' = [ep EXCEPT ![c] = endpoint]
        /\ pc' = [pc EXCEPT ![c] = "dial"]
        /\ UNCHANGED <<tries, lastEP, since>>
     \/ closed /\ lastEP' = lastEP /\ Failed(c) /\ UNCHANGED ep
  /\ UNCHANGED <<round, waits, restarts, flights, supVars>>

\* bind succeeds only against a server that runs; it may fail against any.
Bound(c) ==
  /\ pc[c] = "dial" /\ ep[c] \in alive
  /\ pc' = [pc EXCEPT ![c] = "connected"]
  /\ UNCHANGED <<round, tries, ep, lastEP, waits, since, restarts, flights, supVars>>

BindFails(c) ==
  /\ pc[c] = "dial"
  /\ lastEP' = [lastEP EXCEPT ![c] = ep[c]]
  /\ Failed(c)
  /\ UNCHANGED <<round, ep, waits, restarts, flights, supVars>>

\* A failure no attempt can fix, or the caller's context ends.
GivesUp(c) ==
  /\ pc[c] \in {"endpoint", "dial", "restart", "wait"}
  /\ pc' = [pc EXCEPT ![c] = "failed"]
  /\ UNCHANGED <<round, tries, ep, lastEP, waits, since, restarts, flights, supVars>>

\* Mutant: a flight is not shared while it runs.
restartAlways(c) ==
  LET u == lastEP[c]
      f == restarts[u]
      covered == f # 0 /\ f \in since[c]
  IN
  /\ pc[c] = "restart"
  /\ pc' = [pc EXCEPT ![c] = "wait"]
  /\ waits' = [waits EXCEPT ![c] = IF covered THEN f ELSE Len(flights) + 1]
  /\ restarts' = [restarts EXCEPT ![u] = IF covered THEN @ ELSE Len(flights) + 1]
  /\ flights' = IF covered THEN flights
                ELSE Append(flights, [url |-> u, pc |-> "lock", ok |-> FALSE])
  /\ UNCHANGED <<round, tries, ep, lastEP, since, supVars>>

\* restartOnce: join the flight that covers the failure, or start one.
restartOnce(c) ==
  LET u == lastEP[c]
      f == restarts[u]
      joins == f # 0 /\ (f \in since[c] \/ flights[f].pc # "done")
  IN
  /\ pc[c] = "restart"
  /\ pc' = [pc EXCEPT ![c] = "wait"]
  /\ waits' = [waits EXCEPT ![c] = IF joins THEN f ELSE Len(flights) + 1]
  /\ restarts' = [restarts EXCEPT ![u] = IF joins THEN @ ELSE Len(flights) + 1]
  /\ flights' = IF joins THEN flights
                ELSE Append(flights, [url |-> u, pc |-> "lock", ok |-> FALSE])
  /\ UNCHANGED <<round, tries, ep, lastEP, since, supVars>>

\* Mutant: only a restart that worked wakes its callers.
RestartedIfOk(c) ==
  /\ pc[c] = "wait" /\ flights[waits[c]].pc = "done" /\ flights[waits[c]].ok
  /\ pc' = [pc EXCEPT ![c] = "endpoint"]
  /\ round' = [round EXCEPT ![c] = 2]
  /\ tries' = [tries EXCEPT ![c] = 0]
  /\ UNCHANGED <<ep, lastEP, waits, since, restarts, flights, supVars>>

\* The flight is done: a second round of attempts, or the restart's error.
Restarted(c) ==
  /\ pc[c] = "wait" /\ flights[waits[c]].pc = "done"
  /\ pc' = [pc EXCEPT ![c] = IF flights[waits[c]].ok THEN "endpoint" ELSE "failed"]
  /\ round' = [round EXCEPT ![c] = 2]
  /\ tries' = [tries EXCEPT ![c] = 0]
  /\ UNCHANGED <<ep, lastEP, waits, since, restarts, flights, supVars>>

-----------------------------------------------------------------------------
(* Supervisor.Restart in the goroutine of flight i, and the supervisor.     *)

Fly(i, p, o) == flights' = [flights EXCEPT ![i] = [@ EXCEPT !.pc = p, !.ok = o]]

\* Mutant: whatever runs is replaced, whoever's server failed.
RestartAnything(i) ==
  /\ flights[i].pc = "lock" /\ mu = 0
  /\ IF closed
     THEN Fly(i, "complete", FALSE) /\ UNCHANGED <<mu, cmd, alive>>
     ELSE /\ Fly(i, "start", FALSE)
          /\ mu' = i /\ cmd' = 0 /\ alive' = alive \ {cmd}
  /\ UNCHANGED <<doVars, since, restarts, endpoint, starts, closed>>

\* The mutex is free: refuse, find the server replaced, or stop it (stopLocked).
Restart(i) ==
  /\ flights[i].pc = "lock" /\ mu = 0
  /\ IF closed \/ flights[i].url # endpoint
     THEN Fly(i, "complete", ~closed) /\ UNCHANGED <<mu, cmd, alive>>
     ELSE /\ Fly(i, "start", FALSE)
          /\ mu' = i /\ cmd' = 0 /\ alive' = alive \ {cmd}
  /\ UNCHANGED <<doVars, since, restarts, endpoint, starts, closed>>

\* startLocked spawns the server, which may fail.
spawn(i) ==
  /\ flights[i].pc = "start"
  /\ \/ /\ starts < MaxStarts /\ Fly(i, "ready", FALSE)
        /\ starts' = starts + 1 /\ cmd' = starts + 1
        /\ alive' = alive \cup {starts + 1} /\ UNCHANGED mu
     \/ Fly(i, "complete", FALSE) /\ mu' = 0 /\ UNCHANGED <<starts, cmd, alive>>
  /\ UNCHANGED <<doVars, since, restarts, endpoint, closed>>

\* readBoundURL and waitReady: the server becomes usable and is published, or
\* it is stopped again and Endpoint keeps answering the URL of the one before.
waitReady(i) ==
  /\ flights[i].pc = "ready"
  /\ \/ cmd \in alive /\ Fly(i, "complete", TRUE) /\ endpoint' = cmd /\ UNCHANGED <<cmd, alive>>
     \/ Fly(i, "complete", FALSE) /\ alive' = alive \ {cmd} /\ cmd' = 0 /\ UNCHANGED endpoint
  /\ mu' = 0
  /\ UNCHANGED <<doVars, since, restarts, starts, closed>>

\* The goroutine publishes the result under r.mu.
Complete(i) ==
  /\ flights[i].pc = "complete"
  /\ Fly(i, "done", flights[i].ok)
  /\ since' = [c \in Dialers |-> since[c] \cup {i}]
  /\ UNCHANGED <<doVars, restarts, supVars>>

\* Mutant: Close does not wait for a restart in progress.
CloseUnlocked ==
  /\ ~closed /\ closed' = TRUE /\ cmd' = 0 /\ alive' = alive \ {cmd}
  /\ UNCHANGED <<doVars, since, restarts, flights, mu, endpoint, starts>>

Close ==
  /\ mu = 0 /\ ~closed
  /\ closed' = TRUE /\ cmd' = 0 /\ alive' = alive \ {cmd}
  /\ UNCHANGED <<doVars, since, restarts, flights, mu, endpoint, starts>>

ServerDies ==
  /\ \E u \in alive : alive' = alive \ {u}
  /\ UNCHANGED <<doVars, since, restarts, flights, mu, endpoint, cmd, starts, closed>>

Over ==
  /\ \A c \in Dialers : pc[c] \in {"connected", "failed"}
  /\ \A i \in DOMAIN flights : flights[i].pc = "done"
  /\ UNCHANGED vars

DoNext(c) ==
  Endpoint(c) \/ Bound(c) \/ BindFails(c) \/ restartOnce(c) \/ Restarted(c)

FlightNext(i) == Restart(i) \/ spawn(i) \/ waitReady(i) \/ Complete(i)

Next ==
  \/ \E c \in Dialers : DoNext(c) \/ GivesUp(c)
  \/ \E i \in DOMAIN flights : FlightNext(i)
  \/ Close \/ ServerDies \/ Over

Spec == Init /\ [][Next]_vars

\* Every goroutine runs on: bind is bounded by AttemptTimeout and a start by
\* StartTimeout, so each of them returns.
FairSpec ==
  /\ Spec
  /\ \A c \in Dialers : WF_vars(DoNext(c))
  /\ \A i \in 1 .. Cardinality(Dialers) : WF_vars(i \in DOMAIN flights /\ FlightNext(i))

-----------------------------------------------------------------------------

\* Types; a Do never makes more than its attempts and waits only for a flight
\* that exists.
TypeOK ==
  /\ \A c \in Dialers :
       /\ pc[c] \in {"endpoint", "dial", "restart", "wait", "connected", "failed"}
       /\ round[c] \in {1, 2} /\ tries[c] \in 0 .. Attempts
       /\ lastEP[c] \in {0} \cup Urls
       /\ pc[c] = "wait" => waits[c] \in DOMAIN flights
  /\ mu \in {0} \cup DOMAIN flights /\ endpoint \in Urls /\ cmd \in {0} \cup Urls
  /\ alive \subseteq Urls /\ starts \in Urls /\ closed \in BOOLEAN

\* "Restarts are single-flight per endpoint URL": callers that fail together on
\* one server share one restart of it.
SingleFlight ==
  \A i, j \in DOMAIN flights :
    i # j /\ flights[i].url = flights[j].url
      => flights[i].pc = "done" \/ flights[j].pc = "done"

\* The supervisor never runs two servers, whatever restarts, fails and closes,
\* and once closed it leaves none behind.
OneServer ==
  /\ Cardinality(alive) <= 1
  /\ alive \subseteq {cmd}
  /\ closed => alive = {}

\* A restart only stops the server its caller failed to reach: a flight that
\* comes after another caller's restart leaves the new server, and the sessions
\* on it, alone.
NoCollateralRestart ==
  [][\A i \in DOMAIN flights :
       flights[i].pc = "lock" /\ flights'[i].pc = "start"
         => alive \ alive' \subseteq {flights[i].url}]_vars

\* Every Do returns: nobody waits for ever for a flight or for the mutex.
DoReturns ==
  \A c \in Dialers : <>(pc[c] \in {"connected", "failed"})
=============================================================================
