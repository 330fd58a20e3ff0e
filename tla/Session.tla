------------------------------ MODULE Session ------------------------------
(***************************************************************************)
(* One session of montygo: admission of executions and control operations, *)
(* the drive loop of FeedRun and the snapshot chain of FeedStart, stop      *)
(* requests with their watchdog, Close, and the watcher of the worker       *)
(* (lifecycle.go, stop.go, session_control.go and the drivers in            *)
(* session.go, answer.go and snapshot.go).                                  *)
(*                                                                          *)
(* A critical section of life.mu is one action; stopAtBoundary's, which only *)
(* look, are part of the section after them, which looks again.  What happens *)
(* between two actions (a protocol turn, a host callback, a cancel, a kill)  *)
(* leaves room for every other goroutine.                                    *)
(* Goroutines that work for an execution are its roles: "driver" answers    *)
(* the worker; "stop" is abortPaused started by enterRequestLocked;         *)
(* "control" is what a control operation starts or runs when it releases;   *)
(* "fence" is the tail of terminateSession for a paused execution.          *)
(* Nothing but the phase of the execution keeps them apart.                 *)
(*                                                                          *)
(* Time: of the two deadlines of a stop only the order is kept.  clock is   *)
(* "drain" before requestAt, "due" from requestAt to killAt, "late" after.  *)
(* Payloads, prints and futures are left out.                               *)
(***************************************************************************)
EXTENDS Integers, Sequences, FiniteSets

CONSTANTS
  MaxExec,        \* bound on executions somebody still refers to
  MaxPause,       \* bound on the snapshots of one execution
  Modes,          \* subset of {"run", "snap"}: FeedRun or FeedStart
  Stoppable,      \* whether callers use Run.Stop
  Closers,        \* callers of Session.Close
  Controls,       \* callers of Dump
  Policies,       \* stop policies callers pass, resolved over the session's
  SessionPolicy   \* the policy of a cancelled feed context

ASSUME SessionAssumption ==
  /\ MaxExec \in Nat \ {0} /\ MaxPause \in Nat
  /\ Stoppable \in BOOLEAN /\ Modes \subseteq {"run", "snap"}
  /\ SessionPolicy \in [drain : BOOLEAN, catchable : BOOLEAN]
  /\ Policies \subseteq [drain : BOOLEAN, catchable : BOOLEAN]

Roles == {"driver", "stop", "control", "fence"}
Losses == {"lost", "shutdown", "refused", "noSuspension", "host"}
Causes == Losses \cup {"closed", "killed"}
Phases == {"starting", "preparing", "executing", "callback", "paused",
           "control", "aborting", "finished"}

VARIABLES
  ex,        \* the executions, by a number that stands for their pointer
  current,   \* id of the execution that owns the session, 0 for none
  control,   \* controlDone is open
  closing,   \* a closeAttempt is registered
  terminal,  \* the terminal cause, or "none"
  worker,    \* what the worker does for this session
  reply,     \* a ShutdownDump is queued for the turn in flight
  watch,     \* the goroutine attach starts
  closer,    \* per caller of Close
  ctl        \* per control operation: where it is, and its execution (0 none)

vars == <<ex, current, control, closing, terminal, worker, reply, watch,
          closer, ctl>>

Execs == DOMAIN ex

Idle == [pc |-> "idle", e |-> 0]

\* An execution as reserveExecution leaves it.
NewExecution(mode) ==
  [mode |-> mode, phase |-> "starting", turn |-> FALSE, op |-> TRUE,
   ctx |-> "live", pc |-> [r \in Roles |-> IF r = "driver" THEN "start" ELSE "none"],
   ret |-> [r \in Roles |-> "none"],
   clock |-> "none", requested |-> FALSE, catchable |-> FALSE,
   claimed |-> FALSE, kind |-> "pending",
   delivered |-> FALSE, beforeStart |-> FALSE, aborted |-> FALSE,
   cause |-> "none", err |-> "none",
   step |-> 1, ended |-> FALSE, hooks |-> {}, seq |-> 0]

Init ==
  /\ ex = <<>> /\ current = 0 /\ control = FALSE /\ closing = FALSE
  /\ terminal = "none" /\ worker = "idle" /\ reply = "none"
  /\ watch = "watching"
  /\ closer = [k \in Closers |-> Idle]
  /\ ctl = [d \in Controls |-> Idle]

-----------------------------------------------------------------------------
(* What the critical sections do to an execution x.                        *)

executionErrorLocked(e) ==
  IF terminal # "none" THEN terminal
  ELSE IF ex[e].cause # "none" THEN ex[e].cause
  ELSE IF current # e \/ ex[e].phase = "finished" THEN "stale" ELSE "none"

Leave(x, r, err) == [x EXCEPT !.pc[r] = "finish", !.ret[r] = err]

\* A section keeps e.cancelCallbacks and calls it after the unlock: until then
\* the context is "cancelling".
CancelTaken(x) == [x EXCEPT !.ctx = IF @ = "live" THEN "cancelling" ELSE @]

\* Mutant: a running execution is aborted as if it were paused.
enterRequestAnywhere(x) ==
  IF x.requested THEN x
  ELSE [x EXCEPT !.requested = TRUE, !.ctx = "cancelling", !.phase = "aborting",
                 !.op = TRUE, !.pc["stop"] = "abort"]

\* Mutant: the callback is not cancelled.
enterRequestSilently(x) ==
  LET paused == x.phase = "paused" IN
  IF x.requested THEN x
  ELSE [x EXCEPT !.requested = TRUE,
                 !.phase = IF paused THEN "aborting" ELSE @,
                 !.op = @ \/ paused,
                 !.pc["stop"] = IF paused THEN "abort" ELSE @]

\* A goroutine is started that cancels callbacks and aborts a paused snapshot.
enterRequestLocked(x) ==
  LET paused == x.phase = "paused" IN
  IF x.requested THEN x
  ELSE [CancelTaken(x) EXCEPT
                 !.requested = TRUE,
                 !.phase = IF paused THEN "aborting" ELSE @,
                 !.op = @ \/ paused,
                 !.pc["stop"] = IF paused THEN "abort" ELSE @]

resolveStopLocked(x, kind) ==
  IF x.clock = "none" \/ x.kind # "pending" THEN x
  ELSE [x EXCEPT !.kind = kind]

\* requestStop returns without a request to wait for.
Settled(e) ==
  \/ ex[e].kind # "pending"
  \/ ex[e].phase = "finished"
  \/ ex[e].clock = "none" /\ (current # e \/ ex[e].cause # "none")

\* The first request creates the stop; a later one can only bring it forward.
requestStop(x, p) ==
  LET y == CASE x.clock = "none" ->
                  [x EXCEPT !.clock = IF p.drain THEN "drain" ELSE "due",
                            !.catchable = p.catchable]
             [] x.clock = "drain" /\ ~p.drain -> [x EXCEPT !.clock = "due"]
             [] OTHER -> x
  IN  IF y.clock = "drain" THEN y ELSE enterRequestLocked(y)

\* A step context that ended is noticed before the first send...
stopBeforeStartLocked(x) ==
  LET y == IF x.clock = "none" /\ x.ended
           THEN requestStop(x, [SessionPolicy EXCEPT !.drain = FALSE]) ELSE x
  IN  IF y.requested THEN [Leave(y, "driver", "reason") EXCEPT !.beforeStart = TRUE]
      ELSE y

\* ... and at every host boundary.
stopAtBoundary(x) ==
  IF x.clock = "none" /\ x.ended THEN requestStop(x, SessionPolicy) ELSE x

boundaryStopLocked(x) == x.requested /\ ~x.catchable

\* Mutant: the execution is not told the cause.
FencedWithoutCause(x, c) ==
  LET paused == x.phase = "paused" IN
  [CancelTaken(x) EXCEPT
            !.phase = IF paused THEN "aborting" ELSE @,
            !.op = @ \/ paused, !.pc["fence"] = IF paused THEN "finish" ELSE @]

\* Mutant: the callback of a lost session is not cancelled.
FencedSilently(x, c) ==
  LET paused == x.phase = "paused" IN
  [x EXCEPT !.cause = c, !.phase = IF paused THEN "aborting" ELSE @,
            !.op = @ \/ paused, !.pc["fence"] = IF paused THEN "finish" ELSE @]

\* terminateSession up to the unlock, for the current execution.
Fenced(x, c) ==
  LET paused == x.phase = "paused" IN
  [CancelTaken(x) EXCEPT
            !.cause = c,
            !.phase = IF paused THEN "aborting" ELSE @,
            !.op = @ \/ paused,
            !.pc["fence"] = IF paused THEN "finish" ELSE @]

Cause(c) == IF terminal = "none" THEN c ELSE terminal

\* terminateSession(c) when the executions are xs: the first cause stays.
terminateSession(xs, c) ==
  /\ terminal' = Cause(c)
  /\ ex' = IF current = 0 THEN xs
           ELSE [xs EXCEPT ![current] = Fenced(@, Cause(c))]

rest == <<control, closing, watch, closer, ctl>>

-----------------------------------------------------------------------------
(* Admission and the first send.                                           *)

admissionErrorLocked == terminal # "none" \/ closing

\* Nothing of the session refers to execution e any more: its number is reused.
Forgotten(e) ==
  /\ ex[e].phase = "finished" /\ \A r \in Roles : ex[e].pc[r] = "none"
  /\ ex[e].hooks = {} /\ ~(ex[e].claimed /\ ex[e].kind = "pending")
  /\ \A k \in Closers : closer[k].pc # "idle" => closer[k].e # e

Reserve(mode, e) ==
  /\ e = Len(ex) + 1 \/ (e \in Execs /\ Forgotten(e))
  /\ ~admissionErrorLocked /\ current = 0 /\ ~control
  /\ ex' = [i \in Execs \cup {e} |-> IF i = e THEN NewExecution(mode) ELSE ex[i]]
  /\ current' = e
  /\ UNCHANGED <<terminal, worker, reply, rest>>

At(e, r, pc) == ex[e].pc[r] = pc

\* A driver that meets a terminal cause or a stale execution returns it.
DriverFails(e) ==
  /\ \E pc \in {"start", "prepare", "answer", "advance", "resume"} : At(e, "driver", pc)
  /\ executionErrorLocked(e) # "none"
  /\ ex' = [ex EXCEPT ![e] = Leave(@, "driver", executionErrorLocked(e))]
  /\ UNCHANGED <<current, terminal, worker, reply, rest>>

beginExecution(e) ==
  /\ At(e, "driver", "start") /\ executionErrorLocked(e) = "none"
  /\ LET y == stopBeforeStartLocked(ex[e]) IN
     ex' = [ex EXCEPT ![e] = IF y.beforeStart THEN y
                             ELSE [y EXCEPT !.phase = "preparing",
                                            !.pc["driver"] = "prepare"]]
  /\ UNCHANGED <<current, terminal, worker, reply, rest>>

PrepareFails(e) ==
  /\ At(e, "driver", "prepare")
  /\ ex' = [ex EXCEPT ![e] = Leave(@, "driver", "error")]
  /\ UNCHANGED <<current, terminal, worker, reply, rest>>

\* beginSend, then Checkout.Feed: a request that cannot be encoded is not sent,
\* and a worker with a suspension pending refuses a feed.
beginSend(e) ==
  /\ At(e, "driver", "prepare") /\ executionErrorLocked(e) = "none"
  /\ LET y == stopBeforeStartLocked(ex[e])
         z == [y EXCEPT !.phase = "executing", !.turn = TRUE]
     IN  \/ /\ y.beforeStart
            /\ ex' = [ex EXCEPT ![e] = y] /\ UNCHANGED worker
         \/ /\ ~y.beforeStart /\ worker = "suspended"
            /\ ex' = [ex EXCEPT ![e] = [z EXCEPT !.pc["driver"] = "refused"]]
            /\ UNCHANGED worker
         \/ /\ ~y.beforeStart /\ worker # "suspended"
            /\ ex' = [ex EXCEPT ![e] = Leave(z, "driver", "error")]
            /\ UNCHANGED worker
         \/ /\ ~y.beforeStart /\ worker # "suspended"
            /\ ex' = [ex EXCEPT ![e] = [z EXCEPT !.pc["driver"] = "turn"]]
            /\ worker' = IF worker = "idle" THEN "running" ELSE worker
  /\ UNCHANGED <<current, terminal, reply, rest>>

Refused(e) ==
  /\ At(e, "driver", "refused")
  /\ terminateSession([ex EXCEPT ![e] = Leave(@, "driver", Cause("refused"))], "refused")
  /\ UNCHANGED <<current, worker, reply, rest>>

-----------------------------------------------------------------------------
(* The drive loop.                                                         *)

\* receivedTurn and the dispatch of the event; s.Err() is looked at first.
TurnReturns(e) ==
  /\ At(e, "driver", "turn") /\ worker = "running"
  /\ \/ /\ ex[e].seq < MaxPause \/ ex[e].mode = "run"
        /\ worker' = "suspended"
        /\ ex' = [ex EXCEPT ![e] =
             IF terminal # "none" THEN Leave(@, "driver", terminal)
             ELSE [@ EXCEPT !.pc["driver"] = IF ex[e].mode = "run" THEN "answer"
                                             ELSE "advance"]]
     \/ \E result \in {"value", "error"} :
          /\ worker' = "idle"
          /\ ex' = [ex EXCEPT ![e] = Leave(@, "driver", IF terminal # "none"
                                           THEN terminal ELSE result)]
  /\ UNCHANGED <<current, terminal, reply, rest>>

\* What mapError makes of a turn that ended with the worker.
LossCause == IF reply = "shutdown" THEN "shutdown" ELSE "lost"

TurnLost(e) ==
  /\ At(e, "driver", "turn") /\ worker = "gone"
  /\ terminateSession([ex EXCEPT ![e] = Leave(@, "driver", Cause(LossCause))], LossCause)
  /\ reply' = "none"
  /\ UNCHANGED <<current, worker, rest>>

\* A hostFailure or a failed print target: the worker cannot be answered.
HostFails(e) ==
  /\ At(e, "driver", "answer") \/ At(e, "driver", "advance")
  /\ terminateSession([ex EXCEPT ![e] = Leave(@, "driver", Cause("host"))], "host")
  /\ UNCHANGED <<current, worker, reply, rest>>

\* The boundary sections of answer, callHost, endCallback and beforeResume
\* all start this way; an uncatchable stop leaves for abortExecution.
Boundary(e, from, next) ==
  /\ At(e, "driver", from) /\ executionErrorLocked(e) = "none"
  /\ LET y == stopAtBoundary(ex[e]) IN
     ex' = [ex EXCEPT ![e] = IF boundaryStopLocked(y)
                             THEN [y EXCEPT !.pc["driver"] = "abort"]
                             ELSE next]

beginCallback(e) ==
  /\ Boundary(e, "answer", [stopAtBoundary(ex[e]) EXCEPT
       !.phase = "callback", !.turn = FALSE, !.pc["driver"] = "callback"])
  /\ UNCHANGED <<current, terminal, worker, reply, rest>>

\* Name lookups are answered without calling the host.
AnswerDirectly(e) ==
  /\ Boundary(e, "answer", [stopAtBoundary(ex[e]) EXCEPT !.pc["driver"] = "resume"])
  /\ UNCHANGED <<current, terminal, worker, reply, rest>>

\* The answer is sent, or needs the host once more: an OS call that no mount
\* answers goes to the OS handler.
endCallback(e) ==
  /\ At(e, "driver", "callback")
  /\ \E next \in {"resume", "answer"} :
       ex' = [ex EXCEPT ![e] =
         LET z == [ex[e] EXCEPT !.phase = "executing"]
             y == stopAtBoundary(z)
         IN  IF executionErrorLocked(e) # "none"
             THEN Leave(z, "driver", executionErrorLocked(e))
             ELSE [y EXCEPT !.pc["driver"] = IF boundaryStopLocked(y) THEN "abort"
                                             ELSE next]]
  /\ UNCHANGED <<current, terminal, worker, reply, rest>>

\* Checkout.Resume answers the suspension; the request may prove unsendable.
SendResume(e, y) ==
  \/ /\ ex' = [ex EXCEPT ![e] = [y EXCEPT !.pc["driver"] = "turn"]]
     /\ worker' = IF worker = "suspended" THEN "running" ELSE worker
  \/ /\ ex' = [ex EXCEPT ![e] = Leave(y, "driver", "error")]
     /\ UNCHANGED worker

beforeResume(e) ==
  /\ At(e, "driver", "resume") /\ executionErrorLocked(e) = "none"
  /\ LET y == stopAtBoundary(ex[e])
         z == [y EXCEPT !.phase = "executing", !.turn = TRUE]
     IN  \/ /\ boundaryStopLocked(y)
            /\ ex' = [ex EXCEPT ![e] = [y EXCEPT !.pc["driver"] = "abort"]]
            /\ UNCHANGED worker
         \/ /\ y.requested /\ y.catchable /\ ~y.delivered
            /\ ex' = [ex EXCEPT ![e] = [z EXCEPT !.pc["driver"] = "deliver"]]
            /\ UNCHANGED worker
         \/ /\ ~y.requested \/ (y.catchable /\ y.delivered)
            /\ SendResume(e, z)
  /\ UNCHANGED <<current, terminal, reply, rest>>

\* The catchable reason replaces the answer, and callbacks get a live context.
deliverStop(e) ==
  /\ At(e, "driver", "deliver")
  /\ SendResume(e, [ex[e] EXCEPT !.delivered = TRUE, !.ctx = "live"])
  /\ UNCHANGED <<current, terminal, reply, rest>>

-----------------------------------------------------------------------------
(* The snapshot chain of FeedStart.                                        *)

\* advance on a suspension: stopAtBoundary, then publishPause.  A requested
\* stop, catchable or not, is an abort here.
publishPause(e) ==
  /\ At(e, "driver", "advance") /\ executionErrorLocked(e) = "none"
  /\ LET y == stopAtBoundary(ex[e]) IN
     ex' = [ex EXCEPT ![e] =
       IF y.requested THEN [y EXCEPT !.pc["driver"] = "abort"]
       ELSE [y EXCEPT !.seq = @ + 1, !.phase = "paused",
                      !.turn = FALSE, !.op = FALSE, !.pc["driver"] = "none"]]
  /\ UNCHANGED <<current, terminal, worker, reply, rest>>

\* Mutant: a snapshot can be claimed while a control operation uses it.
snapshotErrorAnyPhase(e, k) ==
  executionErrorLocked(e) # "none" \/ k # ex[e].seq \/ admissionErrorLocked

snapshotErrorLocked(e, k) ==
  \/ executionErrorLocked(e) # "none"
  \/ k # ex[e].seq
  \/ ex[e].phase # "paused"
  \/ admissionErrorLocked

\* Resume* on the k-th snapshot of e; ResumeAuto enters the answerer instead.
claimSnapshot(e, k) ==
  /\ ~snapshotErrorLocked(e, k)
  /\ \E pc \in {"resume", "answer"} :
       ex' = [ex EXCEPT ![e] = [@ EXCEPT !.phase = "executing", !.op = TRUE,
                                         !.step = @ + 1, !.ended = FALSE,
                                         !.pc["driver"] = pc]]
  /\ UNCHANGED <<current, terminal, worker, reply, rest>>

-----------------------------------------------------------------------------
(* Stopping.                                                               *)

\* The context of the current step ends; its AfterFunc is started.
StepContextEnds(e) ==
  /\ ~ex[e].ended /\ ex[e].phase # "finished"
  /\ ex' = [ex EXCEPT ![e].ended = TRUE,
                      ![e].hooks = @ \cup {[step |-> ex[e].step, checked |-> FALSE]}]
  /\ UNCHANGED <<current, terminal, worker, reply, rest>>

\* requestStopForStep looks for a stale step in one critical section...
requestStopForStep(e, h) ==
  /\ h \in ex[e].hooks /\ ~h.checked
  /\ ex' = [ex EXCEPT ![e].hooks = (@ \ {h}) \cup
       IF h.step # ex[e].step \/ ex[e].phase = "finished" THEN {}
       ELSE {[h EXCEPT !.checked = TRUE]}]
  /\ UNCHANGED <<current, terminal, worker, reply, rest>>

\* ... and requests the stop in the next.
HookStops(e, h) ==
  /\ h \in ex[e].hooks /\ h.checked
  /\ LET y == [ex[e] EXCEPT !.hooks = @ \ {h}] IN
     ex' = [ex EXCEPT ![e] = IF Settled(e) THEN y ELSE requestStop(y, SessionPolicy)]
  /\ UNCHANGED <<current, terminal, worker, reply, rest>>

\* Time passes for an unresolved stop.
Tick(e) ==
  /\ ex[e].clock \in {"drain", "due"} /\ ex[e].kind = "pending"
  /\ ex' = [ex EXCEPT ![e].clock = IF @ = "drain" THEN "due" ELSE "late"]
  /\ UNCHANGED <<current, terminal, worker, reply, rest>>

\* The watchdog at requestAt.
WatchRequest(e) ==
  /\ ex[e].clock \in {"due", "late"} /\ ex[e].kind = "pending" /\ ~ex[e].requested
  /\ ex[e].phase # "finished"
  /\ ex' = [ex EXCEPT ![e] = enterRequestLocked(@)]
  /\ UNCHANGED <<current, terminal, worker, reply, rest>>

\* Mutant: the kill does not fence the execution.
ForceUnfenced(e, x) ==
  IF x.kind # "pending" \/ x.claimed THEN x
  ELSE IF current # e \/ x.phase = "finished" \/ terminal # "none"
  THEN resolveStopLocked(x, "finished")
  ELSE [CancelTaken(x) EXCEPT !.claimed = TRUE]

\* Mutant: the kill does not look for an earlier terminal cause.
ForceOverwrites(e, x) ==
  IF x.kind # "pending" \/ x.claimed THEN x
  ELSE IF current # e \/ x.phase = "finished" THEN resolveStopLocked(x, "finished")
  ELSE [CancelTaken(x) EXCEPT !.claimed = TRUE, !.cause = "killed"]

\* forceExecution up to the unlock, of an execution x in place of ex[e].
Force(e, x) ==
  IF x.kind # "pending" \/ x.claimed THEN x
  ELSE IF current # e \/ x.phase = "finished" \/ terminal # "none"
  THEN resolveStopLocked(x, "finished")
  ELSE [CancelTaken(x) EXCEPT !.claimed = TRUE, !.cause = "killed"]

ForceCause(e, x) ==
  IF Force(e, x).claimed /\ ~x.claimed THEN "killed" ELSE terminal

\* The watchdog at killAt.
WatchForce(e) ==
  /\ ex[e].clock = "late" /\ ex[e].requested
  /\ ex[e].kind = "pending" /\ ~ex[e].claimed
  /\ ex' = [ex EXCEPT ![e] = Force(e, @)]
  /\ terminal' = ForceCause(e, ex[e])
  /\ UNCHANGED <<current, worker, reply, rest>>

\* The goroutine that kept the cancel function calls it.
Cancel(e) ==
  /\ ex[e].ctx = "cancelling"
  /\ ex' = [ex EXCEPT ![e].ctx = "cancelled"]
  /\ UNCHANGED <<current, terminal, worker, reply, rest>>

\* forceExecution after its cancel: Terminate, then the stop is resolved.
ForceKill(e) ==
  /\ ex[e].claimed /\ ex[e].kind = "pending" /\ ex[e].ctx # "cancelling"
  /\ worker' = IF worker = "released" THEN worker ELSE "gone"
  /\ ex' = [ex EXCEPT ![e] = resolveStopLocked(@, "killed")]
  /\ UNCHANGED <<current, terminal, reply, rest>>

\* Every other terminateSession kills the worker after its cancel too.
Terminate ==
  /\ terminal # "none" /\ worker \notin {"gone", "released"}
  /\ current # 0 => ex[current].ctx # "cancelling"
  /\ worker' = "gone"
  /\ UNCHANGED <<ex, current, terminal, reply, rest>>

\* abortExecution sends AbortFeed; the checkout refuses without a suspension.
\* enterRequestLocked's goroutine has cancelled the callbacks first.
abortExecution(e, r) ==
  /\ At(e, r, "abort") /\ (r = "stop" => ex[e].ctx # "cancelling")
  /\ IF executionErrorLocked(e) # "none"
     THEN /\ ex' = [ex EXCEPT ![e] = Leave(@, r, executionErrorLocked(e))]
          /\ UNCHANGED worker
     ELSE /\ ex' = [ex EXCEPT ![e] = [@ EXCEPT !.phase = "aborting", !.turn = TRUE,
                      !.pc[r] = IF worker \in {"idle", "running"} THEN "unanswerable"
                                ELSE "abortTurn"]]
          /\ worker' = IF worker = "suspended" THEN "running" ELSE worker
  /\ UNCHANGED <<current, terminal, reply, rest>>

\* The worker answers AbortFeed with Error and keeps the session.
Aborted(e, r) ==
  /\ At(e, r, "abortTurn") /\ worker = "running"
  /\ worker' = "idle"
  /\ ex' = [ex EXCEPT ![e] = IF terminal # "none" THEN Leave(@, r, terminal)
                             ELSE [Leave(@, r, "reason") EXCEPT !.aborted = TRUE]]
  /\ UNCHANGED <<current, terminal, reply, rest>>

\* The abort turn meets the kill deadline: the checkout discards the worker.
AbortExpires(e, r) ==
  /\ At(e, r, "abortTurn") /\ ex[e].clock = "late"
  /\ worker' = "gone"
  /\ terminal' = ForceCause(e, ex[e])
  /\ ex' = [ex EXCEPT ![e] = Leave(Force(e, @), r, terminal')]
  /\ reply' = "none"
  /\ UNCHANGED <<current, rest>>

\* Any other end of the abort turn is a loss, unless s.Err() has a cause already...
AbortFails(e, r) ==
  /\ \/ At(e, r, "abortTurn") /\ worker = "gone"
     \/ At(e, r, "unanswerable")
  /\ LET c == IF At(e, r, "unanswerable") THEN "noSuspension" ELSE LossCause IN
     ex' = [ex EXCEPT ![e] = IF terminal # "none" THEN Leave(@, r, terminal)
                             ELSE [@ EXCEPT !.pc[r] = "abortFailed", !.ret[r] = c]]
  /\ reply' = "none"
  /\ UNCHANGED <<current, terminal, worker, rest>>

\* ... it ends the session, for this cause or one that came first...
AbortLoses(e, r) ==
  /\ At(e, r, "abortFailed")
  /\ LET c == ex[e].ret[r] IN
     terminateSession([ex EXCEPT ![e] = [@ EXCEPT !.pc[r] = "abortLost",
                                                  !.ret[r] = Cause(c)]], c)
  /\ UNCHANGED <<current, worker, reply, rest>>

\* ... and, once the worker is dead, the stop is resolved as finished, also when
\* forceExecution has claimed it meanwhile.
AbortSettles(e, r) ==
  /\ At(e, r, "abortLost")
  /\ ex[e].ctx # "cancelling" /\ worker \in {"gone", "released"}
  /\ ex' = [ex EXCEPT ![e] =
       resolveStopLocked([@ EXCEPT !.pc[r] = "finish"], "finished")]
  /\ UNCHANGED <<current, terminal, worker, reply, rest>>

\* Mutant: the result is not stored.
FinishedWithoutResult(x, r, err) ==
  IF x.phase = "finished" THEN [x EXCEPT !.pc[r] = "none", !.ret[r] = "none"]
  ELSE resolveStopLocked([x EXCEPT !.phase = "finished", !.turn = FALSE, !.op = FALSE,
                            !.ctx = "cancelled", !.pc[r] = "none", !.ret[r] = "none"],
                         "finished")

\* finishExecution of x with err, by role r.
Finished(x, r, err) ==
  LET y == [x EXCEPT !.phase = "finished", !.turn = FALSE, !.op = FALSE,
                     !.ctx = "cancelled", !.pc[r] = "none", !.ret[r] = "none",
                     !.err = IF x.cause # "none" THEN x.cause ELSE err]
      reasonEnded == x.beforeStart \/ x.aborted \/ (x.delivered /\ y.err # "value")
  IN  IF x.phase = "finished" THEN [x EXCEPT !.pc[r] = "none", !.ret[r] = "none"]
      ELSE IF x.claimed THEN y
      ELSE resolveStopLocked(y, IF reasonEnded THEN "aborted" ELSE "finished")

\* The fence of terminateSession finishes the execution after the kill.
finishExecution(e, r) ==
  /\ At(e, r, "finish")
  /\ r = "fence" => ex[e].ctx # "cancelling" /\ worker \in {"gone", "released"}
  /\ ex' = [ex EXCEPT ![e] = Finished(@, r, IF r = "fence" THEN terminal ELSE ex[e].ret[r])]
  /\ current' = IF current = e /\ ex[e].phase # "finished" THEN 0 ELSE current
  /\ UNCHANGED <<terminal, worker, reply, rest>>

-----------------------------------------------------------------------------
(* Control operations, Close, and the callers of Stop.                     *)

\* reserveControl for e = current (a paused execution, or 0 for none).
ControlBegin(d) ==
  /\ ctl[d].pc = "idle"
  /\ ~admissionErrorLocked /\ ~control
  /\ current # 0 => ex[current].phase = "paused"
  /\ ctl' = [ctl EXCEPT ![d] = [pc |-> "turn", e |-> current]]
  /\ control' = (current = 0)
  /\ ex' = IF current = 0 THEN ex
           ELSE [ex EXCEPT ![current].phase = "control", ![current].turn = TRUE,
                           ![current].op = TRUE]
  /\ UNCHANGED <<current, closing, terminal, worker, reply, watch, closer>>

\* The turn of the operation returns, with the worker or without it.
ControlReturns(d) ==
  /\ ctl[d].pc = "turn"
  /\ ctl' = [ctl EXCEPT ![d].pc = "release"]
  /\ \/ worker # "gone" /\ UNCHANGED <<ex, terminal, reply>>
     \/ worker = "gone" /\ terminateSession(ex, LossCause) /\ reply' = "none"
  /\ UNCHANGED <<current, control, closing, worker, watch, closer>>

\* The release reserveControl returned: a stop that came meanwhile is carried out.
ControlRelease(d) ==
  LET e == ctl[d].e
      again == terminal # "none" \/ ex[e].clock # "none"
  IN
  /\ ctl[d].pc = "release"
  /\ ctl' = [ctl EXCEPT ![d] = Idle]
  /\ control' = (control /\ e # 0)
  /\ ex' = IF e = 0 THEN ex
           ELSE [ex EXCEPT ![e] =
                  [@ EXCEPT !.turn = FALSE, !.op = again,
                            !.phase = IF again THEN "aborting" ELSE "paused",
                            !.ret["control"] = terminal,
                            !.pc["control"] = IF terminal # "none" THEN "finish"
                                              ELSE IF again THEN "abort" ELSE @]]
  /\ UNCHANGED <<current, closing, terminal, worker, reply, watch, closer>>

\* Close: registers the attempt, and stops a running execution first.
CloseBegin(k) ==
  /\ closer[k].pc = "idle" /\ terminal = "none" /\ ~closing
  /\ closing' = TRUE
  /\ closer' = [closer EXCEPT ![k] =
       [pc |-> IF current # 0 /\ ex[current].phase # "paused" THEN "stop" ELSE "owned",
        e |-> current]]
  /\ UNCHANGED <<ex, current, control, terminal, worker, reply, watch, ctl>>

CloseStops(k, p) ==
  LET e == closer[k].e IN
  /\ closer[k].pc = "stop"
  /\ closer' = [closer EXCEPT ![k].pc = IF Settled(e) THEN "owned" ELSE "stopping"]
  /\ ex' = [ex EXCEPT ![e] = IF Settled(e) THEN @ ELSE requestStop(@, p)]
  /\ UNCHANGED <<current, control, closing, terminal, worker, reply, watch, ctl>>

\* Run.Stop returns to Close; after a kill it may stop joining the callback.
CloseStopped(k) ==
  LET x == ex[closer[k].e] IN
  /\ closer[k].pc = "stopping" /\ x.kind # "pending"
  /\ x.phase = "finished" \/ x.kind = "killed"
  /\ closer' = [closer EXCEPT ![k].pc = "owned"]
  /\ UNCHANGED <<ex, current, control, closing, terminal, worker, reply, watch, ctl>>

\* The caller's context ends while Run.Stop waits, or before it requested anything:
\* either way it returns StopPending, and the rest is left to finishClose.
CloseGivesUp(k) ==
  /\ \/ closer[k].pc = "stop"
     \/ closer[k].pc = "stopping" /\ ex[closer[k].e].kind # "killed"
  /\ closer' = [closer EXCEPT ![k].pc = "background"]
  /\ UNCHANGED <<ex, current, control, closing, terminal, worker, reply, watch, ctl>>

\* finishClose waits for the run to end.
finishClose(k) ==
  /\ closer[k].pc = "background" /\ ex[closer[k].e].phase = "finished"
  /\ closer' = [closer EXCEPT ![k].pc = "owned"]
  /\ UNCHANGED <<ex, current, control, closing, terminal, worker, reply, watch, ctl>>

\* closeOwned returns: the session is over, ...
CloseOver(k) ==
  /\ closer[k].pc = "owned" /\ terminal # "none"
  /\ closer' = [closer EXCEPT ![k] = [pc |-> "settle", e |-> 0]]
  /\ UNCHANGED <<ex, current, control, closing, terminal, worker, reply, watch, ctl>>

\* ... or its context ended.
CloseExpires(k) ==
  /\ closer[k].pc = "owned"
  /\ closer' = [closer EXCEPT ![k] = [pc |-> "settle", e |-> 0]]
  /\ UNCHANGED <<ex, current, control, closing, terminal, worker, reply, watch, ctl>>

\* closeOwned takes the session once no operation has it.
closeOwned(k) ==
  /\ closer[k].pc = "owned" /\ terminal = "none"
  /\ IF current = 0 THEN ~control ELSE ~ex[current].op
  /\ closer' = [closer EXCEPT ![k] = [pc |-> "finishing", e |-> current]]
  /\ control' = (control \/ current = 0)
  /\ ex' = IF current = 0 THEN ex
           ELSE [ex EXCEPT ![current].phase = "control",
                           ![current].turn = TRUE, ![current].op = TRUE]
  /\ UNCHANGED <<current, closing, terminal, worker, reply, watch, ctl>>

\* Checkout.Finish returned: the worker is back in the pool, its Reset failed, or
\* it is a lost connection, which Finish gives back without a turn.
CloseFinishes(k) ==
  LET e == closer[k].e IN
  /\ closer[k].pc = "finishing"
  /\ \/ /\ worker # "gone"
        /\ terminateSession(ex, "closed")
        /\ worker' = "released" /\ UNCHANGED reply
     \/ /\ worker = "gone"
        /\ \E c \in {"lost", "closed"} : terminateSession(ex, c)
        /\ UNCHANGED <<worker, reply>>
  /\ closer' = [closer EXCEPT ![k].pc = "leaving"]
  /\ UNCHANGED <<current, control, closing, watch, ctl>>

CloseLeaves(k) ==
  LET e == closer[k].e IN
  /\ closer[k].pc = "leaving"
  /\ control' = (control /\ e # 0)
  /\ ex' = IF e = 0 THEN ex ELSE [ex EXCEPT ![e] = Finished(@, "control", terminal)]
  /\ current' = IF current = e THEN 0 ELSE current
  /\ closer' = [closer EXCEPT ![k] = [pc |-> "settle", e |-> 0]]
  /\ UNCHANGED <<closing, terminal, worker, reply, watch, ctl>>

\* Mutant: the attempt stays registered.
settleCloseForgets(k) ==
  /\ closer[k].pc = "settle"
  /\ closer' = [closer EXCEPT ![k] = Idle]
  /\ UNCHANGED <<ex, current, control, closing, terminal, worker, reply, watch, ctl>>

settleClose(k) ==
  /\ closer[k].pc = "settle"
  /\ closing' = FALSE
  /\ closer' = [closer EXCEPT ![k] = Idle]
  /\ UNCHANGED <<ex, current, control, terminal, worker, reply, watch, ctl>>

\* Close(ctx, KillNow), from anywhere, at any time.
CloseKillNow ==
  /\ Closers # {} /\ terminal = "none"
  /\ terminateSession(ex, "closed")
  /\ UNCHANGED <<current, worker, reply, rest>>

\* Run.Stop(e, p) by any caller, again and again.  What follows is a wait that
\* changes nothing: for the run to end, for Join after a kill, or for the
\* caller's own context.  A settled stop is answered at once.
Stop(e, p) ==
  /\ Stoppable /\ ~Settled(e)
  /\ ex' = [ex EXCEPT ![e] = requestStop(@, p)]
  /\ UNCHANGED <<current, terminal, worker, reply, rest>>

-----------------------------------------------------------------------------
(* The worker, and the goroutine attach starts to watch it.                *)

\* A turn a server can answer with its dump; Finish has none with a connection.
InFlight ==
  \/ \E e \in Execs, r \in Roles : At(e, r, "turn") \/ At(e, r, "abortTurn")
  \/ \E d \in Controls : ctl[d].pc = "turn"

\* The worker ends; to a turn in flight a server may still have sent its dump.
WorkerEnds ==
  /\ worker \notin {"gone", "released"}
  /\ worker' = "gone"
  /\ reply' \in IF InFlight THEN {"none", "shutdown"} ELSE {"none"}
  /\ UNCHANGED <<ex, current, terminal, rest>>

\* Mutant: only control operations are waited for.
WatchWaitsForControl == control

\* The channel the watcher would wait for is open: a protocol owner will read
\* and classify what the worker sent.
WatchWaits == IF current # 0 THEN ex[current].turn ELSE control

\* Mutant: only a session without an execution is watched.
WatchCheckIdle ==
  /\ watch = "watching" /\ worker = "gone"
  /\ terminal # "none" \/ (~WatchWaits /\ current = 0)
  /\ watch' = IF terminal # "none" THEN "done" ELSE "report"
  /\ UNCHANGED <<ex, current, control, closing, terminal, worker, reply, closer, ctl>>

WatchCheck ==
  /\ watch = "watching" /\ worker = "gone"
  /\ terminal # "none" \/ ~WatchWaits
  /\ watch' = IF terminal # "none" THEN "done" ELSE "report"
  /\ UNCHANGED <<ex, current, control, closing, terminal, worker, reply, closer, ctl>>

WatchReports ==
  /\ watch = "report"
  /\ terminateSession(ex, "lost")
  /\ watch' = "done"
  /\ UNCHANGED <<current, control, closing, worker, reply, closer, ctl>>

-----------------------------------------------------------------------------

\* Everything is over: the session is terminal and no goroutine is left.
Over ==
  /\ terminal # "none" /\ worker \in {"gone", "released"} /\ watch # "report"
  /\ \A e \in Execs : /\ \A r \in Roles : At(e, r, "none")
                      /\ ex[e].hooks = {} /\ ~(ex[e].claimed /\ ex[e].kind = "pending")
  /\ \A d \in Controls : ctl[d].pc = "idle"
  /\ \A k \in Closers : closer[k].pc = "idle"
  /\ UNCHANGED vars

DriverNext(e) ==
  \/ DriverFails(e) \/ beginExecution(e) \/ PrepareFails(e) \/ beginSend(e)
  \/ Refused(e) \/ TurnLost(e) \/ HostFails(e)
  \/ beginCallback(e) \/ AnswerDirectly(e) \/ beforeResume(e) \/ deliverStop(e)
  \/ publishPause(e)

RoleNext(e, r) ==
  \/ abortExecution(e, r) \/ Aborted(e, r) \/ AbortExpires(e, r)
  \/ AbortFails(e, r) \/ AbortLoses(e, r) \/ AbortSettles(e, r)
  \/ finishExecution(e, r)

StopNext(e) ==
  \/ Tick(e) \/ WatchRequest(e) \/ WatchForce(e) \/ ForceKill(e)
  \/ Cancel(e)
  \/ \E h \in ex[e].hooks : requestStopForStep(e, h) \/ HookStops(e, h)

ControlNext(d) == ControlBegin(d) \/ ControlReturns(d) \/ ControlRelease(d)

CloseNext(k) ==
  \/ CloseBegin(k) \/ \E p \in Policies : CloseStops(k, p)
  \/ CloseStopped(k) \/ CloseGivesUp(k) \/ finishClose(k)
  \/ CloseOver(k) \/ CloseExpires(k) \/ closeOwned(k)
  \/ CloseFinishes(k) \/ CloseLeaves(k) \/ settleClose(k)

WatchNext == WatchCheck \/ WatchReports

Next ==
  \/ \E mode \in Modes, e \in 1 .. MaxExec : Reserve(mode, e)
  \/ \E e \in Execs :
       \/ DriverNext(e) \/ StopNext(e) \/ StepContextEnds(e)
       \/ TurnReturns(e) \/ endCallback(e)
       \/ \E r \in Roles : RoleNext(e, r)
       \/ \E n \in 1 .. ex[e].seq : claimSnapshot(e, n)
  \/ \E d \in Controls : ControlNext(d)
  \/ \E k \in Closers : CloseNext(k)
  \/ \E e \in Execs, p \in Policies : Stop(e, p)
  \/ CloseKillNow \/ Terminate \/ WorkerEnds \/ WatchNext \/ Over

Spec == Init /\ [][Next]_vars

-----------------------------------------------------------------------------
(* Safety.                                                                 *)

DriverPcs == {"none", "start", "prepare", "refused", "turn", "answer", "callback",
              "resume", "deliver", "advance", "abort", "abortTurn", "unanswerable",
              "abortFailed", "abortLost", "finish"}
Results == Causes \cup {"none", "value", "error", "reason", "stale"}

\* Types of the session's state; ids are dense and current is one of them.
TypeOK ==
  /\ current \in {0} \cup Execs /\ control \in BOOLEAN /\ closing \in BOOLEAN
  /\ terminal \in Causes \cup {"none"}
  /\ worker \in {"idle", "running", "suspended", "gone", "released"}
  /\ reply \in {"none", "shutdown"} /\ watch \in {"watching", "report", "done"}
  /\ \A e \in Execs :
       /\ ex[e].phase \in Phases
       /\ ex[e].pc \in [Roles -> DriverPcs] /\ ex[e].ret \in [Roles -> Results]
       /\ ex[e].clock \in {"none", "drain", "due", "late"}
       /\ ex[e].kind \in {"pending", "aborted", "killed", "finished"}
       /\ ex[e].phase = "finished" <=> ex[e].err # "none"

Users ==
  {<<e, r>> \in Execs \X Roles : At(e, r, "turn") \/ At(e, r, "abortTurn")}
    \cup {<<0, d>> : d \in {x \in Controls : ctl[x].pc = "turn"}}
    \cup {<<0, k>> : k \in {x \in Closers : closer[x].pc = "finishing"}}

\* "One durable execution owns the session": drivers, aborts, control operations
\* and Close never use the worker at the same time, an execution has at most one
\* goroutine working for it, and a running worker has somebody reading it.
OneProtocolOwner ==
  /\ Cardinality(Users) <= 1
  /\ \A e \in Execs : Cardinality({r \in Roles : ~At(e, r, "none")}) <= 1
  /\ ~(control /\ current # 0)
  /\ worker = "running" => Users # {}

\* AbortFeed is only sent to a suspended worker, whichever of the driver, the
\* watchdog and a releasing control operation sends it: no stop ends a session
\* with "abort without a pending suspension" (checkout.go).
AbortsSuspension == terminal # "noSuspension"

\* The terminal cause reaches the execution that owns the session in the same
\* critical section, and a finished execution reports it: Err() and late driver
\* results agree.
OneCause ==
  /\ current # 0 => ex[current].cause = terminal
  /\ \A e \in Execs : ex[e].cause # "none" =>
       /\ ex[e].cause = terminal
       /\ ex[e].phase = "finished" => ex[e].err = terminal

\* The cancel is decided with what it is about: a callback that runs after its stop
\* was requested, or after the session ended, has a context that is cancelled or
\* that a goroutine is about to cancel, after its unlock; only a delivered catchable
\* stop gives later callbacks a live one.
CancelOwed ==
  \A e \in Execs :
    At(e, "driver", "callback")
      /\ (terminal # "none" \/ (ex[e].requested /\ ~ex[e].delivered))
    => ex[e].ctx # "live"

\* A resolved stop tells the truth: "killed" only when this stop killed the
\* session, anything else only when the run is over or the session lost.
StopTellsTruth ==
  \A e \in Execs : ex[e].kind # "pending" =>
    /\ ex[e].kind = "killed" => terminal = "killed" /\ ex[e].cause = "killed"
    /\ ex[e].phase = "finished" \/ terminal # "none"

\* The first terminal cause is immutable, and after it no execution is admitted.
TerminalIsFinal ==
  [][terminal # "none" => terminal' = terminal /\ current' \in {0, current}]_vars

\* The watcher never reports "connection closed" over a ShutdownDump queued for
\* a turn in flight: the protocol owner classifies it, and its payload survives.
LossIsClassified ==
  [][terminal = "none" /\ terminal' = "lost" => reply = "none"]_vars

-----------------------------------------------------------------------------
(* What the documentation says of Stop and is not so; see the README.      *)


\* finishClose waits for a run that nobody has asked to stop.
Unstopped(k) ==
  /\ closer[k].pc = "background" /\ terminal = "none"
  /\ ex[closer[k].e].clock = "none" /\ ex[closer[k].e].phase # "finished"

\* session_control.go, Close: "A running execution is stopped with the policy
\* first [...] ctx bounds only the caller's wait."
CloseStopsRun == \A k \in Closers : ~Unstopped(k)

\* session.md: "failures of host return values raise inside the sandbox": no
\* execution ends with the worker still waiting for an answer.
SuspensionIsOwned == terminal = "none" /\ current = 0 => worker # "suspended"

-----------------------------------------------------------------------------
(* Liveness.  Every goroutine that can run does; Python code may run for    *)
(* ever, callers need not call, no caller's context need end, and a host    *)
(* callback returns only once its context is cancelled.  A Dump or a Reset   *)
(* is answered by a worker that runs no Python, or RequestTimeout ends it.   *)

CooperativeCallback(e) == endCallback(e) /\ ex[e].ctx = "cancelled"

FairSpec ==
  /\ Spec
  /\ WF_vars(Terminate) /\ WF_vars(WatchNext)
  /\ \A e \in 1 .. MaxExec :
       /\ WF_vars(e \in Execs /\ DriverNext(e))
       /\ WF_vars(e \in Execs /\ StopNext(e))
       /\ WF_vars(e \in Execs /\ CooperativeCallback(e))
       /\ WF_vars(e \in Execs /\ \E r \in Roles : RoleNext(e, r))
  /\ \A d \in Controls : WF_vars(ControlReturns(d) \/ ControlRelease(d))
  /\ \A k \in Closers :
       WF_vars(\/ \E p \in Policies : CloseStops(k, p)
               \/ CloseStopped(k) \/ finishClose(k) \/ CloseOver(k) \/ closeOwned(k)
               \/ CloseFinishes(k) \/ CloseLeaves(k) \/ settleClose(k))

\* "An accepted stop always completes": whatever the sandbox does, and if the
\* callback heeds its context, the stop gets its kind and the run ends, so Stop and
\* Run.Wait return; so does a run whose session ended, since its callback is told.
StopCompletes ==
  \A e \in 1 .. MaxExec :
    (e \in Execs /\ (ex[e].clock # "none" \/ terminal # "none"))
    ~> (/\ e \in Execs /\ ex[e].phase = "finished"
        /\ ex[e].clock # "none" => ex[e].kind # "pending")

\* A close attempt is always settled, whoever is using the worker, and callers that
\* coalesced with it get an answer; but not when finishClose waits for a run that
\* its Close did not stop (see CloseStopsRun).
CloseSettles == closing ~> (~closing \/ \E k \in Closers : Unstopped(k))

\* A worker that dies is reported by Err() even when nobody is using it, unless
\* callers for ever start executions that end before they reach the worker: the
\* goroutine of attach waits for each of them in turn.
LossReported ==
  \/ (worker = "gone") ~> (terminal # "none")
  \/ ([]<>(current = 0) /\ []<>(current # 0))

=============================================================================
