# A TLA+ verification of montygo

montygo runs Python code in sandboxed workers. A program checks a *session* out
of a *pool*, feeds it code, answers the calls the code makes to the host, and
closes it. A worker is a child process, a WebAssembly instance, or a connection
to a `monty-server`. This directory models the parts where several goroutines,
a worker and a clock meet, checks them with TLC and proves the pool with TLAPS.

## 1. The system

| part | code | state | operations |
|---|---|---|---|
| worker pool | `internal/pool/pool.go`, `lease.go` | idle stack, `starting`/`active`/`retiring` counters, wake channel, reaper channel, leases | acquire, spawn, release, retire, reap, Close, Shutdown, terminate |
| reservations | `internal/pool/reservation.go` | a held unit of capacity | Reserve, Bind, re-reserve after a failed bind, Handoff, Release |
| checkout turn engine | `internal/pool/checkout.go`, `budget.go` | pending suspension, budgets, poisoning | Feed, Resume*, Abort, Dump, Restore, Finish |
| session lifecycle | `lifecycle.go`, `stop.go`, `session*.go`, `snapshot.go`, `answer.go` | current execution and its phase, stop request, terminal cause, control and close attempts | feeds, callbacks, snapshots, stops, kill, abort, Dump, Close, loss watcher |
| rotation | `rotation.go` | connection deadline, timer, rotation in flight | rotate before an operation or on a timer |
| recovery | `supervisor.go` | one restart flight per URL | supervised dial, restart, retry |
| supervisors | `supervisor/native`, `supervisor/docker` | endpoint, child process or container, closed | Endpoint, Restart, Close |
| root pool, slots | `pool.go`, `slot.go` | set of open sessions | Checkout, Shutdown, Slot reuse |
| transports | `internal/worker`, `internal/wire` | bounded frame queue, socket | push, pop, fail, Kill, Close |
| observers | `internal/pool/observer_lifecycle.go` | reference count | acquire, release, close |
| host side | `sandbox/host`, `sandbox/osaccess`, `internal/mountfs` | object store, futures, file overlays | calls made by sandboxed code |
| server | `server/src` (Rust) | admission permits, deadlines, drain | accept, relay turns, time out, drain |

How they interact: a session owns one checkout, a checkout leases one worker
slot of the pool; a session may lose its worker to `Terminate` at any moment; a
supervised pool dials through the recoverer, which may restart the server; a
rotation moves a session to a new connection while it keeps its capacity.

What is hard: the lease is ended by its owner or out of band; the retiring send
happens under the pool's mutex; a stop meets the run in any phase; a session
can be ended by a kill, a Close, a lost worker, a refused request and a host
failure at once, and must report one cause; staleness is checked in one
critical section and used in the next; restarts are shared by callers that
failed at different times.

`PROJECT.json` lists every part with its status, and every hazard at its line.

## 2. Plan

1. The pool core with local workers, its proof — done (`WorkerPool`,
   `LocalPool`, and the proof modules of section 5).
2. Remote reservations on the same core — done (`RemotePool`).
3. The session lifecycle — done (`Session`); futures and loading to be added.
4. Recovery with the native supervisor — done (`Recovery`).
5. Rotation: session, reservation and recovery composed; a terminate between
   Handoff and attach is the case to look at.
6. Root pool (`track` against `Shutdown`), `Slot`, and the docker supervisor.
7. Checkout turn engine and budget; frame queue and websocket worker; observer.
8. Server: admission permits, deadlines, drain.
9. Mount overlay against a reference file tree; OS access; futures; depth
   limits and framing as operators checked on bounded inputs.
10. An abstract resource pool (capacity and ownership only) that `LocalPool` is
    shown to implement.

Theorems worth proving next: `OneOwner` and `CountersExact` of `RemotePool`;
`OneCause` and `OneProtocolOwner` of `Session`; `SingleFlight` and `OneServer` of
`Recovery`; the refinement of the abstract pool.

## 3. Modules

**WorkerPool** is what both pools share: worker states, counters, reapers,
Close and Shutdown. A critical section of `p.mu` is one action. The only
operation that can block inside one is `retireLocked`'s send on the reaper
channel, so `sending` holds the worker being sent and every other section waits
for `MuFree`.

**LocalPool** adds callers: `acquire` (newest live idle worker, or a spawn, or
waiting), checkout, `Finish` with recycling after `MaxCheckoutsPerWorker`, loss,
a turn that fails and whose `reap` kills the worker while it is still leased
(`TurnBreaks`, `ReapBroken`), and an out-of-band `Terminate` racing `Finish` for the
lease. A pool with a fixed
server URL is the instance `MinProcesses = 0`, `MaxCheckoutsPerWorker = 1`,
without the reset. A caller's next step is not held back until its own sends
are done, which only adds behaviours.

**RemotePool** adds reservations: `Bind` in its separate critical sections,
`reReserveLocked`, `Handoff`, `Release`.

**Session** models one session. A `life.mu` section that changes state is an
action; `stopAtBoundary`, whose own sections only look, is part of the section that
follows it and looks again. What a section leaves to be done after its unlock is an
action of its own: `Cancel` for the callback context (which is `cancelling` from the
section that decides it until then), `ForceKill` and `Terminate` for the worker. An
execution is a record; each goroutine that may act on it (its driver, the stop
watcher's abort, a control operation, a session-ending fence) has a program
counter of its own, so exclusion is a result and not an assumption. Deadlines of
a stop are abstracted to the order in which they pass (`none`, `drain`, `due`,
`late`). A protocol turn and the section that takes its
result are one action; a failed abort has three (`AbortFails`, `AbortLoses`,
`AbortSettles`), as the code has, and a forced kill may be claimed between them. Data (code, values, exceptions)
is reduced to the kind of result.

**Recovery** models `recoverer.Do` in several callers, the restart goroutines
and the native supervisor. A server's URL is the number of its start, since it
listens on a port of its own. The comparison `f.completed.After(failedAt)` is the
set `since` of flights completed after a caller's last failure, so no clock is
needed.

`Over` in `Session` and `Recovery` is the stuttering of a finished system; it
keeps deadlock checking on for everything else.

## 4. Runs

| run | shows |
|---|---|
| `local_pool` | ownership, counters, the process limit, wakeups, Shutdown and recycling, two callers and two processes |
| `local_pool_live` | retired workers are reaped, Close frees waiters, Shutdown's drain ends |
| `remote_pool` | ownership, counters and wakeups with reservations, failed binds and rotation |
| `session` | one protocol owner, aborts only on a suspension, one final cause, callbacks whose cancel is owed or done, truthful stop results, classified losses |
| `session_live` | accepted stops complete, runs of an ended session end, closes settle, losses are reported |
| `recovery` | shared restarts, one server, no restart of a server the caller did not fail on, every supervised dial returns |

Six further runs end in a counterexample. Each states a sentence of the
documentation or of a comment that the code does not keep; see section 6.

*Bounds.* Two callers and one or two workers are enough for every pairwise race
on a lease and for a full channel. A session has one execution at a time, and
an execution nothing refers to any more gives its number to the next, so with
`MaxExec = 1` the session runs executions in succession without end; each of up
to two pauses meets a stop, a Close, a Dump and a loss in every phase. What this
bound leaves out is the context hook of a finished execution firing while the
next one runs; `requestStop` turns it away because the phase is `finished`.
Two dialers and three starts let every caller of `Recovery`
restart the server once; three dialers were checked once for the invariants and
showed nothing new.

*Fairness.* Goroutines that can run do run (weak fairness per goroutine), worker
processes exit once killed, bind and server start are bounded by timeouts.
Nothing is assumed of sandboxed code: it may run for ever. `session_live` assumes
that a Go callback returns once its context is cancelled, which is the
documented contract of callbacks, and that a Dump or a Reset, sent to a worker that
runs no Python, is answered or ended by `RequestTimeout` (10 s by default on a
connection; with no timeout, the default of local workers, it is the worker that must
answer). `CloseSettles` excepts a Close that waits for a run it did not stop, see
section 6. `LossReported` excepts callers that for ever
start executions which fail before their first send: the goroutine of `attach`
waits for each execution in turn and can be overtaken by the next. No caller's
context need ever end, no worker crash and nobody call Close: `StepContextEnds`,
`CloseGivesUp`, `CloseExpires`, `WorkerEnds`, `CloseBegin` and `CloseKillNow` are in
no fairness condition. The deadlines of an accepted stop (`Tick`) do pass.

## 5. Proofs

The proof is in four modules: `LocalPoolInv` (the invariant and the lemmas on
sequences and cardinalities), `LocalPoolSteps` and `LocalPoolLeases` (one lemma
per action), `LocalPoolProofs` (the theorems). It shows, for any sets of workers, callers and reapers and any
limits allowed by the named assumptions of `WorkerPool` and `LocalPool`: type
correctness, `OneOwner`, `CountersExact`, `ProcessBound`, `NoLostWakeup`,
`RetireNeverBlocks`, `ShutdownIsFinal`, `ServedBound` and the action property
`NeverKillsReleased`, that is every safety property of `local_pool`. None of these is inductive alone. The invariant joins
them with the consistency of callers' program counters, and the counters must
be tied to cardinalities before the process limit can follow; that
the reaper channel never fills rests on the process limit, because a local
worker is counted until it has been reaped. The proof has one step per action
and, under it, one per conjunct the action disturbs.

Only model-checked: everything about `RemotePool`, `Session` and `Recovery`,
and all liveness, which is out of the prover's reach.

## 6. Where code and text disagree

* Remote `Shutdown` can return while a connection is open
  (`remote_pool_shutdown`), the overshoot of `MaxProcesses` need not be
  transient (`remote_pool_overshoot`), and retirement can block the pool
  (`remote_pool_retire`).
* A stop is reported `StopAborted` although the worker's loss ended the run
  (`session_aborted`); a resume rejected before sending leaves the worker
  suspended (`session_suspended`); a Close whose context ends before `Run.Stop` looks
  at it requests no stop and waits in the background for the run to end by itself,
  while the session admits nothing (`session_close`).

Noted and not run: `requestStopForStep` says that a stale step is ignored, but compares
the step in one section and requests the stop in another, so the context of one step
can stop the next; a failed abort may report `StopFinished` for a kill the watchdog has
just claimed (`stop.go:375`); `requestStop` answers `StopFinished` at once on a session that
was terminated without a stop, while its callback may still run, though `Run.Stop`
says it returns after the run has ended; the release of a control reservation
aborts a paused execution that is only draining (`session_control.go:53`); the native supervisor's comment says it drains the server
with SIGTERM, the code sends an interrupt.

## 7. Not modelled

Generated code (`internal/montypb`), telemetry, error formatting, binary and image
lookup, HTTP exchange and process plumbing are I/O or wording. The other parts
marked `not_modelled` in `PROJECT.json` are in the plan above.
