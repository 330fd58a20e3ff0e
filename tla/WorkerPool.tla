----------------------------- MODULE WorkerPool -----------------------------
(* The elastic worker pool of internal/pool: its counters, the notify channel,
   the retirement queue and the goroutines that drain it, and Close/Shutdown.
   LocalPool and RemotePool add the callers that check workers out.

   p.mu is the only lock.  A critical section is one action, taken while no
   holder is blocked (MuFree): the single point where a section can block is
   retireLocked's send on the reaper channel, so the workers a section still
   has to send are kept in `sending`, and p.mu is held exactly while it is
   non-empty. *)
EXTENDS Integers, Sequences, FiniteSets, Functions

CONSTANTS Workers,       \* worker identities; an exited and reaped one is reused
          Callers,       \* goroutines that check workers out
          Closers,       \* goroutines that call Shutdown
          Reapers,       \* reaper goroutines: min(MaxProcesses, maxReapers) of them
          None,          \* a nil worker
          MaxProcesses,  \* Config.MaxProcesses
          MinProcesses   \* Config.MinProcesses

ASSUME PoolAssumption ==
    /\ MaxProcesses \in Nat \ {0}
    /\ MinProcesses \in 0..MaxProcesses
    /\ None \notin Workers
    /\ IsFiniteSet(Workers) /\ IsFiniteSet(Callers)
    /\ Callers \cap Closers = {}

VARIABLES proc,         \* [Workers -> ...]: the process or connection behind a worker
          idle,         \* Pool.idle, most recently released last
          starting,     \* Pool.starting
          active,       \* Pool.active
          retiring,     \* Pool.retiring
          closed,       \* Pool.closed
          waiting,      \* goroutines blocked on the current Pool.notify channel
          reaper,       \* Pool.reaper, a channel of capacity MaxProcesses
          reaped,       \* Pool.reaped: the reaper channel is closed
          sending,      \* what the holder of p.mu has still to send on reaper
          reaping,      \* [Reapers -> the worker a reaper is waiting for, or None]
          shut,         \* [Closers -> where the Shutdown call is]
          waits         \* [Closers -> workers whose done channel Close waits for]

coreVars == <<proc, idle, starting, active, retiring, closed, waiting, reaper,
              reaped, sending, reaping, shut, waits>>

ProcStates == {"absent", "alive", "killed", "dead"}
ShutStates == {"open", "closing", "drain", "blocked", "stop", "reapers", "ok", "expired"}

\* Mutant: a retiring worker does not count toward MaxProcesses.
liveWithoutRetiring == starting + active + Len(idle)

live == starting + active + Len(idle) + retiring

MuFree == sending = <<>>

\* Worker.Alive: the exit has not been observed yet.
Alive(w) == proc[w] \in {"alive", "killed"}

wakeLocked == waiting' = {}

\* retireLocked for each worker of ws: the count moves now, the sends follow.
retireLocked(ws) ==
    /\ retiring' = retiring + Len(ws)
    /\ sending' = ws

CoreInit ==
    /\ idle \in Injection(1..MinProcesses, Workers)
    /\ proc = [w \in Workers |-> IF w \in Range(idle) THEN "alive" ELSE "absent"]
    /\ starting = 0 /\ active = 0 /\ retiring = 0
    /\ closed = FALSE /\ reaped = FALSE
    /\ waiting = {}
    /\ reaper = <<>> /\ sending = <<>>
    /\ reaping = [r \in Reapers |-> None]
    /\ shut = [k \in Closers |-> "open"]
    /\ waits = [k \in Closers |-> {}]
-----------------------------------------------------------------------------
\* A worker's process ends: on its own, or because it was killed.
Exit(w) ==
    /\ Alive(w)
    /\ proc' = [proc EXCEPT ![w] = "dead"]
    /\ UNCHANGED <<idle, starting, active, retiring, closed, waiting, reaper,
                   reaped, sending, reaping, shut, waits>>

\* p.reaper <- s; blocked while the channel is full.
Send ==
    /\ sending # <<>>
    /\ ~reaped
    /\ Len(reaper) < MaxProcesses
    /\ reaper' = Append(reaper, Head(sending))
    /\ sending' = Tail(sending)
    /\ UNCHANGED <<proc, idle, starting, active, retiring, closed, waiting,
                   reaped, reaping, shut, waits>>

\* A reaper receives the next retired worker.
ReapTake(r) ==
    /\ reaping[r] = None
    /\ reaper # <<>>
    /\ reaping' = [reaping EXCEPT ![r] = Head(reaper)]
    /\ reaper' = Tail(reaper)
    /\ UNCHANGED <<proc, idle, starting, active, retiring, closed, waiting,
                   reaped, sending, shut, waits>>

\* Mutant: a worker that ignores Shutdown is waited for, never killed.
ReapKillNever(r) ==
    /\ reaping[r] # None
    /\ proc[reaping[r]] = "killed"
    /\ UNCHANGED coreVars

\* shutdownWorker's grace, or a one-second wait, is over: the worker is killed.
ReapKill(r) ==
    /\ reaping[r] # None
    /\ proc[reaping[r]] = "alive"
    /\ proc' = [proc EXCEPT ![reaping[r]] = "killed"]
    /\ UNCHANGED <<idle, starting, active, retiring, closed, waiting, reaper,
                   reaped, sending, reaping, shut, waits>>

\* Mutant: reap returns the capacity and wakes nobody.
ReapDoneSilently(r) ==
    /\ MuFree
    /\ reaping[r] # None
    /\ proc[reaping[r]] = "dead"
    /\ retiring' = retiring - 1
    /\ proc' = [proc EXCEPT ![reaping[r]] = "absent"]
    /\ waits' = [k \in Closers |-> waits[k] \ {reaping[r]}]
    /\ reaping' = [reaping EXCEPT ![r] = None]
    /\ UNCHANGED <<idle, starting, active, closed, waiting, reaper, reaped,
                   sending, shut>>

\* The exit was observed: the capacity is returned and done is closed.
ReapDone(r) ==
    /\ MuFree
    /\ reaping[r] # None
    /\ proc[reaping[r]] = "dead"
    /\ retiring' = retiring - 1
    /\ wakeLocked
    /\ proc' = [proc EXCEPT ![reaping[r]] = "absent"]
    /\ waits' = [k \in Closers |-> waits[k] \ {reaping[r]}]
    /\ reaping' = [reaping EXCEPT ![r] = None]
    /\ UNCHANGED <<idle, starting, active, closed, reaper, reaped, sending, shut>>

ReapersGone == reaped /\ reaper = <<>> /\ \A r \in Reapers : reaping[r] = None
-----------------------------------------------------------------------------
\* Mutant: Close leaves p.idle in place (keep), or wakes nobody.
CloseMutated(k, keep, wake) ==
    /\ shut[k] = "open"
    /\ MuFree
    /\ \/ /\ closed
          /\ shut' = [shut EXCEPT ![k] = "drain"]
          /\ UNCHANGED <<closed, idle, retiring, sending, waiting, waits>>
       \/ /\ ~closed
          /\ closed' = TRUE
          /\ idle' = IF keep THEN idle ELSE <<>>
          /\ retireLocked(idle)
          /\ waiting' = IF wake THEN {} ELSE waiting
          /\ waits' = [waits EXCEPT ![k] = Range(idle)]
          /\ shut' = [shut EXCEPT ![k] = "closing"]
    /\ UNCHANGED <<proc, starting, active, reaper, reaped, reaping>>

CloseKeepsIdle(k) == CloseMutated(k, TRUE, TRUE)
CloseSilently(k) == CloseMutated(k, FALSE, FALSE)

\* Close, as Shutdown calls it: every idle worker is retired, waiters wake up.
Close(k) ==
    /\ shut[k] = "open"
    /\ MuFree
    /\ \/ /\ closed
          /\ shut' = [shut EXCEPT ![k] = "drain"]
          /\ UNCHANGED <<closed, idle, retiring, sending, waiting, waits>>
       \/ /\ ~closed
          /\ closed' = TRUE
          /\ idle' = <<>>
          /\ retireLocked(idle)
          /\ wakeLocked
          /\ waits' = [waits EXCEPT ![k] = Range(idle)]
          /\ shut' = [shut EXCEPT ![k] = "closing"]
    /\ UNCHANGED <<proc, starting, active, reaper, reaped, reaping>>

\* Close returns nil: every done channel it waits for is closed.
CloseDone(k) ==
    /\ shut[k] = "closing"
    /\ waits[k] = {}
    /\ shut' = [shut EXCEPT ![k] = "drain"]
    /\ UNCHANGED <<proc, idle, starting, active, retiring, closed, waiting, reaper,
                   reaped, sending, reaping, waits>>

\* ctx ends first; Shutdown ignores the error and asks waitDrained.
CloseExpires(k) ==
    /\ shut[k] = "closing"
    /\ waits[k] # {}
    /\ MuFree
    /\ shut' = [shut EXCEPT ![k] = "drain"]
    /\ waits' = [waits EXCEPT ![k] = {}]
    /\ UNCHANGED <<proc, idle, starting, active, retiring, closed, waiting, reaper,
                   reaped, sending, reaping>>

\* Mutant: waitDrained forgets the workers that are checked out.
DrainIgnoresActive(k) ==
    /\ \/ shut[k] = "drain"
       \/ shut[k] = "blocked" /\ k \notin waiting
    /\ MuFree
    /\ \/ /\ live = active
          /\ shut' = [shut EXCEPT ![k] = "stop"]
          /\ UNCHANGED waiting
       \/ /\ live # active
          /\ shut' = [shut EXCEPT ![k] = "blocked"]
          /\ waiting' = waiting \cup {k}
    /\ UNCHANGED <<proc, idle, starting, active, retiring, closed, reaper, reaped,
                   sending, reaping, waits>>

\* waitDrained's loop: leave when nothing is live, else block on notify.
Drain(k) ==
    /\ \/ shut[k] = "drain"
       \/ shut[k] = "blocked" /\ k \notin waiting
    /\ MuFree
    /\ \/ /\ live = 0
          /\ shut' = [shut EXCEPT ![k] = "stop"]
          /\ UNCHANGED waiting
       \/ /\ live # 0
          /\ shut' = [shut EXCEPT ![k] = "blocked"]
          /\ waiting' = waiting \cup {k}
    /\ UNCHANGED <<proc, idle, starting, active, retiring, closed, reaper, reaped,
                   sending, reaping, waits>>

\* Mutant: Shutdown ignores waitDrained's error.
DrainErrorIgnored(k) ==
    /\ shut[k] = "blocked"
    /\ shut' = [shut EXCEPT ![k] = "stop"]
    /\ waiting' = waiting \ {k}
    /\ UNCHANGED <<proc, idle, starting, active, retiring, closed, reaper, reaped,
                   sending, reaping, waits>>

\* ctx ends while waitDrained is blocked: Shutdown returns ctx.Err().
DrainExpires(k) ==
    /\ shut[k] = "blocked"
    /\ shut' = [shut EXCEPT ![k] = "expired"]
    /\ waiting' = waiting \ {k}
    /\ UNCHANGED <<proc, idle, starting, active, retiring, closed, reaper, reaped,
                   sending, reaping, waits>>

\* stopReapers closes the channel once.
StopReapers(k) ==
    /\ shut[k] = "stop"
    /\ MuFree
    /\ reaped' = TRUE
    /\ shut' = [shut EXCEPT ![k] = "reapers"]
    /\ UNCHANGED <<proc, idle, starting, active, retiring, closed, waiting, reaper,
                   sending, reaping, waits>>

\* p.reapers.Wait() returns, and Shutdown returns nil.
ShutdownReturns(k) ==
    /\ shut[k] = "reapers"
    /\ ReapersGone
    /\ shut' = [shut EXCEPT ![k] = "ok"]
    /\ UNCHANGED <<proc, idle, starting, active, retiring, closed, waiting, reaper,
                   reaped, sending, reaping, waits>>

ReaperNext == \E r \in Reapers : ReapTake(r) \/ ReapKill(r) \/ ReapDone(r)

CloserNext ==
    \E k \in Closers : \/ Close(k) \/ CloseDone(k) \/ CloseExpires(k)
                       \/ Drain(k) \/ DrainExpires(k)
                       \/ StopReapers(k) \/ ShutdownReturns(k)

CoreNext == (\E w \in Workers : Exit(w)) \/ Send \/ ReaperNext \/ CloserNext
=============================================================================
