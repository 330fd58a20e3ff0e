----------------------------- MODULE LocalPool ------------------------------
(* A pool of local workers (subprocess or wasm): Checkout, Finish, and the
   lease that arbitrates a normal release against an out-of-band Terminate.
   Each caller owns at most one checkout at a time; the lease of its current
   checkout is lease[c]. *)
EXTENDS WorkerPool

CONSTANT MaxCheckoutsPerWorker   \* 0 means unlimited

ASSUME CheckoutsAssumption == MaxCheckoutsPerWorker \in Nat

VARIABLES pc,           \* [Callers -> where the caller is]
          lease,        \* [Callers -> checkoutLease.slot's worker, or None]
          hand,         \* [Callers -> the slot lease.finish handed over, or None]
          killing,      \* workers won by lease.terminate, not yet killed
          condemned,    \* workers killed by terminate, not yet retired
          served        \* [Workers -> slot.served]

callVars == <<pc, lease, hand, killing, condemned, served>>
vars == <<coreVars, callVars>>

CallerStates == {"idle", "wait", "spawn", "configure", "held", "reset", "broken",
                 "release"}

Init ==
    /\ CoreInit
    /\ pc = [c \in Callers |-> "idle"]
    /\ lease = [c \in Callers |-> None]
    /\ hand = [c \in Callers |-> None]
    /\ killing = {} /\ condemned = {}
    /\ served = [w \in Workers |-> 0]

\* newCheckout on slot w.
NewCheckout(c, w) ==
    /\ lease' = [lease EXCEPT ![c] = w]
    /\ pc' = [pc EXCEPT ![c] = "configure"]

Goto(c, l) == pc' = [pc EXCEPT ![c] = l]
-----------------------------------------------------------------------------
\* The caller runs acquire's loop: it calls Checkout, or the notify channel it
\* captured was closed.
Acquiring(c) ==
    \/ pc[c] = "idle"
    \/ pc[c] = "wait" /\ c \notin waiting

\* acquire found the pool closed.
AcquireClosed(c) ==
    /\ Acquiring(c)
    /\ MuFree
    /\ closed
    /\ Goto(c, "idle")
    /\ UNCHANGED <<coreVars, lease, hand, killing, condemned, served>>

\* k is the idle slot acquire stops at: everything above it is dead.
Youngest(k) ==
    /\ k \in 0..Len(idle)
    /\ \A i \in k+1..Len(idle) : ~Alive(idle[i])
    /\ k > 0 => Alive(idle[k])

DeadAbove(k) == [i \in 1..Len(idle)-k |-> idle[Len(idle)+1-i]]

\* acquire's inner loop pops from the end; dead workers go to the reaper and the
\* first live one is checked out.
AcquireIdle(c) ==
    /\ Acquiring(c)
    /\ MuFree
    /\ ~closed
    /\ \E k \in 1..Len(idle) :
          /\ Youngest(k)
          /\ idle' = SubSeq(idle, 1, k - 1)
          /\ retireLocked(DeadAbove(k))
          /\ NewCheckout(c, idle[k])
    /\ active' = active + 1
    /\ UNCHANGED <<proc, starting, closed, waiting, reaper, reaped, reaping, shut,
                   waits, hand, killing, condemned, served>>

\* No idle worker survived the loop: start one if there is room, else wait.
AcquireNone(c) ==
    /\ Acquiring(c)
    /\ MuFree
    /\ ~closed
    /\ Youngest(0)
    /\ idle' = <<>>
    /\ retireLocked(DeadAbove(0))
    /\ \/ /\ live < MaxProcesses
          /\ starting' = starting + 1
          /\ Goto(c, "spawn")
          /\ UNCHANGED waiting
       \/ /\ live >= MaxProcesses
          /\ waiting' = waiting \cup {c}
          /\ Goto(c, "wait")
          /\ UNCHANGED starting
    /\ UNCHANGED <<proc, active, closed, reaper, reaped, reaping, shut, waits,
                   lease, hand, killing, condemned, served>>

\* ctx ended or CheckoutTimeout passed.
GiveUpWaiting(c) ==
    /\ pc[c] = "wait"
    /\ waiting' = waiting \ {c}
    /\ Goto(c, "idle")
    /\ UNCHANGED <<proc, idle, starting, active, retiring, closed, reaper, reaped,
                   sending, reaping, shut, waits,
                   lease, hand, killing, condemned, served>>

\* Mutant: a failed Spawn wakes nobody.
SpawnFailsSilently(c) ==
    /\ pc[c] = "spawn"
    /\ MuFree
    /\ starting' = starting - 1
    /\ Goto(c, "idle")
    /\ UNCHANGED <<proc, idle, active, retiring, closed, waiting, reaper, reaped,
                   sending, reaping, shut, waits,
                   lease, hand, killing, condemned, served>>

\* Spawn returned an error.
SpawnFails(c) ==
    /\ pc[c] = "spawn"
    /\ MuFree
    /\ starting' = starting - 1
    /\ wakeLocked
    /\ Goto(c, "idle")
    /\ UNCHANGED <<proc, idle, active, retiring, closed, reaper, reaped, sending,
                   reaping, shut, waits,
                   lease, hand, killing, condemned, served>>

\* Spawn returned w; the pool may have been closed meanwhile.
Spawned(c, w) ==
    /\ pc[c] = "spawn"
    /\ MuFree
    /\ proc[w] = "absent"
    /\ proc' = [proc EXCEPT ![w] = "alive"]
    /\ starting' = starting - 1
    /\ served' = [served EXCEPT ![w] = 0]
    /\ \/ /\ closed
          /\ retireLocked(<<w>>)
          /\ wakeLocked
          /\ Goto(c, "idle")
          /\ UNCHANGED <<active, lease>>
       \/ /\ ~closed
          /\ active' = active + 1
          /\ NewCheckout(c, w)
          /\ UNCHANGED <<retiring, sending, waiting>>
    /\ UNCHANGED <<idle, closed, reaper, reaped, reaping, shut, waits,
                   hand, killing, condemned>>

\* The worker answered Configure.
Configured(c) ==
    /\ pc[c] = "configure"
    /\ lease[c] # None
    /\ proc[lease[c]] = "alive"
    /\ Goto(c, "held")
    /\ UNCHANGED <<coreVars, lease, hand, killing, condemned, served>>
-----------------------------------------------------------------------------
\* Finish sends Reset.
Finish(c) ==
    /\ pc[c] = "held"
    /\ lease[c] # None
    /\ Goto(c, "reset")
    /\ UNCHANGED <<coreVars, lease, hand, killing, condemned, served>>

\* Mutant: lease.finish returns the slot without clearing it.
LeaseFinishKeepsSlot(c) ==
    /\ pc[c] = "reset"
    /\ lease[c] # None
    /\ proc[lease[c]] = "alive"
    /\ hand' = [hand EXCEPT ![c] = lease[c]]
    /\ served' = [served EXCEPT ![lease[c]] =
                      IF @ < MaxCheckoutsPerWorker THEN @ + 1 ELSE @]
    /\ Goto(c, "release")
    /\ UNCHANGED <<coreVars, lease, killing, condemned>>

\* The worker answered Reset, and lease.finish won.
LeaseFinish(c) ==
    /\ pc[c] = "reset"
    /\ lease[c] # None
    /\ proc[lease[c]] = "alive"
    /\ hand' = [hand EXCEPT ![c] = lease[c]]
    /\ lease' = [lease EXCEPT ![c] = None]
    /\ served' = [served EXCEPT ![lease[c]] =
                      IF @ < MaxCheckoutsPerWorker THEN @ + 1 ELSE @]
    /\ Goto(c, "release")
    /\ UNCHANGED <<coreVars, killing, condemned>>

\* A turn fails on the pipe or with FatalError: poison and dispatch call reap.
TurnBreaks(c) ==
    /\ pc[c] \in {"configure", "held", "reset"}
    /\ lease[c] # None
    /\ Goto(c, "broken")
    /\ UNCHANGED <<coreVars, lease, hand, killing, condemned, served>>

\* reap: the worker did not exit within fatalExitGrace and is killed, leased as it
\* is; discard follows.  Once somebody else has terminated the lease, that one
\* kills the worker, and reap's second Kill changes nothing.
ReapBroken(c) ==
    /\ pc[c] = "broken"
    /\ lease[c] # None
    /\ proc[lease[c]] = "alive"
    /\ proc' = [proc EXCEPT ![lease[c]] = "killed"]
    /\ UNCHANGED <<idle, starting, active, retiring, closed, waiting, reaper, reaped,
                   sending, reaping, shut, waits, callVars>>

\* The checkout was discarded by a failed turn or terminated by someone else:
\* Configure or Reset fails, lease.finish loses, Finish has nothing to do.
Lost(c) ==
    /\ pc[c] \in {"configure", "held", "reset", "broken"}
    /\ lease[c] = None
    /\ Goto(c, "idle")
    /\ UNCHANGED <<coreVars, lease, hand, killing, condemned, served>>

\* Mutant: MaxCheckoutsPerWorker is exceeded by one.
RecycleLate(w) ==
    \/ closed
    \/ ~Alive(w)
    \/ MaxCheckoutsPerWorker > 0 /\ served[w] > MaxCheckoutsPerWorker

\* release's recycle condition.
Recycle(w) ==
    \/ closed
    \/ ~Alive(w)
    \/ MaxCheckoutsPerWorker > 0 /\ served[w] >= MaxCheckoutsPerWorker

\* release puts the slot back, or retires it.
Release(c) ==
    /\ pc[c] = "release"
    /\ MuFree
    /\ active' = active - 1
    /\ \/ /\ Recycle(hand[c])
          /\ retireLocked(<<hand[c]>>)
          /\ UNCHANGED idle
       \/ /\ ~Recycle(hand[c])
          /\ idle' = Append(idle, hand[c])
          /\ UNCHANGED <<retiring, sending>>
    /\ wakeLocked
    /\ hand' = [hand EXCEPT ![c] = None]
    /\ Goto(c, "idle")
    /\ UNCHANGED <<proc, starting, closed, reaper, reaped, reaping, shut, waits,
                   lease, killing, condemned, served>>

\* Mutant: terminate gives the active claim back, and so does retireLease.
TerminateReturnsClaim(c) ==
    /\ lease[c] # None
    /\ lease' = [lease EXCEPT ![c] = None]
    /\ killing' = killing \cup {lease[c]}
    /\ active' = active - 1
    /\ UNCHANGED <<proc, idle, starting, retiring, closed, waiting, reaper, reaped,
                   sending, reaping, shut, waits, pc, hand, condemned, served>>

\* lease.terminate wins: by the owner's discard, Abandon, or a Terminate from
\* another goroutine at any moment of the checkout.
Terminate(c) ==
    /\ lease[c] # None
    /\ lease' = [lease EXCEPT ![c] = None]
    /\ killing' = killing \cup {lease[c]}
    /\ UNCHANGED <<coreVars, pc, hand, condemned, served>>

\* terminate: w.Kill().
TerminateKill(w) ==
    /\ w \in killing
    /\ proc' = [proc EXCEPT ![w] = IF @ = "alive" THEN "killed" ELSE @]
    /\ killing' = killing \ {w}
    /\ condemned' = condemned \cup {w}
    /\ UNCHANGED <<idle, starting, active, retiring, closed, waiting, reaper, reaped,
                   sending, reaping, shut, waits, pc, lease, hand, served>>

\* Mutant: retireLease keeps the active claim.
retireLeaseKeepsClaim(w) ==
    /\ w \in condemned
    /\ MuFree
    /\ retireLocked(<<w>>)
    /\ wakeLocked
    /\ condemned' = condemned \ {w}
    /\ UNCHANGED <<proc, idle, starting, active, closed, reaper, reaped, reaping, shut,
                   waits, pc, lease, hand, killing, served>>

\* terminate: pool.retireLease.
retireLease(w) ==
    /\ w \in condemned
    /\ MuFree
    /\ active' = active - 1
    /\ retireLocked(<<w>>)
    /\ wakeLocked
    /\ condemned' = condemned \ {w}
    /\ UNCHANGED <<proc, idle, starting, closed, reaper, reaped, reaping, shut, waits,
                   pc, lease, hand, killing, served>>
-----------------------------------------------------------------------------
CallerNext(c) ==
    \/ AcquireClosed(c) \/ AcquireIdle(c) \/ AcquireNone(c) \/ GiveUpWaiting(c)
    \/ SpawnFails(c) \/ (\E w \in Workers : Spawned(c, w)) \/ Configured(c)
    \/ Finish(c) \/ LeaseFinish(c) \/ TurnBreaks(c) \/ ReapBroken(c) \/ Lost(c)
    \/ Release(c) \/ Terminate(c)

Next ==
    \/ CoreNext /\ UNCHANGED callVars
    \/ \E c \in Callers : CallerNext(c)
    \/ \E w \in Workers : TerminateKill(w) \/ retireLease(w)

Spec == Init /\ [][Next]_vars
-----------------------------------------------------------------------------
\* Where a worker can be between Spawn and the end of its reaping.
Leased == {lease[c] : c \in Callers} \ {None}
Handed == {hand[c] : c \in Callers} \ {None}
Reaping == {reaping[r] : r \in Reapers} \ {None}
Present == {w \in Workers : proc[w] # "absent"}
Broken == {w \in Leased : \E c \in Callers : lease[c] = w /\ pc[c] = "broken"}
Claimed == Leased \cup Handed \cup killing \cup condemned
Retired == Range(sending) \cup Range(reaper) \cup Reaping

\* Types of the pool's state, of the callers and of the checkout leases.
TypeOK ==
    /\ proc \in [Workers -> ProcStates]
    /\ idle \in Seq(Workers) /\ reaper \in Seq(Workers) /\ sending \in Seq(Workers)
    /\ starting \in Nat /\ active \in Nat /\ retiring \in Nat
    /\ closed \in BOOLEAN /\ reaped \in BOOLEAN
    /\ waiting \subseteq Callers \cup Closers
    /\ reaping \in [Reapers -> Workers \cup {None}]
    /\ shut \in [Closers -> ShutStates]
    /\ waits \in [Closers -> SUBSET Workers]
    /\ pc \in [Callers -> CallerStates]
    /\ lease \in [Callers -> Workers \cup {None}]
    /\ hand \in [Callers -> Workers \cup {None}]
    /\ killing \subseteq Workers /\ condemned \subseteq Workers
    /\ served \in [Workers -> 0..MaxCheckoutsPerWorker]

\* No two checkouts hold the same worker, and none holds one that another
\* terminate is killing or retiring.
ClaimsApart ==
    /\ \A c, d \in Callers : c # d =>
          /\ lease[c] # None => lease[c] # lease[d]
          /\ hand[c] # None => hand[c] # hand[d]
    /\ Leased \cap Handed = {}
    /\ killing \cap condemned = {}
    /\ (Leased \cup Handed) \cap (killing \cup condemned) = {}

\* A retired worker is on its way to the reapers once.
QueuesApart ==
    /\ IsInjective(reaper) /\ IsInjective(sending)
    /\ \A r, q \in Reapers : r # q /\ reaping[r] # None => reaping[r] # reaping[q]
    /\ Range(sending) \cap Range(reaper) = {}
    /\ Reaping \cap (Range(sending) \cup Range(reaper)) = {}

\* A worker has one owner: an idle slot, one caller's lease or release, one
\* terminate in progress, or the reapers.  lease.finish and lease.terminate race
\* (lease.go) and release, acquire and reap pass the worker on; none of them may
\* leave it in two hands or in none.
OneOwner ==
    /\ ClaimsApart
    /\ QueuesApart
    /\ IsInjective(idle)
    /\ Range(idle) \cap (Claimed \cup Retired) = {}
    /\ Claimed \cap Retired = {}
    /\ Present = Range(idle) \cup Claimed \cup Retired

\* The counters of Pool.Stats are exact: the code moves them by hand in a dozen
\* places (acquire, release, retireLease, reap) and never recounts.
CountersExact ==
    /\ starting = Cardinality({c \in Callers : pc[c] = "spawn"})
    /\ active = Cardinality(Claimed)
    /\ retiring = Cardinality(Retired)

\* pool.go:95: starting, active, idle and retiring workers all count toward
\* MaxProcesses, so there are never more worker processes, those that are
\* exiting included, than MaxProcesses.
ProcessBound == Cardinality(Present) + starting <= MaxProcesses

\* retireLocked sends on the reaper channel while it holds p.mu, and a reaper
\* needs p.mu to finish: a full or a closed channel would hang or panic the
\* pool.  The channel always has room for what a holder of p.mu sends.
RetireNeverBlocks == sending # <<>> => ~reaped /\ Len(reaper) < MaxProcesses

\* wakeLocked closes the channel a waiter captured under p.mu: no caller sleeps
\* while a worker is idle, capacity is free or the pool is closed, and no
\* Shutdown sleeps on a drained pool.
NoLostWakeup ==
    /\ waiting \cap Callers # {} => idle = <<>> /\ live >= MaxProcesses /\ ~closed
    /\ waiting \cap Closers # {} => live > 0

\* Shutdown returned nil: every worker has exited, for good.
ShutdownIsFinal ==
    (\E k \in Closers : shut[k] = "ok") => Present = {} /\ starting = 0

\* No worker is checked out more than MaxCheckoutsPerWorker times.
ServedBound ==
    MaxCheckoutsPerWorker > 0 =>
        \A w \in Leased \cup Range(idle) : served[w] < MaxCheckoutsPerWorker

\* checkout.go:650: Terminate "cannot kill an already-released worker": a worker
\* that is idle or being released is never killed, whichever stale checkout object
\* the Terminate is called on, and a leased one only by the reap of its own
\* holder's failed turn.
NeverKillsReleased ==
    [][\A w \in Workers :
          proc[w] = "alive" /\ proc'[w] = "killed"
              => /\ w \notin Range(idle) \cup Handed
                 /\ \A c \in Callers : lease[c] = w => pc[c] = "broken"]_vars
-----------------------------------------------------------------------------
\* sync.Mutex does not starve a waiter and the runtime runs every goroutine that
\* can run; a killed process exits, and a failed turn ends in discard.  Callers
\* and workers owe nothing else.
Fairness ==
    /\ WF_vars(Send /\ UNCHANGED callVars)
    /\ \A w \in Workers :
          /\ WF_vars(proc[w] = "killed" /\ Exit(w) /\ UNCHANGED callVars)
          /\ WF_vars(TerminateKill(w))
          /\ SF_vars(retireLease(w))
    /\ \A r \in Reapers :
          /\ WF_vars((ReapTake(r) \/ ReapKill(r)) /\ UNCHANGED callVars)
          /\ SF_vars(ReapDone(r) /\ UNCHANGED callVars)
    /\ \A c \in Callers :
          SF_vars(AcquireClosed(c)) /\ WF_vars(pc[c] = "broken" /\ Terminate(c))
    /\ \A k \in Closers : SF_vars(Drain(k) /\ UNCHANGED callVars)

FairSpec == Spec /\ Fairness

\* A worker that broke a turn, was terminated, recycled or found dead is always
\* reaped, and its capacity comes back.
RetiredIsReaped ==
    \A w \in Workers :
        w \in Broken \cup killing \cup condemned \cup Retired ~> proc[w] = "absent"

\* Close answers every caller that is waiting for a worker.
CloseFreesWaiters == \A c \in Callers : closed /\ pc[c] = "wait" ~> pc[c] = "idle"

\* A Shutdown does not stay blocked on a pool nobody holds a worker of.
DrainEnds == \A k \in Closers : ~<>[](shut[k] = "blocked" /\ starting = 0 /\ active = 0)
=============================================================================
