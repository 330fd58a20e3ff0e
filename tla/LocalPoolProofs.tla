--------------------------- MODULE LocalPoolProofs ---------------------------
(* Proofs about LocalPool, for every number of workers, callers and reapers and
   every MinProcesses <= MaxProcesses.

   The bound on processes is a statement about sets (who exists) that the code
   enforces with counters, so the inductive invariant ties the two together:
   every existing worker is in exactly one container (OneOwner), the counters are
   the sizes of the containers (CountersExact), and the counters never exceed
   MaxProcesses (LiveBound).  Control says where the callers and closers must be
   for the flags and the containers to be as they are. *)
EXTENDS LocalPoolSteps, LocalPoolLeases

LEMMA InitIInv == Init => IInv
<1> SUFFICES ASSUME Init PROVE IInv
  OBVIOUS
<1>1. /\ idle \in [1..MinProcesses -> Workers] /\ IsInjective(idle)
      /\ proc = [w \in Workers |-> IF w \in Range(idle) THEN "alive" ELSE "absent"]
      /\ starting = 0 /\ active = 0 /\ retiring = 0 /\ closed = FALSE /\ reaped = FALSE
      /\ waiting = {} /\ reaper = <<>> /\ sending = <<>>
      /\ reaping = [r \in Reapers |-> None]
      /\ shut = [k \in Closers |-> "open"] /\ waits = [k \in Closers |-> {}]
      /\ pc = [c \in Callers |-> "idle"]
      /\ lease = [c \in Callers |-> None] /\ hand = [c \in Callers |-> None]
      /\ killing = {} /\ condemned = {} /\ served = [w \in Workers |-> 0]
  BY DEF Init, CoreInit, Injection
<1>2. MinProcesses \in Nat /\ MinProcesses <= MaxProcesses /\ MaxProcesses \in Nat
  BY PoolAssumption
<1>3. idle \in Seq(Workers) /\ Len(idle) = MinProcesses
  <2>1. idle \in Seq(Workers)
    BY <1>1, <1>2, SeqDef
  <2> QED
    BY <2>1, <1>1, <1>2, LenProperties
<1>4. TypeOK
  <2>1. proc \in [Workers -> ProcStates]
    BY <1>1 DEF ProcStates
  <2>2. served \in [Workers -> 0..MaxCheckoutsPerWorker]
    BY <1>1, CheckoutsAssumption
  <2>3. reaper \in Seq(Workers) /\ sending \in Seq(Workers)
    BY <1>1
  <2> QED
    BY Zenon, <1>1, <1>3, <2>1, <2>2, <2>3 DEF TypeOK, ShutStates, CallerStates
<1>5. Leased = {} /\ Claimed = {} /\ Retired = {} /\ Reaping = {} /\ Handed = {}
  BY <1>1, RangeEmpty DEF Leased, Handed, Claimed, Retired, Reaping
<1>6. Range(idle) \subseteq Workers
  BY <1>3, RangeOfSeq
<1>7. Present = Range(idle)
  BY <1>1, <1>6 DEF Present
<1>8. ClaimsApart
  BY <1>1, <1>5 DEF ClaimsApart
<1>9. QueuesApart
  BY <1>1, <1>5, RangeEmpty DEF QueuesApart
<1>10. OneOwner
  BY <1>1, <1>5, <1>7, <1>8, <1>9 DEF OneOwner
<1>11. CountersExact
  <2>1. {c \in Callers : pc[c] = "spawn"} = {}
    BY <1>1
  <2> QED
    BY Zenon, <2>1, <1>1, <1>5, FS_EmptySet DEF CountersExact
<1>12. LiveBound
  BY <1>1, <1>2, <1>3 DEF LiveBound, live
<1>13. Control
  BY <1>1 DEF Control, Stopping
<1>14. NoLostWakeup
  BY <1>1 DEF NoLostWakeup
<1>15. ServedBound
  BY <1>1, <1>5, <1>6 DEF ServedBound
<1> QED
  BY <1>4, <1>10, <1>11, <1>12, <1>13, <1>14, <1>15 DEF IInv

LEMMA NextIInv == IInv /\ [Next]_vars => IInv'
<1> SUFFICES ASSUME IInv, [Next]_vars PROVE IInv'
  OBVIOUS
<1>1. CASE UNCHANGED vars
  <2>1. UNCHANGED coreVars /\ UNCHANGED callVars
    BY <1>1 DEF vars
  <2>2. Present' = Present /\ Spawning' = Spawning
    BY <2>1 DEF Present, Spawning, coreVars, callVars
  <2>3. OneOwner' /\ CountersExact' /\ LiveBound' /\ ServedBound'
    BY <2>1, <2>2, Quiet DEF coreVars, callVars
  <2>4. TypeOK'
    BY <2>1 DEF IInv, TypeOK, coreVars, callVars
  <2>5. Control' /\ NoLostWakeup'
    BY <2>1 DEF IInv, Control, NoLostWakeup, Stopping, live, coreVars, callVars
  <2> QED
    BY <2>3, <2>4, <2>5 DEF IInv
<1>2. CASE CoreNext /\ UNCHANGED callVars
  <2>1. ASSUME NEW w \in Workers, Exit(w) PROVE IInv'
    BY <1>2, <2>1, ExitStep
  <2>2. CASE Send
    BY <1>2, <2>2, SendStep
  <2>3. ASSUME NEW r \in Reapers, ReapTake(r) \/ ReapKill(r) \/ ReapDone(r) PROVE IInv'
    BY <1>2, <2>3, ReapTakeStep, ReapKillStep, ReapDoneStep
  <2>4. ASSUME NEW k \in Closers, Close(k) PROVE IInv'
    BY <1>2, <2>4, CloseStep
  <2>5. ASSUME NEW k \in Closers, CloserQuiet(k) PROVE IInv'
    BY <1>2, <2>5, CloserQuietStep
  <2> QED
    BY <1>2, <2>1, <2>2, <2>3, <2>4, <2>5 DEF CoreNext, ReaperNext, CloserNext, CloserQuiet
<1>3. ASSUME NEW c \in Callers, CallerNext(c) PROVE IInv'
  <2>1. CASE CallerQuiet(c)
    BY <2>1, CallerQuietStep
  <2>2. CASE AcquireIdle(c)
    BY <2>2, AcquireIdleStep
  <2>3. CASE AcquireNone(c)
    BY <2>3, AcquireNoneStep
  <2>4. CASE SpawnFails(c)
    BY <2>4, SpawnFailsStep
  <2>5. ASSUME NEW w \in Workers, Spawned(c, w) PROVE IInv'
    BY <2>5, SpawnedStep
  <2>6. CASE LeaseFinish(c)
    BY <2>6, LeaseFinishStep
  <2>7. CASE Release(c)
    BY <2>7, ReleaseStep
  <2>8. CASE Terminate(c)
    BY <2>8, TerminateStep
  <2>9. CASE ReapBroken(c)
    BY <2>9, ReapBrokenStep
  <2> QED
    BY <1>3, <2>1, <2>2, <2>3, <2>4, <2>5, <2>6, <2>7, <2>8, <2>9 DEF CallerNext, CallerQuiet
<1>4. ASSUME NEW w \in Workers, TerminateKill(w) \/ retireLease(w) PROVE IInv'
  BY <1>4, TerminateKillStep, RetireLeaseStep
<1> QED
  BY <1>1, <1>2, <1>3, <1>4 DEF Next

\* Every reachable state of the pool satisfies the inductive invariant.
THEOREM Invariant == Spec => []IInv
  BY InitIInv, NextIInv, PTL DEF Spec

\* The pool's state stays well typed; in particular no counter goes below zero.
THEOREM TypeCorrect == Spec => []TypeOK
<1>1. IInv => TypeOK
  BY DEF IInv
<1> QED
  BY <1>1, Invariant, PTL

\* A worker has exactly one owner, whatever Finish, Terminate, the reapers and
\* Close do concurrently.
THEOREM OneOwnerAlways == Spec => []OneOwner
<1>1. IInv => OneOwner
  BY DEF IInv
<1> QED
  BY <1>1, Invariant, PTL

\* The hand-moved counters always equal the sizes of what they count.
THEOREM CountersAlwaysExact == Spec => []CountersExact
<1>1. IInv => CountersExact
  BY DEF IInv
<1> QED
  BY <1>1, Invariant, PTL

\* There are never more than MaxProcesses worker processes, starting and exiting
\* ones included.
THEOREM ProcessBoundHolds == Spec => []ProcessBound
<1>1. IInv => ProcessBound
  <2> SUFFICES ASSUME IInv PROVE ProcessBound
    OBVIOUS
  <2>1. Cardinality(Present) = Len(idle) + active + retiring
    BY PresentCounted DEF IInv
  <2>2. Len(idle) \in Nat
    BY LenProperties DEF IInv, TypeOK
  <2> QED
    BY <2>1, <2>2, PoolAssumption DEF IInv, TypeOK, LiveBound, live, ProcessBound
<1> QED
  BY <1>1, Invariant, PTL

\* A waiter is only ever asleep for a reason: no wakeup is lost.
THEOREM NoLostWakeupHolds == Spec => []NoLostWakeup
<1>1. IInv => NoLostWakeup
  BY DEF IInv
<1> QED
  BY <1>1, Invariant, PTL

\* retireLocked's send never blocks with p.mu held, and never hits a closed
\* channel: the retiring workers fit in the channel, one of them is being sent,
\* and the channel is only closed when there are none.
THEOREM RetireNeverBlocksHolds == Spec => []RetireNeverBlocks
<1>1. IInv => RetireNeverBlocks
  <2> SUFFICES ASSUME IInv, sending # <<>> PROVE ~reaped /\ Len(reaper) < MaxProcesses
    BY DEF RetireNeverBlocks
  <2>1. /\ sending \in Seq(Workers) /\ IsInjective(sending)
        /\ reaper \in Seq(Workers) /\ IsInjective(reaper)
    BY DEF IInv, TypeOK, OneOwner, QueuesApart
  <2> DEFINE h == Head(sending)
             S == Range(reaper) \cup {h}
  <2>2. h \in Range(sending)
    BY <2>1, RangeHeadTail
  <2>3. h \in Workers /\ h \notin Range(reaper) /\ S \in SUBSET Retired
    BY <2>1, <2>2, RangeOfSeq DEF IInv, OneOwner, QueuesApart, Retired
  <2>4. Cardinality(S) = Len(reaper) + 1
    <3>1. Range(reaper) \in SUBSET Workers
      BY SetsType DEF IInv
    <3>2. Cardinality(Range(reaper)) = Len(reaper)
      BY <2>1, CardRange
    <3> QED
      BY <3>1, <3>2, <2>3, CardAdd, PoolAssumption
  <2>5. Retired \in SUBSET Workers /\ IsFiniteSet(Retired)
    BY SetsType, PoolAssumption, FS_Subset DEF IInv
  <2>6. Cardinality(S) <= Cardinality(Retired)
    BY <2>3, <2>5, FS_Subset
  <2>7. Len(reaper) + 1 <= retiring /\ Len(reaper) \in Nat /\ Len(idle) \in Nat
    BY <2>1, <2>4, <2>6, LenProperties DEF IInv, TypeOK, CountersExact
  <2>8. retiring <= live /\ live <= MaxProcesses /\ live # 0
    BY <2>7, PoolAssumption DEF IInv, TypeOK, LiveBound, live
  <2> QED
    BY <2>7, <2>8, PoolAssumption DEF IInv, TypeOK, Control, live
<1> QED
  BY <1>1, Invariant, PTL

\* When Shutdown returns nil no worker process is left and none is being started.
THEOREM ShutdownIsFinalHolds == Spec => []ShutdownIsFinal
<1>1. IInv => ShutdownIsFinal
  <2> SUFFICES ASSUME IInv, NEW k \in Closers, shut[k] = "ok"
               PROVE  Present = {} /\ starting = 0
    BY DEF ShutdownIsFinal
  <2>1. live = 0
    BY DEF IInv, Control, Stopping
  <2>2. Len(idle) \in Nat
    BY LenProperties DEF IInv, TypeOK
  <2>3. starting = 0 /\ active = 0 /\ retiring = 0 /\ Len(idle) = 0
    BY <2>1, <2>2 DEF live, IInv, TypeOK
  <2>4. Cardinality(Present) = 0
    BY <2>3, PresentCounted DEF IInv
  <2>5. IsFiniteSet(Present)
    BY PoolAssumption, FS_Subset DEF Present
  <2> QED
    BY <2>3, <2>4, <2>5, FS_EmptySet
<1> QED
  BY <1>1, Invariant, PTL

\* No worker serves more than MaxCheckoutsPerWorker checkouts.
THEOREM ServedBoundHolds == Spec => []ServedBound
<1>1. IInv => ServedBound
  BY DEF IInv
<1> QED
  BY <1>1, Invariant, PTL

\* Nobody kills a worker that is idle or being released, not even a Terminate on
\* a stale checkout, and only its own holder's failed turn a leased one.
THEOREM NeverKillsReleasedHolds == Spec => NeverKillsReleased
<1> DEFINE May(w) == /\ w \notin Range(idle) \cup Handed
                     /\ \A c \in Callers : lease[c] = w => pc[c] = "broken"
           P == \A w \in Workers : proc[w] = "alive" /\ proc'[w] = "killed" => May(w)
<1>1. IInv /\ [Next]_vars => [P]_vars
  <2> SUFFICES ASSUME IInv, Next, NEW w \in Workers,
                      proc[w] = "alive", proc'[w] = "killed"
               PROVE  May(w)
    OBVIOUS
  <2>1. ASSUME NEW v \in Workers, TerminateKill(v)
        PROVE  May(w)
    <3>1. w = v /\ v \in killing
      BY <2>1 DEF TerminateKill, IInv, TypeOK
    <3> QED
      BY <3>1, PoolAssumption DEF IInv, OneOwner, ClaimsApart, Claimed, Leased
  <2>2. ASSUME NEW r \in Reapers, ReapKill(r)
        PROVE  May(w)
    <3>1. w = reaping[r] /\ w \in Retired
      BY <2>2, PoolAssumption DEF ReapKill, IInv, TypeOK, Retired, Reaping
    <3> QED
      BY <3>1, PoolAssumption DEF IInv, OneOwner, Claimed, Leased
  <2>3. CASE CoreNext /\ UNCHANGED callVars
    <3>1. ASSUME NEW v \in Workers, Exit(v) PROVE FALSE
      BY <3>1 DEF Exit, IInv, TypeOK
    <3>2. ASSUME Send PROVE FALSE
      BY <3>2 DEF Send
    <3>3. ASSUME NEW r \in Reapers, ReapTake(r) \/ ReapDone(r) PROVE FALSE
      BY Zenon, <3>3 DEF ReapTake, ReapDone, IInv, TypeOK
    <3>4. ASSUME CloserNext PROVE FALSE
      BY <3>4 DEF CloserNext, Close, CloseDone, CloseExpires, Drain, DrainExpires,
                  StopReapers, ShutdownReturns
    <3> QED
      BY <2>2, <2>3, <3>1, <3>2, <3>3, <3>4 DEF CoreNext, ReaperNext
  <2>4. ASSUME NEW c \in Callers, ReapBroken(c) PROVE May(w)
    <3>1. w = lease[c] /\ w \in Leased /\ pc[c] = "broken"
      BY <2>4, PoolAssumption DEF ReapBroken, IInv, TypeOK, Leased
    <3>2. \A d \in Callers : lease[d] = w => d = c
      BY <3>1, <2>4 DEF ReapBroken, IInv, OneOwner, ClaimsApart
    <3> QED
      BY <3>1, <3>2 DEF IInv, OneOwner, ClaimsApart, Claimed
  <2>5. ASSUME NEW c \in Callers, CallerNext(c), ~ReapBroken(c) PROVE FALSE
    <3>1. ASSUME NEW v \in Workers, Spawned(c, v) PROVE FALSE
      BY <3>1 DEF Spawned, IInv, TypeOK
    <3>2. CASE AcquireClosed(c) \/ Configured(c) \/ Finish(c) \/ LeaseFinish(c)
               \/ TurnBreaks(c) \/ Lost(c) \/ Terminate(c)
      BY Zenon, <3>2 DEF AcquireClosed, Configured, Finish, LeaseFinish, TurnBreaks, Lost,
                         Terminate, coreVars
    <3>3. CASE AcquireIdle(c) \/ AcquireNone(c) \/ GiveUpWaiting(c) \/ SpawnFails(c)
               \/ Release(c)
      BY Zenon, <3>3 DEF AcquireIdle, AcquireNone, GiveUpWaiting, SpawnFails, Release
    <3> QED
      BY Zenon, <2>5, <3>1, <3>2, <3>3 DEF CallerNext
  <2>6. ASSUME NEW v \in Workers, retireLease(v) PROVE FALSE
    BY <2>6 DEF retireLease
  <2> QED
    BY <2>1, <2>3, <2>4, <2>5, <2>6 DEF Next
<1>2. Spec => [][P]_vars
  BY <1>1, Invariant, PTL DEF Spec
<1> QED
  BY <1>2 DEF NeverKillsReleased
=============================================================================
