-------------------------- MODULE LocalPoolLeases --------------------------
(* The invariant and the steps that end a lease.                              *)
EXTENDS LocalPoolInv

\* lease.finish: the worker moves from the lease to the caller's hand.
LEMMA LeaseFinishStep ==
  ASSUME IInv, NEW c \in Callers, LeaseFinish(c)
  PROVE  IInv'
<1> DEFINE w == lease[c]
<1>1. /\ pc[c] = "reset" /\ w # None
      /\ hand' = [hand EXCEPT ![c] = w] /\ lease' = [lease EXCEPT ![c] = None]
      /\ served' = [served EXCEPT ![w] = IF @ < MaxCheckoutsPerWorker THEN @ + 1 ELSE @]
      /\ pc' = [pc EXCEPT ![c] = "release"]
      /\ UNCHANGED <<coreVars, killing, condemned>>
  BY DEF LeaseFinish, Goto
<1>2. w \in Workers /\ w \in Leased
  BY <1>1 DEF IInv, TypeOK, Leased
<1>3. hand[c] = None
  BY <1>1 DEF IInv, Control
<1>4. Leased' = Leased \ {w}
  BY <1>1, <1>2 DEF IInv, TypeOK, OneOwner, ClaimsApart, Leased
<1>5. Handed' = Handed \cup {w}
  BY <1>1, <1>2, <1>3 DEF IInv, TypeOK, Handed
<1>6. Claimed' = Claimed
  BY <1>1, <1>2, <1>4, <1>5 DEF Claimed
<1>7. w \notin Handed
  BY <1>2 DEF IInv, OneOwner, ClaimsApart
<1>8. ClaimsApart'
  <2>1. \A a, d \in Callers : a # d => (hand'[a] # None => hand'[a] # hand'[d])
    BY <1>1, <1>2, <1>3, <1>7 DEF IInv, OneOwner, ClaimsApart, TypeOK, Handed
  <2>2. \A a, d \in Callers : a # d => (lease'[a] # None => lease'[a] # lease'[d])
    BY <1>1 DEF IInv, OneOwner, ClaimsApart, TypeOK
  <2> QED
    BY <2>1, <2>2, <1>1, <1>2, <1>4, <1>5 DEF IInv, OneOwner, ClaimsApart
<1>9. QueuesApart' /\ Retired' = Retired
  BY <1>1, SameQueues DEF IInv, OneOwner, coreVars
<1>10. Present' = Present
  BY <1>1 DEF Present, coreVars
<1>11. OneOwner'
  BY <1>1, <1>6, <1>8, <1>9, <1>10 DEF IInv, OneOwner, coreVars
<1>12. Spawning' = Spawning
  BY <1>1 DEF Spawning, IInv, TypeOK
<1>13. CountersExact'
  BY <1>1, <1>6, <1>9, <1>12 DEF IInv, CountersExact, Spawning, coreVars
<1>14. served' \in [Workers -> 0..MaxCheckoutsPerWorker]
  BY <1>1, <1>2, CheckoutsAssumption DEF IInv, TypeOK
<1>15. TypeOK'
  BY <1>1, <1>2, <1>14 DEF IInv, TypeOK, CallerStates, coreVars
<1>16. live' = live
  BY <1>1 DEF live, coreVars
<1>17. Control'
  BY <1>1, <1>2, <1>16 DEF IInv, TypeOK, Control, Stopping, coreVars
<1>18. LiveBound' /\ NoLostWakeup'
  BY <1>1, <1>16 DEF IInv, LiveBound, NoLostWakeup, coreVars
<1>19. ServedBound'
  <2>1. w \notin Range(idle)
    BY <1>2 DEF IInv, OneOwner, Claimed
  <2>2. \A v \in Workers : v # w => served'[v] = served[v]
    BY <1>1 DEF IInv, TypeOK
  <2>3. Leased \subseteq Workers /\ Range(idle) \subseteq Workers /\ idle' = idle
    BY <1>1, SetsType DEF IInv, Claimed, coreVars
  <2> QED
    BY <2>1, <2>2, <2>3, <1>4 DEF IInv, ServedBound
<1> QED
  BY <1>11, <1>13, <1>15, <1>17, <1>18, <1>19 DEF IInv

\* release: the worker goes back to the idle list, or to the reapers.
LEMMA ReleaseStep ==
  ASSUME IInv, NEW c \in Callers, Release(c)
  PROVE  IInv'
<1> DEFINE w == hand[c]
<1>1. /\ pc[c] = "release" /\ MuFree /\ active' = active - 1 /\ waiting' = {}
      /\ hand' = [hand EXCEPT ![c] = None] /\ pc' = [pc EXCEPT ![c] = "idle"]
      /\ UNCHANGED <<proc, starting, closed, reaper, reaped, reaping, shut, waits,
                     lease, killing, condemned, served>>
  BY DEF Release, wakeLocked, Goto
<1>2. w \in Workers /\ w # None /\ w \in Handed /\ w \in Claimed
  BY <1>1 DEF IInv, TypeOK, Control, Handed, Claimed
<1>3. Leased' = Leased
  BY <1>1 DEF Leased
<1>4. Handed' = Handed \ {w}
  BY <1>1, <1>2 DEF IInv, TypeOK, OneOwner, ClaimsApart, Handed
<1>5. Claimed' = Claimed \ {w}
  BY <1>1, <1>2, <1>3, <1>4 DEF IInv, OneOwner, ClaimsApart, Claimed
<1>6. ClaimsApart'
  <2>1. \A a, d \in Callers : a # d => (hand'[a] # None => hand'[a] # hand'[d])
    BY <1>1 DEF IInv, OneOwner, ClaimsApart, TypeOK
  <2> QED
    BY <2>1, <1>1, <1>3, <1>4 DEF IInv, OneOwner, ClaimsApart
<1>7. w \notin Range(idle) /\ w \notin Retired
  BY <1>2 DEF IInv, OneOwner
<1>8. Present' = Present
  BY <1>1 DEF Present
<1>9. active >= 1
  BY <1>2, Counted DEF IInv
<1>10. active' = Cardinality(Claimed')
  <2>1. Claimed \in SUBSET Workers
    BY SetsType DEF IInv
  <2>2. Cardinality(Claimed \ {w}) = Cardinality(Claimed) - 1
    BY <2>1, <1>2, CardAdd, PoolAssumption
  <2> QED
    BY <2>2, <1>1, <1>5 DEF IInv, CountersExact
<1>11. Spawning' = Spawning
  BY <1>1 DEF Spawning, IInv, TypeOK
<1>12. lease[c] = None
  BY <1>1 DEF IInv, Control
<1>13. live \in Nat /\ live # 0 /\ Len(idle) \in Nat
  BY <1>9, LenProperties DEF live, IInv, TypeOK
<1>14. ~closed => (\A k \in Closers : ~Stopping(k)) /\ ~reaped
  BY <1>13 DEF IInv, Control
<1>15. CASE Recycle(w)
  <2>1. retireLocked(<<w>>) /\ idle' = idle
    BY <1>15 DEF Release
  <2>2. /\ <<w>> \in Seq(Workers) /\ Range(<<w>>) = {w} /\ IsInjective(<<w>>)
        /\ Len(<<w>>) = 1
    BY <1>2, RangeOne
  <2>3. /\ QueuesApart' /\ Retired' = Retired \cup {w}
        /\ retiring' = Cardinality(Retired') /\ retiring' \in Nat
    BY Zenon, <2>1, <2>2, <1>1, <1>7, Retire DEF IInv
  <2>4. OneOwner'
    BY <2>1, <2>3, <1>2, <1>5, <1>6, <1>7, <1>8 DEF IInv, OneOwner
  <2>5. CountersExact'
    BY Zenon, <2>3, <1>1, <1>10, <1>11 DEF IInv, CountersExact, Spawning
  <2>6. sending' \in Seq(Workers) /\ retiring' = retiring + 1
    BY <2>1, <2>2 DEF retireLocked
  <2>7. TypeOK'
    BY <2>1, <2>3, <2>6, <1>1, <1>9 DEF IInv, TypeOK, CallerStates
  <2>8. live' = live
    BY <2>1, <2>6, <1>1, <1>13 DEF live, IInv, TypeOK
  <2>9. Control'
    BY <2>1, <2>8, <1>1, <1>12 DEF IInv, TypeOK, Control, Stopping
  <2>10. LiveBound' /\ NoLostWakeup' /\ ServedBound'
    BY <2>1, <2>8, <1>1, <1>3 DEF IInv, LiveBound, NoLostWakeup, ServedBound
  <2> QED
    BY <2>4, <2>5, <2>7, <2>9, <2>10 DEF IInv
<1>16. CASE ~Recycle(w)
  <2>1. idle' = Append(idle, w) /\ UNCHANGED <<retiring, sending>> /\ ~closed
    BY <1>16 DEF Release, Recycle
  <2>2. idle \in Seq(Workers) /\ IsInjective(idle)
    BY DEF IInv, TypeOK, OneOwner
  <2>3. /\ idle' \in Seq(Workers) /\ Len(idle') = Len(idle) + 1
        /\ Range(idle') = Range(idle) \cup {w} /\ IsInjective(idle')
    BY <2>1, <2>2, <1>2, <1>7, AppendProperties, RangeAppend
  <2>4. QueuesApart' /\ Retired' = Retired
    BY <2>1, <1>1, SameQueues DEF IInv, OneOwner
  <2>5. OneOwner'
    BY <2>3, <2>4, <1>2, <1>5, <1>6, <1>7, <1>8 DEF IInv, OneOwner
  <2>6. CountersExact'
    BY Zenon, <2>1, <2>4, <1>1, <1>10, <1>11 DEF IInv, CountersExact, Spawning
  <2>7. TypeOK'
    BY <2>1, <2>3, <1>1, <1>9 DEF IInv, TypeOK, CallerStates
  <2>8. live' = live
    BY <2>1, <2>3, <1>1, <1>13 DEF live, IInv, TypeOK
  <2>9. Control'
    BY <2>1, <2>8, <1>1, <1>12 DEF IInv, TypeOK, Control, Stopping
  <2>10. LiveBound' /\ NoLostWakeup'
    BY <2>8, <1>1 DEF IInv, LiveBound, NoLostWakeup
  <2>11. MaxCheckoutsPerWorker > 0 => served[w] < MaxCheckoutsPerWorker
    BY <1>16, <1>2, CheckoutsAssumption DEF Recycle, IInv, TypeOK
  <2>12. ServedBound'
    BY <2>3, <2>11, <1>1, <1>3 DEF IInv, ServedBound
  <2> QED
    BY <2>5, <2>6, <2>7, <2>9, <2>10, <2>12 DEF IInv
<1> QED
  BY <1>15, <1>16

\* lease.terminate: the worker moves from the lease to the terminating goroutine.
LEMMA TerminateStep ==
  ASSUME IInv, NEW c \in Callers, Terminate(c)
  PROVE  IInv'
<1> DEFINE w == lease[c]
<1>1. /\ w # None /\ lease' = [lease EXCEPT ![c] = None]
      /\ killing' = killing \cup {w}
      /\ UNCHANGED <<coreVars, pc, hand, condemned, served>>
  BY DEF Terminate
<1>2. w \in Workers /\ w \in Leased
  BY <1>1 DEF IInv, TypeOK, Leased
<1>3. Leased' = Leased \ {w}
  BY <1>1, <1>2 DEF IInv, TypeOK, OneOwner, ClaimsApart, Leased
<1>4. Handed' = Handed
  BY <1>1 DEF Handed
<1>5. Claimed' = Claimed
  BY <1>1, <1>2, <1>3, <1>4 DEF Claimed
<1>6. ClaimsApart'
  <2>1. \A a, d \in Callers : a # d => (lease'[a] # None => lease'[a] # lease'[d])
    BY <1>1 DEF IInv, OneOwner, ClaimsApart, TypeOK
  <2> QED
    BY <2>1, <1>1, <1>2, <1>3, <1>4 DEF IInv, OneOwner, ClaimsApart
<1>7. QueuesApart' /\ Retired' = Retired
  BY <1>1, SameQueues DEF IInv, OneOwner, coreVars
<1>8. Present' = Present
  BY <1>1 DEF Present, coreVars
<1>9. OneOwner'
  BY <1>1, <1>5, <1>6, <1>7, <1>8 DEF IInv, OneOwner, coreVars
<1>10. CountersExact'
  BY <1>1, <1>5, <1>7 DEF IInv, CountersExact, coreVars
<1>11. TypeOK'
  BY <1>1, <1>2 DEF IInv, TypeOK, coreVars
<1>12. live' = live
  BY <1>1 DEF live, coreVars
<1>13. Control'
  BY <1>1, <1>12 DEF IInv, TypeOK, Control, Stopping, coreVars
<1>14. LiveBound' /\ NoLostWakeup' /\ ServedBound'
  BY Zenon, <1>1, <1>3, <1>12 DEF IInv, LiveBound, NoLostWakeup, ServedBound, coreVars
<1> QED
  BY <1>9, <1>10, <1>11, <1>13, <1>14 DEF IInv

LEMMA TerminateKillStep ==
  ASSUME IInv, NEW w \in Workers, TerminateKill(w)
  PROVE  IInv'
<1>1. /\ w \in killing /\ killing' = killing \ {w} /\ condemned' = condemned \cup {w}
      /\ proc' = [proc EXCEPT ![w] = IF @ = "alive" THEN "killed" ELSE @]
      /\ UNCHANGED <<idle, starting, active, retiring, closed, waiting, reaper, reaped,
                     sending, reaping, shut, waits, pc, lease, hand, served>>
  BY DEF TerminateKill
<1>2. Leased' = Leased /\ Handed' = Handed
  BY <1>1 DEF Leased, Handed
<1>3. Claimed' = Claimed
  BY <1>1, <1>2 DEF Claimed
<1>4. ClaimsApart'
  BY <1>1, <1>2 DEF IInv, OneOwner, ClaimsApart
<1>5. QueuesApart' /\ Retired' = Retired
  BY <1>1, SameQueues DEF IInv, OneOwner
<1>6. Present' = Present
  BY <1>1 DEF Present, IInv, TypeOK
<1>7. OneOwner'
  BY <1>1, <1>3, <1>4, <1>5, <1>6 DEF IInv, OneOwner
<1>8. CountersExact'
  BY <1>1, <1>3, <1>5 DEF IInv, CountersExact
<1>9. TypeOK'
  BY <1>1 DEF IInv, TypeOK, ProcStates
<1>10. live' = live
  BY <1>1 DEF live
<1>11. Control'
  BY Zenon, <1>1, <1>10 DEF IInv, Control, Stopping
<1>12. LiveBound' /\ NoLostWakeup' /\ ServedBound'
  BY <1>1, <1>2, <1>10 DEF IInv, LiveBound, NoLostWakeup, ServedBound
<1> QED
  BY <1>7, <1>8, <1>9, <1>11, <1>12 DEF IInv

LEMMA RetireLeaseStep ==
  ASSUME IInv, NEW w \in Workers, retireLease(w)
  PROVE  IInv'
<1>1. /\ w \in condemned /\ MuFree /\ active' = active - 1 /\ retireLocked(<<w>>)
      /\ waiting' = {} /\ condemned' = condemned \ {w}
      /\ UNCHANGED <<proc, idle, starting, closed, reaper, reaped, reaping, shut, waits,
                     pc, lease, hand, killing, served>>
  BY DEF retireLease, wakeLocked
<1>2. Leased' = Leased /\ Handed' = Handed
  BY <1>1 DEF Leased, Handed
<1>3. w \in Claimed /\ Claimed' = Claimed \ {w}
  BY <1>1, <1>2 DEF IInv, OneOwner, ClaimsApart, Claimed
<1>4. ClaimsApart'
  BY <1>1, <1>2 DEF IInv, OneOwner, ClaimsApart
<1>5. w \notin Retired /\ w \notin Range(idle)
  BY <1>3 DEF IInv, OneOwner
<1>6. /\ <<w>> \in Seq(Workers) /\ Range(<<w>>) = {w} /\ IsInjective(<<w>>)
      /\ Len(<<w>>) = 1
  BY RangeOne
<1>7. /\ QueuesApart' /\ Retired' = Retired \cup {w}
      /\ retiring' = Cardinality(Retired') /\ retiring' \in Nat
  BY Zenon, <1>1, <1>5, <1>6, Retire DEF IInv
<1>8. Present' = Present
  BY <1>1 DEF Present
<1>9. OneOwner'
  BY <1>1, <1>3, <1>4, <1>5, <1>7, <1>8 DEF IInv, OneOwner
<1>10. active >= 1
  BY <1>3, Counted DEF IInv
<1>11. active' = Cardinality(Claimed')
  <2>1. Claimed \in SUBSET Workers
    BY SetsType DEF IInv
  <2>2. Cardinality(Claimed \ {w}) = Cardinality(Claimed) - 1
    BY <2>1, <1>3, CardAdd, PoolAssumption
  <2> QED
    BY <2>2, <1>1, <1>3 DEF IInv, CountersExact
<1>12. CountersExact'
  BY <1>1, <1>7, <1>11 DEF IInv, CountersExact
<1>13. sending' \in Seq(Workers) /\ retiring' = retiring + 1
  BY <1>1, <1>6 DEF retireLocked
<1>14. TypeOK'
  BY <1>1, <1>7, <1>10, <1>13 DEF IInv, TypeOK
<1>15. live' = live
  <2>1. Len(idle) \in Nat
    BY LenProperties DEF IInv, TypeOK
  <2> QED
    BY <2>1, <1>1, <1>13 DEF live, IInv, TypeOK
<1>16. Control'
  BY Zenon, <1>1, <1>15 DEF IInv, Control, Stopping
<1>17. LiveBound' /\ NoLostWakeup' /\ ServedBound'
  BY <1>1, <1>2, <1>15 DEF IInv, LiveBound, NoLostWakeup, ServedBound
<1> QED
  BY <1>9, <1>12, <1>14, <1>16, <1>17 DEF IInv
-----------------------------------------------------------------------------
\* The invariant is inductive.
=============================================================================
