-------------------------- MODULE LocalPoolSteps ---------------------------
(* The invariant and the steps of reapers, Close and callers that acquire.     *)
EXTENDS LocalPoolInv

\* The reaper channel and the reapers.
LEMMA SendStep ==
  ASSUME IInv, Send, UNCHANGED callVars
  PROVE  IInv'
<1>1. /\ sending \in Seq(Workers) /\ sending # <<>> /\ IsInjective(sending)
      /\ reaper \in Seq(Workers) /\ IsInjective(reaper)
  BY DEF IInv, TypeOK, OneOwner, QueuesApart, Send
<1>2. /\ Head(sending) \in Workers /\ Tail(sending) \in Seq(Workers)
      /\ Head(sending) \in Range(sending)
      /\ Range(Tail(sending)) = Range(sending) \ {Head(sending)}
      /\ IsInjective(Tail(sending))
  BY <1>1, HeadTailProperties, RangeHeadTail
<1>3. Head(sending) \notin Range(reaper)
  BY <1>2 DEF IInv, OneOwner, QueuesApart
<1>4. /\ Append(reaper, Head(sending)) \in Seq(Workers)
      /\ Range(Append(reaper, Head(sending))) = Range(reaper) \cup {Head(sending)}
      /\ IsInjective(Append(reaper, Head(sending)))
  BY <1>1, <1>2, <1>3, AppendProperties, RangeAppend
<1>5. /\ reaper' = Append(reaper, Head(sending)) /\ sending' = Tail(sending)
      /\ reaping' = reaping
  BY DEF Send
<1>6. Range(reaper') = Range(reaper) \cup {Head(sending)}
      /\ Range(sending') = Range(sending) \ {Head(sending)}
  BY <1>2, <1>4, <1>5
<1>7. Retired' = Retired /\ Reaping' = Reaping
  BY <1>2, <1>5, <1>6 DEF Retired, Reaping
<1>8. QueuesApart'
  BY <1>2, <1>4, <1>5, <1>6, <1>7 DEF IInv, OneOwner, QueuesApart
<1>9. ClaimsApart' /\ Claimed' = Claimed /\ Leased' = Leased
  BY SameClaims DEF IInv, OneOwner, callVars
<1>10. Present' = Present
  BY DEF Present, Send
<1>11. OneOwner'
  BY <1>7, <1>8, <1>9, <1>10 DEF IInv, OneOwner, Send
<1>12. TypeOK'
  BY <1>2, <1>4, <1>5 DEF IInv, TypeOK, Send, callVars
<1>13. CountersExact'
  BY <1>7, <1>9 DEF IInv, CountersExact, Send, callVars
<1>14. live' = live
  BY DEF Send, live
<1>15. Control'
  BY <1>14 DEF IInv, Control, Stopping, Send, callVars
<1>16. LiveBound' /\ NoLostWakeup' /\ ServedBound'
  BY <1>9, <1>14 DEF IInv, LiveBound, NoLostWakeup, ServedBound, Send, callVars
<1> QED
  BY <1>11, <1>12, <1>13, <1>15, <1>16 DEF IInv

LEMMA ReapTakeStep ==
  ASSUME IInv, NEW r \in Reapers, ReapTake(r), UNCHANGED callVars
  PROVE  IInv'
<1>1. reaper \in Seq(Workers) /\ reaper # <<>> /\ IsInjective(reaper)
  BY DEF IInv, TypeOK, OneOwner, QueuesApart, ReapTake
<1>2. /\ Head(reaper) \in Workers /\ Tail(reaper) \in Seq(Workers)
      /\ Head(reaper) \in Range(reaper)
      /\ Range(Tail(reaper)) = Range(reaper) \ {Head(reaper)}
      /\ IsInjective(Tail(reaper))
  BY <1>1, HeadTailProperties, RangeHeadTail
<1>3. /\ reaping[r] = None /\ reaping' = [reaping EXCEPT ![r] = Head(reaper)]
      /\ reaper' = Tail(reaper) /\ sending' = sending
  BY DEF ReapTake
<1>4. Range(reaper') = Range(reaper) \ {Head(reaper)} /\ Range(sending') = Range(sending)
  BY <1>2, <1>3
<1>5. Head(reaper) # None
  BY <1>2, PoolAssumption
<1>6. Reaping' = Reaping \cup {Head(reaper)}
  BY <1>3, <1>5 DEF IInv, TypeOK, Reaping
<1>7. Retired' = Retired
  BY <1>2, <1>4, <1>6 DEF Retired
<1>8. \A q \in Reapers : q # r => reaping[q] # Head(reaper)
  BY <1>2, <1>5 DEF IInv, OneOwner, QueuesApart, Reaping
<1>9. QueuesApart'
  <2>1. IsInjective(reaper') /\ IsInjective(sending')
    BY <1>2, <1>3 DEF IInv, OneOwner, QueuesApart
  <2>2. \A q, p \in Reapers : q # p /\ reaping'[q] # None => reaping'[q] # reaping'[p]
    BY <1>3, <1>5, <1>8 DEF IInv, OneOwner, QueuesApart, TypeOK
  <2> QED
    BY <2>1, <2>2, <1>2, <1>4, <1>6 DEF IInv, OneOwner, QueuesApart
<1>10. ClaimsApart' /\ Claimed' = Claimed /\ Leased' = Leased
  BY SameClaims DEF IInv, OneOwner, callVars
<1>11. Present' = Present
  BY DEF Present, ReapTake
<1>12. OneOwner'
  BY <1>7, <1>9, <1>10, <1>11 DEF IInv, OneOwner, ReapTake
<1>13. TypeOK'
  BY <1>2, <1>3 DEF IInv, TypeOK, ReapTake, callVars
<1>14. CountersExact'
  BY <1>7, <1>10 DEF IInv, CountersExact, ReapTake, callVars
<1>15. live' = live
  BY DEF ReapTake, live
<1>16. Control'
  BY <1>15 DEF IInv, Control, Stopping, ReapTake, callVars
<1>17. LiveBound' /\ NoLostWakeup' /\ ServedBound'
  BY <1>10, <1>15 DEF IInv, LiveBound, NoLostWakeup, ServedBound, ReapTake, callVars
<1> QED
  BY <1>12, <1>13, <1>14, <1>16, <1>17 DEF IInv

LEMMA ReapDoneStep ==
  ASSUME IInv, NEW r \in Reapers, ReapDone(r), UNCHANGED callVars
  PROVE  IInv'
<1> DEFINE w == reaping[r]
<1>1. w \in Workers /\ w # None /\ w \in Reaping
  BY DEF IInv, TypeOK, ReapDone, Reaping
<1>2. /\ reaping' = [reaping EXCEPT ![r] = None]
      /\ UNCHANGED <<reaper, sending, idle>>
  BY DEF ReapDone
<1>3. Reaping' = Reaping \ {w}
  BY <1>1, <1>2 DEF IInv, TypeOK, OneOwner, QueuesApart, Reaping
<1>4. w \in Retired /\ Retired' = Retired \ {w}
  BY <1>1, <1>2, <1>3 DEF IInv, OneOwner, QueuesApart, Retired
<1>5. QueuesApart'
  BY <1>2, <1>3 DEF IInv, TypeOK, OneOwner, QueuesApart
<1>6. ClaimsApart' /\ Claimed' = Claimed /\ Leased' = Leased
  BY SameClaims DEF IInv, OneOwner, callVars
<1>7. Present' = Present \ {w}
  BY <1>1 DEF Present, ReapDone, IInv, TypeOK
<1>8. OneOwner'
  <2>1. w \notin Range(idle) \cup Claimed
    BY <1>4 DEF IInv, OneOwner
  <2> QED
    BY <2>1, <1>2, <1>4, <1>5, <1>6, <1>7 DEF IInv, OneOwner
<1>9. retiring >= 1
  BY <1>4, Counted DEF IInv
<1>10. retiring' = Cardinality(Retired')
  <2>1. Retired \in SUBSET Workers
    BY SetsType DEF IInv
  <2>2. Cardinality(Retired \ {w}) = Cardinality(Retired) - 1
    BY <2>1, <1>1, <1>4, CardAdd, PoolAssumption
  <2> QED
    BY <2>2, <1>4 DEF ReapDone, IInv, CountersExact
<1>11. CountersExact'
  BY <1>6, <1>10 DEF IInv, CountersExact, ReapDone, callVars
<1>12. retiring' \in Nat /\ retiring' = retiring - 1
  BY <1>9 DEF ReapDone, IInv, TypeOK
<1>13. TypeOK'
  BY <1>1, <1>12 DEF IInv, TypeOK, ReapDone, wakeLocked, callVars, ProcStates
<1>14. live' = live - 1 /\ live \in Nat /\ live # 0
  BY <1>9, <1>12, LenProperties DEF live, ReapDone, IInv, TypeOK
<1>15. Control'
  BY <1>14 DEF IInv, Control, Stopping, ReapDone, wakeLocked, callVars
<1>16. LiveBound' /\ NoLostWakeup' /\ ServedBound'
  BY <1>6, <1>14, PoolAssumption
  DEF IInv, LiveBound, NoLostWakeup, ServedBound, ReapDone, wakeLocked, callVars
<1> QED
  BY <1>8, <1>11, <1>13, <1>15, <1>16 DEF IInv

\* Close retires every idle worker, or finds the pool closed.
LEMMA CloseStep ==
  ASSUME IInv, NEW k \in Closers, Close(k), UNCHANGED callVars
  PROVE  IInv'
<1>1. ClaimsApart' /\ Claimed' = Claimed /\ Leased' = Leased
  BY SameClaims DEF IInv, OneOwner, callVars
<1>2. Present' = Present
  BY DEF Present, Close
<1>3. k \notin waiting
  BY DEF Close, IInv, Control
<1>4. CASE closed
  <2>1. /\ shut' = [shut EXCEPT ![k] = "drain"]
        /\ UNCHANGED <<closed, idle, retiring, sending, waiting, waits, proc, starting,
                       active, reaper, reaped, reaping>>
    BY <1>4 DEF Close
  <2>2. OneOwner' /\ CountersExact' /\ LiveBound' /\ ServedBound'
    BY <2>1, <1>2, Quiet DEF callVars, Spawning
  <2>3. TypeOK'
    BY <2>1 DEF IInv, TypeOK, callVars, ShutStates
  <2>4. Control'
    BY <2>1, <1>3, <1>4 DEF IInv, TypeOK, Control, Stopping, live, callVars
  <2>5. NoLostWakeup'
    BY <2>1 DEF IInv, NoLostWakeup, live
  <2> QED
    BY <2>2, <2>3, <2>4, <2>5 DEF IInv
<1>5. CASE ~closed
  <2>1. /\ closed' = TRUE /\ idle' = <<>> /\ retireLocked(idle) /\ waiting' = {}
        /\ shut' = [shut EXCEPT ![k] = "closing"]
        /\ waits' = [waits EXCEPT ![k] = Range(idle)]
        /\ UNCHANGED <<proc, starting, active, reaper, reaped, reaping>>
    BY <1>5 DEF Close, wakeLocked
  <2>2. idle \in Seq(Workers) /\ IsInjective(idle) /\ Range(idle) \cap Retired = {}
    BY DEF IInv, TypeOK, OneOwner
  <2>3. /\ QueuesApart' /\ Retired' = Retired \cup Range(idle)
        /\ retiring' = Cardinality(Retired') /\ retiring' \in Nat
    BY <2>1, <2>2, Retire DEF IInv, Close
  <2>4. OneOwner'
    BY <2>1, <2>3, <1>1, <1>2, RangeEmpty DEF IInv, OneOwner
  <2>5. CountersExact'
    BY <2>1, <2>3, <1>1 DEF IInv, CountersExact, callVars
  <2>6. Range(idle) \subseteq Workers
    BY <2>2, RangeOfSeq
  <2>7. TypeOK'
    BY <2>1, <2>2, <2>3, <2>6 DEF IInv, TypeOK, retireLocked, callVars, ShutStates
  <2>8. live' = live
    <3>1. Len(idle) \in Nat /\ idle' = <<>> /\ Len(<<>>) = 0
      BY <2>1, <2>2, LenProperties
    <3> QED
      BY <3>1, <2>1 DEF live, retireLocked, IInv, TypeOK
  <2>9. Control'
    BY <2>1, <2>8, <1>5 DEF IInv, TypeOK, Control, Stopping, callVars
  <2>10. LiveBound' /\ NoLostWakeup'
    BY <2>1, <2>8 DEF IInv, LiveBound, NoLostWakeup
  <2>11. ServedBound'
    BY <2>1, <1>1, RangeEmpty DEF IInv, ServedBound, callVars
  <2> QED
    BY <2>4, <2>5, <2>7, <2>9, <2>10, <2>11 DEF IInv
<1> QED
  BY <1>4, <1>5
-----------------------------------------------------------------------------
\* The callers.

\* A caller that runs acquire holds no worker.
LEMMA AcquiringHoldsNone ==
  ASSUME IInv, NEW c \in Callers, Acquiring(c)
  PROVE  lease[c] = None /\ hand[c] = None
  BY Zenon DEF IInv, Control, Acquiring

LEMMA AcquireIdleStep ==
  ASSUME IInv, NEW c \in Callers, AcquireIdle(c)
  PROVE  IInv'
<1>1. PICK k \in 1..Len(idle) :
         /\ idle' = SubSeq(idle, 1, k - 1)
         /\ retireLocked(DeadAbove(k))
         /\ NewCheckout(c, idle[k])
  BY DEF AcquireIdle
<1> DEFINE w == idle[k]
<1>2. /\ MuFree /\ ~closed /\ active' = active + 1 /\ Acquiring(c)
      /\ UNCHANGED <<proc, starting, closed, waiting, reaper, reaped, reaping, shut,
                     waits, hand, killing, condemned, served>>
  BY DEF AcquireIdle
<1>3. idle \in Seq(Workers) /\ IsInjective(idle) /\ Len(idle) \in Nat
  BY LenProperties DEF IInv, TypeOK, OneOwner
<1>4. lease[c] = None /\ hand[c] = None
  BY <1>2, AcquiringHoldsNone
<1>5. /\ idle' \in Seq(Workers) /\ IsInjective(idle') /\ Len(idle') = k - 1
      /\ DeadAbove(k) \in Seq(Workers) /\ IsInjective(DeadAbove(k))
      /\ Len(DeadAbove(k)) = Len(idle) - k
      /\ w \in Range(idle) /\ w \notin Range(idle') /\ w \notin Range(DeadAbove(k))
      /\ Range(idle') \cap Range(DeadAbove(k)) = {}
      /\ Range(idle) = Range(idle') \cup {w} \cup Range(DeadAbove(k))
  BY Zenon, <1>1, <1>3, SplitIdle
<1>6. w \in Workers /\ w \notin Claimed /\ w \notin Retired
  BY <1>3, <1>5, RangeOfSeq DEF IInv, OneOwner
<1>7. Range(DeadAbove(k)) \cap Retired = {} /\ Range(DeadAbove(k)) \cap Claimed = {}
  BY <1>5 DEF IInv, OneOwner
<1>8. /\ QueuesApart' /\ Retired' = Retired \cup Range(DeadAbove(k))
      /\ retiring' = Cardinality(Retired') /\ retiring' \in Nat
  BY <1>1, <1>2, <1>5, <1>7, Retire DEF IInv
<1>9. lease' = [lease EXCEPT ![c] = w] /\ pc' = [pc EXCEPT ![c] = "configure"]
  BY <1>1 DEF NewCheckout
<1>10. ClaimsApart' /\ Claimed' = Claimed \cup {w} /\ Leased' = Leased \cup {w}
  BY Zenon, <1>2, <1>4, <1>6, <1>9, Claim DEF IInv, OneOwner
<1>11. Present' = Present
  BY <1>2 DEF Present
<1>12. OneOwner'
  BY <1>5, <1>6, <1>7, <1>8, <1>10, <1>11 DEF IInv, OneOwner
<1>13. active' = Cardinality(Claimed')
  <2>1. Claimed \in SUBSET Workers
    BY SetsType DEF IInv
  <2>2. Cardinality(Claimed \cup {w}) = Cardinality(Claimed) + 1
    BY <2>1, <1>6, CardAdd, PoolAssumption
  <2> QED
    BY Zenon, <2>2, <1>2, <1>10 DEF IInv, CountersExact
<1>14. Spawning' = Spawning
  BY <1>2, <1>9 DEF Spawning, Acquiring, IInv, TypeOK
<1>15. CountersExact'
  BY Zenon, <1>2, <1>8, <1>13, <1>14 DEF IInv, CountersExact, Spawning
<1>15a. sending' \in Seq(Workers) /\ retiring' = retiring + (Len(idle) - k)
  BY <1>1, <1>5 DEF retireLocked
<1>16. TypeOK'
  <2>1. lease' \in [Callers -> Workers \cup {None}] /\ pc' \in [Callers -> CallerStates]
    BY <1>6, <1>9 DEF IInv, TypeOK, CallerStates
  <2>2. idle' \in Seq(Workers) /\ retiring' \in Nat
    BY <1>5, <1>8
  <2>3. active' \in Nat
    BY <1>2 DEF IInv, TypeOK
  <2> QED
    BY <2>1, <2>2, <2>3, <1>2, <1>15a DEF IInv, TypeOK
<1>17. live' = live
  BY SMTT(60), <1>2, <1>3, <1>5, <1>15a DEF live, IInv, TypeOK
<1>18. Range(idle) # {} /\ idle # <<>>
  BY <1>5, RangeEmpty
<1>19. waiting \cap Callers = {}
  BY <1>18 DEF IInv, NoLostWakeup
<1>20. Control'
  BY Zenon, <1>2, <1>4, <1>9, <1>17, <1>19 DEF IInv, TypeOK, Control, Stopping
<1>21. LiveBound' /\ NoLostWakeup'
  BY <1>2, <1>17, <1>19 DEF IInv, LiveBound, NoLostWakeup
<1>22. ServedBound'
  BY <1>2, <1>5, <1>10 DEF IInv, ServedBound
<1> QED
  BY <1>12, <1>15, <1>16, <1>20, <1>21, <1>22 DEF IInv

LEMMA AcquireNoneStep ==
  ASSUME IInv, NEW c \in Callers, AcquireNone(c)
  PROVE  IInv'
<1>1. /\ MuFree /\ ~closed /\ Acquiring(c) /\ idle' = <<>> /\ retireLocked(DeadAbove(0))
      /\ UNCHANGED <<proc, active, closed, reaper, reaped, reaping, shut, waits,
                     lease, hand, killing, condemned, served>>
  BY DEF AcquireNone
<1>2. idle \in Seq(Workers) /\ IsInjective(idle) /\ Len(idle) \in Nat
  BY LenProperties DEF IInv, TypeOK, OneOwner
<1>3. lease[c] = None /\ hand[c] = None
  BY <1>1, AcquiringHoldsNone
<1>4. /\ DeadAbove(0) \in Seq(Workers) /\ IsInjective(DeadAbove(0))
      /\ Len(DeadAbove(0)) = Len(idle) /\ Range(DeadAbove(0)) = Range(idle)
  BY <1>2, ReverseIdle
<1>5. Range(DeadAbove(0)) \cap Retired = {}
  BY <1>4 DEF IInv, OneOwner
<1>6. /\ QueuesApart' /\ Retired' = Retired \cup Range(idle)
      /\ retiring' = Cardinality(Retired') /\ retiring' \in Nat
  BY <1>1, <1>4, <1>5, Retire DEF IInv
<1>7. ClaimsApart' /\ Claimed' = Claimed /\ Leased' = Leased
  BY <1>1, SameClaims DEF IInv, OneOwner
<1>8. Present' = Present
  BY <1>1 DEF Present
<1>9. OneOwner'
  BY <1>1, <1>6, <1>7, <1>8, RangeEmpty DEF IInv, OneOwner
<1>10. ServedBound'
  BY <1>1, <1>7, RangeEmpty DEF IInv, ServedBound
<1>11. Len(idle') = 0 /\ retiring' = retiring + Len(idle) /\ sending' = DeadAbove(0)
  BY <1>1, <1>4 DEF retireLocked
<1>12. idle' \in Seq(Workers)
  BY <1>1
<1>13. CASE live < MaxProcesses
  <2>1. starting' = starting + 1 /\ pc' = [pc EXCEPT ![c] = "spawn"] /\ waiting' = waiting
    BY SMTT(60), <1>13, PoolAssumption, LenProperties DEF AcquireNone, Goto, IInv, TypeOK, live
  <2>2. Spawning' = Spawning \cup {c} /\ c \notin Spawning /\ Spawning \in SUBSET Callers
    BY <2>1, <1>1 DEF Spawning, IInv, TypeOK, Acquiring
  <2>3. Cardinality(Spawning \cup {c}) = Cardinality(Spawning) + 1
    BY <2>2, CardAdd, PoolAssumption
  <2>4. CountersExact'
    BY Zenon, <2>1, <2>2, <2>3, <1>1, <1>6, <1>7 DEF IInv, CountersExact, Spawning
  <2>5. TypeOK'
    BY SMTT(60), <2>1, <1>1, <1>4, <1>6, <1>11, <1>12 DEF IInv, TypeOK, CallerStates
  <2>6. live' = live + 1 /\ live \in Nat
    BY <2>1, <1>1, <1>2, <1>11 DEF live, IInv, TypeOK
  <2>7. waiting \cap Callers = {}
    BY <1>13, <2>6, PoolAssumption DEF IInv, NoLostWakeup
  <2>8. Control'
    BY Zenon, <2>1, <2>7, <1>1, <1>3 DEF IInv, TypeOK, Control, Stopping
  <2>9. LiveBound' /\ NoLostWakeup'
    BY <2>1, <2>6, <2>7, <1>13, PoolAssumption DEF IInv, LiveBound, NoLostWakeup
  <2> QED
    BY <2>4, <2>5, <2>8, <2>9, <1>9, <1>10 DEF IInv
<1>14. CASE ~(live < MaxProcesses)
  <2>1. /\ starting' = starting /\ pc' = [pc EXCEPT ![c] = "wait"]
        /\ waiting' = waiting \cup {c} /\ live >= MaxProcesses
    BY Zenon, <1>14, PoolAssumption, LenProperties DEF AcquireNone, Goto, IInv, TypeOK, live
  <2>2. Spawning' = Spawning
    BY <2>1, <1>1 DEF Spawning, IInv, TypeOK, Acquiring
  <2>3. CountersExact'
    BY Zenon, <2>1, <2>2, <1>1, <1>6, <1>7 DEF IInv, CountersExact, Spawning
  <2>4. TypeOK'
    BY Zenon, <2>1, <1>1, <1>4, <1>6, <1>11, <1>12 DEF IInv, TypeOK, CallerStates
  <2>5. live' = live /\ live \in Nat
    BY <2>1, <1>1, <1>2, <1>11 DEF live, IInv, TypeOK
  <2>6. c \notin Closers
    BY PoolAssumption
  <2>7. Control'
    BY Zenon, <2>1, <2>5, <2>6, <1>1, <1>3 DEF IInv, TypeOK, Control, Stopping
  <2>8. LiveBound' /\ NoLostWakeup'
    BY <2>1, <2>5, <2>6, <1>1, PoolAssumption DEF IInv, LiveBound, NoLostWakeup
  <2> QED
    BY <2>3, <2>4, <2>7, <2>8, <1>9, <1>10 DEF IInv
<1> QED
  BY <1>13, <1>14

\* A caller in Spawn is counted, and no longer once Spawn returned.
LEMMA SpawnReturns ==
  ASSUME IInv, NEW c \in Callers, pc[c] = "spawn", NEW l \in CallerStates \ {"spawn"},
         pc' = [pc EXCEPT ![c] = l], starting' = starting - 1
  PROVE  starting' = Cardinality(Spawning') /\ starting' \in Nat /\ starting >= 1
<1>1. c \in Spawning /\ Spawning' = Spawning \ {c} /\ Spawning \in SUBSET Callers
  BY DEF Spawning, IInv, TypeOK
<1>2. Cardinality(Spawning \ {c}) = Cardinality(Spawning) - 1
  BY <1>1, CardAdd, PoolAssumption
<1>3. starting >= 1
  BY <1>1, Counted DEF IInv
<1>4. starting = Cardinality(Spawning)
  BY DEF IInv, CountersExact, Spawning
<1> QED
  BY <1>1, <1>2, <1>3, <1>4 DEF IInv, TypeOK

LEMMA SpawnFailsStep ==
  ASSUME IInv, NEW c \in Callers, SpawnFails(c)
  PROVE  IInv'
<1>1. /\ pc[c] = "spawn" /\ starting' = starting - 1 /\ waiting' = {}
      /\ pc' = [pc EXCEPT ![c] = "idle"]
      /\ UNCHANGED <<proc, idle, active, retiring, closed, reaper, reaped, sending,
                     reaping, shut, waits, lease, hand, killing, condemned, served>>
  BY DEF SpawnFails, Goto, wakeLocked
<1>2. starting' = Cardinality(Spawning') /\ starting' \in Nat /\ starting >= 1
  BY Zenon, <1>1, SpawnReturns DEF CallerStates
<1>3. ClaimsApart' /\ Claimed' = Claimed /\ Leased' = Leased
  BY <1>1, SameClaims DEF IInv, OneOwner
<1>4. QueuesApart' /\ Retired' = Retired
  BY <1>1, SameQueues DEF IInv, OneOwner
<1>5. Present' = Present
  BY <1>1 DEF Present
<1>6. OneOwner'
  BY <1>1, <1>3, <1>4, <1>5 DEF IInv, OneOwner
<1>7. CountersExact'
  BY <1>1, <1>2, <1>3, <1>4 DEF IInv, CountersExact, Spawning
<1>8. TypeOK'
  BY <1>1, <1>2 DEF IInv, TypeOK, CallerStates
<1>9. live' = live - 1 /\ live \in Nat /\ live # 0
  BY <1>1, <1>2, LenProperties DEF live, IInv, TypeOK
<1>10. Control'
  BY <1>1, <1>9 DEF IInv, TypeOK, Control, Stopping
<1>11. LiveBound' /\ NoLostWakeup' /\ ServedBound'
  BY <1>1, <1>3, <1>9, PoolAssumption DEF IInv, LiveBound, NoLostWakeup, ServedBound
<1> QED
  BY <1>6, <1>7, <1>8, <1>10, <1>11 DEF IInv

LEMMA SpawnedStep ==
  ASSUME IInv, NEW c \in Callers, NEW w \in Workers, Spawned(c, w)
  PROVE  IInv'
<1>1. /\ pc[c] = "spawn" /\ MuFree /\ proc[w] = "absent"
      /\ proc' = [proc EXCEPT ![w] = "alive"]
      /\ starting' = starting - 1
      /\ served' = [served EXCEPT ![w] = 0]
      /\ UNCHANGED <<idle, closed, reaper, reaped, reaping, shut, waits,
                     hand, killing, condemned>>
  BY DEF Spawned
<1>2. w \notin Present /\ Present' = Present \cup {w}
  BY <1>1 DEF Present, IInv, TypeOK
<1>3. w \notin Range(idle) /\ w \notin Claimed /\ w \notin Retired
  BY <1>2 DEF IInv, OneOwner
<1>4. lease[c] = None /\ hand[c] = None
  BY Zenon, <1>1 DEF IInv, Control
<1>5. served' \in [Workers -> 0..MaxCheckoutsPerWorker]
  BY <1>1, CheckoutsAssumption DEF IInv, TypeOK
<1>6. proc' \in [Workers -> ProcStates]
  BY <1>1 DEF IInv, TypeOK, ProcStates
<1>7. live \in Nat /\ Len(idle) \in Nat
  BY LenProperties DEF live, IInv, TypeOK
<1>8. CASE closed
  <2>1. /\ retireLocked(<<w>>) /\ waiting' = {} /\ pc' = [pc EXCEPT ![c] = "idle"]
        /\ UNCHANGED <<active, lease>>
    BY <1>8 DEF Spawned, wakeLocked, Goto
  <2>2. starting' = Cardinality(Spawning') /\ starting' \in Nat /\ starting >= 1
    BY Zenon, <1>1, <2>1, SpawnReturns DEF CallerStates
  <2>3. /\ <<w>> \in Seq(Workers) /\ Range(<<w>>) = {w} /\ IsInjective(<<w>>)
        /\ Len(<<w>>) = 1
    BY RangeOne
  <2>4. /\ QueuesApart' /\ Retired' = Retired \cup {w}
        /\ retiring' = Cardinality(Retired') /\ retiring' \in Nat
    BY Zenon, <2>1, <2>3, <1>1, <1>3, Retire DEF IInv
  <2>5. ClaimsApart' /\ Claimed' = Claimed /\ Leased' = Leased
    BY <2>1, <1>1, SameClaims DEF IInv, OneOwner
  <2>6. OneOwner'
    BY <2>4, <2>5, <1>1, <1>2, <1>3 DEF IInv, OneOwner
  <2>7. CountersExact'
    BY <2>1, <2>2, <2>4, <2>5 DEF IInv, CountersExact, Spawning
  <2>8. sending' \in Seq(Workers) /\ retiring' = retiring + 1
    BY <2>1, <2>3 DEF retireLocked
  <2>9. TypeOK'
    BY Zenon, <2>1, <2>2, <2>4, <2>8, <1>1, <1>5, <1>6 DEF IInv, TypeOK, CallerStates
  <2>10. live' = live
    BY SMTT(60), <2>1, <2>8, <1>1, <1>7 DEF live, IInv, TypeOK
  <2>11. Control'
    BY Zenon, <2>1, <2>10, <1>1, <1>4 DEF IInv, TypeOK, Control, Stopping
  <2>12. LiveBound' /\ NoLostWakeup'
    BY <2>1, <2>10 DEF IInv, LiveBound, NoLostWakeup
  <2>13. ServedBound'
    BY SMTT(60), <2>5, <1>1, <1>3 DEF IInv, ServedBound, Claimed, TypeOK
  <2> QED
    BY <2>6, <2>7, <2>9, <2>11, <2>12, <2>13 DEF IInv
<1>9. CASE ~closed
  <2>1. /\ active' = active + 1 /\ lease' = [lease EXCEPT ![c] = w]
        /\ pc' = [pc EXCEPT ![c] = "configure"]
        /\ UNCHANGED <<retiring, sending, waiting>>
    BY Zenon, <1>9 DEF Spawned, NewCheckout
  <2>2. starting' = Cardinality(Spawning') /\ starting' \in Nat /\ starting >= 1
    BY Zenon, <1>1, <2>1, SpawnReturns DEF CallerStates
  <2>3. QueuesApart' /\ Retired' = Retired
    BY <2>1, <1>1, SameQueues DEF IInv, OneOwner
  <2>4. ClaimsApart' /\ Claimed' = Claimed \cup {w} /\ Leased' = Leased \cup {w}
    BY Zenon, <2>1, <1>1, <1>3, <1>4, Claim DEF IInv, OneOwner
  <2>5. OneOwner'
    BY <2>3, <2>4, <1>1, <1>2, <1>3 DEF IInv, OneOwner
  <2>6. active' = Cardinality(Claimed')
    <3>1. Claimed \in SUBSET Workers
      BY SetsType DEF IInv
    <3>2. Cardinality(Claimed \cup {w}) = Cardinality(Claimed) + 1
      BY <3>1, <1>3, CardAdd, PoolAssumption
    <3> QED
      BY <3>2, <2>1, <2>4 DEF IInv, CountersExact
  <2>7. CountersExact'
    BY <2>1, <2>2, <2>3, <2>6 DEF IInv, CountersExact, Spawning
  <2>8. TypeOK'
    <3>1. active' \in Nat
      BY <2>1 DEF IInv, TypeOK
    <3>2. /\ pc' \in [Callers -> CallerStates]
          /\ lease' \in [Callers -> Workers \cup {None}]
      BY <2>1, <1>1 DEF IInv, TypeOK, CallerStates
    <3> QED
      BY Zenon, <2>1, <2>2, <3>1, <3>2, <1>1, <1>5, <1>6 DEF IInv, TypeOK
  <2>9. live' = live
    BY SMTT(60), <2>1, <1>1, <1>7 DEF live, IInv, TypeOK
  <2>10. c \notin waiting
    BY Zenon, <1>1 DEF IInv, Control
  <2>11. Control'
    BY Zenon, <2>1, <2>9, <2>10, <1>1, <1>4 DEF IInv, TypeOK, Control, Stopping
  <2>12. LiveBound' /\ NoLostWakeup'
    BY <2>1, <2>9, <1>1 DEF IInv, LiveBound, NoLostWakeup
  <2>13. ServedBound'
    <3>1. ASSUME MaxCheckoutsPerWorker > 0, NEW v \in Leased' \cup Range(idle')
          PROVE  served'[v] < MaxCheckoutsPerWorker
      <4>1. CASE v = w
        BY <4>1, <3>1, <1>1 DEF IInv, TypeOK
      <4>2. CASE v # w
        BY SMTT(60), <4>2, <3>1, <2>4, <1>1 DEF IInv, TypeOK, ServedBound
      <4> QED
        BY <4>1, <4>2
    <3> QED
      BY <3>1 DEF ServedBound
  <2> QED
    BY <2>5, <2>7, <2>8, <2>11, <2>12, <2>13 DEF IInv
<1> QED
  BY <1>8, <1>9
=============================================================================
