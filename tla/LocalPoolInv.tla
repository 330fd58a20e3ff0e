--------------------------- MODULE LocalPoolInv ----------------------------
(* The inductive invariant of LocalPool and the lemmas its proof rests on.     *)
EXTENDS LocalPool, FiniteSetTheorems, SequenceTheorems, FunctionTheorems, TLAPS

LiveBound == live <= MaxProcesses

Stopping(k) == shut[k] \in {"stop", "reapers", "ok"}

Control ==
    /\ \A c \in Callers : hand[c] # None <=> pc[c] = "release"
    /\ \A c \in Callers : lease[c] # None =>
          pc[c] \in {"configure", "held", "reset", "broken"}
    /\ \A c \in Callers : c \in waiting => pc[c] = "wait"
    /\ \A k \in Closers : k \in waiting => shut[k] = "blocked"
    /\ \A k \in Closers : shut[k] # "open" => closed
    /\ \A k \in Closers : Stopping(k) => live = 0
    /\ reaped => closed /\ live = 0
    /\ closed => idle = <<>>

IInv ==
    /\ TypeOK
    /\ OneOwner
    /\ CountersExact
    /\ LiveBound
    /\ Control
    /\ NoLostWakeup
    /\ ServedBound

Spawning == {c \in Callers : pc[c] = "spawn"}
-----------------------------------------------------------------------------
\* Sequences without repetitions: their elements and their length.

LEMMA RangeEmpty == Range(<<>>) = {} /\ IsInjective(<<>>)
  BY DEF Range, IsInjective

LEMMA RangeOne ==
  ASSUME NEW S, NEW e \in S
  PROVE  <<e>> \in Seq(S) /\ Range(<<e>>) = {e} /\ IsInjective(<<e>>) /\ Len(<<e>>) = 1
  BY DEF Range, IsInjective

LEMMA RangeInSet ==
  ASSUME NEW S, NEW s \in Seq(S)
  PROVE  Range(s) \subseteq S
  BY RangeOfSeq

LEMMA RangeAppend ==
  ASSUME NEW S, NEW s \in Seq(S), NEW e \in S
  PROVE  /\ Range(Append(s, e)) = Range(s) \cup {e}
         /\ IsInjective(s) /\ e \notin Range(s) => IsInjective(Append(s, e))
<1>1. /\ Append(s, e) \in Seq(S)
      /\ Len(Append(s, e)) = Len(s) + 1
      /\ \A i \in 1..Len(s) : Append(s, e)[i] = s[i]
      /\ Append(s, e)[Len(s) + 1] = e
  BY AppendProperties
<1>2. DOMAIN s = 1..Len(s) /\ DOMAIN Append(s, e) = 1..Len(s) + 1 /\ Len(s) \in Nat
  BY <1>1, LenProperties
<1>3. Range(Append(s, e)) = Range(s) \cup {e}
  BY <1>1, <1>2 DEF Range
<1>4. ASSUME IsInjective(s), e \notin Range(s) PROVE IsInjective(Append(s, e))
  BY <1>1, <1>2, <1>4 DEF IsInjective, Range
<1> QED
  BY <1>3, <1>4

LEMMA RangeHeadTail ==
  ASSUME NEW S, NEW s \in Seq(S), s # <<>>, IsInjective(s)
  PROVE  /\ Head(s) \in Range(s)
         /\ Range(Tail(s)) = Range(s) \ {Head(s)}
         /\ IsInjective(Tail(s))
<1>1. /\ Tail(s) \in Seq(S)
      /\ Len(Tail(s)) = Len(s) - 1
      /\ \A i \in 1..Len(Tail(s)) : Tail(s)[i] = s[i + 1]
  BY HeadTailProperties
<1>2. /\ DOMAIN s = 1..Len(s) /\ Len(s) \in Nat \ {0}
      /\ DOMAIN Tail(s) = 1..Len(s) - 1
      /\ Head(s) = s[1]
  BY <1>1, LenProperties, EmptySeq
<1>3. Head(s) \in Range(s)
  BY <1>2 DEF Range
<1>4. IsInjective(Tail(s))
  BY <1>1, <1>2 DEF IsInjective
<1>5. ASSUME NEW x \in Range(Tail(s)) PROVE x \in Range(s) \ {Head(s)}
  BY <1>1, <1>2, <1>5 DEF Range, IsInjective
<1>6. ASSUME NEW x \in Range(s) \ {Head(s)} PROVE x \in Range(Tail(s))
  <2>1. PICK i \in 1..Len(s) : s[i] = x
    BY <1>2 DEF Range
  <2>2. i - 1 \in 1..Len(Tail(s)) /\ Tail(s)[i - 1] = x
    BY <2>1, <1>1, <1>2
  <2> QED
    BY Zenon, <2>2, <1>1, <1>2 DEF Range
<1> QED
  BY <1>3, <1>4, <1>5, <1>6

LEMMA CardRange ==
  ASSUME NEW S, NEW s \in Seq(S), IsInjective(s)
  PROVE  IsFiniteSet(Range(s)) /\ Cardinality(Range(s)) = Len(s)
<1>1. Len(s) \in Nat /\ DOMAIN s = 1..Len(s) /\ s \in [1..Len(s) -> Range(s)]
  BY LenProperties DEF Range
<1>2. s \in Bijection(1..Len(s), Range(s))
  BY <1>1 DEF Bijection, Injection, Surjection, Range, IsInjective
<1>3. ExistsBijection(1..Len(s), Range(s))
  BY <1>2 DEF ExistsBijection
<1> QED
  BY <1>1, <1>3, FS_CountingElements, FS_NatBijection

LEMMA SplitIdle ==
  ASSUME NEW k \in 1..Len(idle), idle \in Seq(Workers), IsInjective(idle)
  PROVE  /\ SubSeq(idle, 1, k - 1) \in Seq(Workers)
         /\ IsInjective(SubSeq(idle, 1, k - 1))
         /\ Len(SubSeq(idle, 1, k - 1)) = k - 1
         /\ DeadAbove(k) \in Seq(Workers)
         /\ IsInjective(DeadAbove(k))
         /\ Len(DeadAbove(k)) = Len(idle) - k
         /\ idle[k] \in Range(idle)
         /\ idle[k] \notin Range(SubSeq(idle, 1, k - 1))
         /\ idle[k] \notin Range(DeadAbove(k))
         /\ Range(SubSeq(idle, 1, k - 1)) \cap Range(DeadAbove(k)) = {}
         /\ Range(idle) = Range(SubSeq(idle, 1, k - 1)) \cup {idle[k]} \cup Range(DeadAbove(k))
<1> DEFINE lo == SubSeq(idle, 1, k - 1)
           hi == DeadAbove(k)
           n == Len(idle)
<1>1. n \in Nat /\ DOMAIN idle = 1..n /\ idle \in [1..n -> Workers]
  BY LenProperties
<1>2. lo \in Seq(Workers) /\ Len(lo) = k - 1 /\ \A i \in 1..k-1 : lo[i] = idle[i]
  BY <1>1, SubSeqProperties
<1>3. DOMAIN lo = 1..k-1
  BY <1>2, LenProperties
<1>4. hi = [i \in 1..n-k |-> idle[n+1-i]]
  BY DEF DeadAbove
<1>5. hi \in [1..n-k -> Workers]
  BY <1>1, <1>4
<1>6. hi \in Seq(Workers) /\ DOMAIN hi = 1..n-k /\ Len(hi) = n - k
  <2>1. n - k \in Nat
    BY <1>1
  <2>2. hi \in Seq(Workers)
    BY <2>1, <1>5, SeqDef
  <2> QED
    BY <2>1, <2>2, <1>5, LenProperties
<1>7. IsInjective(lo)
  BY <1>1, <1>2, <1>3 DEF IsInjective
<1>8. IsInjective(hi)
  BY <1>1, <1>4, <1>6 DEF IsInjective
<1>9. Range(lo) = {idle[i] : i \in 1..k-1}
  BY Zenon, <1>2, <1>3 DEF Range
<1>10. Range(hi) = {idle[i] : i \in k+1..n}
  <2>1. ASSUME NEW i \in k+1..n PROVE idle[i] \in Range(hi)
    <3>1. n + 1 - i \in 1..n-k /\ hi[n + 1 - i] = idle[i]
      BY <1>1, <1>4
    <3> QED
      BY Zenon, <3>1, <1>6 DEF Range
  <2>2. ASSUME NEW i \in 1..n-k PROVE hi[i] \in {idle[j] : j \in k+1..n}
    <3>1. n + 1 - i \in k+1..n /\ hi[i] = idle[n + 1 - i]
      BY <1>1, <1>4
    <3> QED
      BY <3>1
  <2> QED
    BY Zenon, <2>1, <2>2, <1>6 DEF Range
<1>11. Range(idle) = {idle[i] : i \in 1..n}
  BY <1>1 DEF Range
<1>12. \A i, j \in 1..n : idle[i] = idle[j] => i = j
  BY <1>1 DEF IsInjective
<1>13. k \in 1..n /\ 1..k-1 \subseteq 1..n /\ k+1..n \subseteq 1..n
  BY <1>1
<1>14. 1..n = 1..k-1 \cup {k} \cup k+1..n
  BY <1>1
<1>15. idle[k] \in Range(idle) /\ idle[k] \notin Range(lo) /\ idle[k] \notin Range(hi)
  BY <1>1, <1>9, <1>10, <1>11, <1>12, <1>13
<1>16. Range(lo) \cap Range(hi) = {}
  BY <1>1, <1>9, <1>10, <1>12, <1>13
<1>17. Range(idle) = Range(lo) \cup {idle[k]} \cup Range(hi)
  BY <1>9, <1>10, <1>11, <1>14
<1> QED
  BY <1>2, <1>6, <1>7, <1>8, <1>15, <1>16, <1>17

LEMMA ReverseIdle ==
  ASSUME idle \in Seq(Workers), IsInjective(idle)
  PROVE  /\ DeadAbove(0) \in Seq(Workers)
         /\ IsInjective(DeadAbove(0))
         /\ Len(DeadAbove(0)) = Len(idle)
         /\ Range(DeadAbove(0)) = Range(idle)
<1> DEFINE hi == DeadAbove(0)
           n == Len(idle)
<1>1. n \in Nat /\ DOMAIN idle = 1..n /\ idle \in [1..n -> Workers]
  BY LenProperties
<1>2. hi = [i \in 1..n |-> idle[n+1-i]]
  BY <1>1 DEF DeadAbove
<1>3. hi \in [1..n -> Workers]
  BY <1>1, <1>2
<1>4. hi \in Seq(Workers) /\ DOMAIN hi = 1..n /\ Len(hi) = n
  BY <1>1, <1>3, SeqDef, LenProperties
<1>5. IsInjective(hi)
  BY <1>1, <1>2, <1>4 DEF IsInjective
<1>6. ASSUME NEW i \in 1..n PROVE idle[i] \in Range(hi) /\ hi[i] \in Range(idle)
  <2>1. n + 1 - i \in 1..n /\ hi[n + 1 - i] = idle[i] /\ hi[i] = idle[n + 1 - i]
    BY <1>1, <1>2
  <2> QED
    BY <2>1, <1>1, <1>4 DEF Range
<1>7. Range(hi) = Range(idle)
  BY Zenon, <1>1, <1>4, <1>6 DEF Range
<1> QED
  BY <1>4, <1>5, <1>7
-----------------------------------------------------------------------------
\* Cardinalities of sets of workers and of callers.

LEMMA CardAdd ==
  ASSUME NEW U, IsFiniteSet(U), NEW S \in SUBSET U, NEW x \in U
  PROVE  /\ Cardinality(S) \in Nat
         /\ x \notin S => Cardinality(S \cup {x}) = Cardinality(S) + 1
         /\ x \in S => /\ Cardinality(S \ {x}) = Cardinality(S) - 1
                       /\ Cardinality(S) >= 1
<1>1. IsFiniteSet(S)
  BY FS_Subset
<1>2. Cardinality(S) \in Nat
  BY <1>1, FS_CardinalityType
<1>3. x \in S => Cardinality(S) # 0
  BY <1>1, FS_EmptySet
<1>4. Cardinality(S \cup {x}) = IF x \in S THEN Cardinality(S) ELSE Cardinality(S) + 1
  BY <1>1, FS_AddElement
<1>5. Cardinality(S \ {x}) = IF x \in S THEN Cardinality(S) - 1 ELSE Cardinality(S)
  BY <1>1, FS_RemoveElement
<1> QED
  BY <1>2, <1>3, <1>4, <1>5

LEMMA CardUnion ==
  ASSUME NEW U, IsFiniteSet(U), NEW S \in SUBSET U, NEW T \in SUBSET U, S \cap T = {}
  PROVE  Cardinality(S \cup T) = Cardinality(S) + Cardinality(T)
<1>1. IsFiniteSet(S) /\ IsFiniteSet(T)
  BY FS_Subset
<1>2. Cardinality(S) \in Nat /\ Cardinality(T) \in Nat
  BY <1>1, FS_CardinalityType
<1>3. Cardinality(S \cap T) = 0
  BY FS_EmptySet
<1>4. Cardinality(S \cup T) = Cardinality(S) + Cardinality(T) - Cardinality(S \cap T)
  BY <1>1, FS_Union
<1> QED
  BY <1>2, <1>3, <1>4
-----------------------------------------------------------------------------
\* What a type-correct state says about the derived sets.

LEMMA SetsType ==
  ASSUME TypeOK
  PROVE  /\ Claimed \subseteq Workers
         /\ Retired \subseteq Workers
         /\ Range(idle) \subseteq Workers
         /\ Range(sending) \subseteq Workers
         /\ Range(reaper) \subseteq Workers
<1>1. Range(idle) \subseteq Workers /\ Range(sending) \subseteq Workers
      /\ Range(reaper) \subseteq Workers
  BY RangeOfSeq DEF TypeOK
<1>2. Claimed \subseteq Workers
  BY DEF TypeOK, Claimed, Leased, Handed
<1>3. Reaping \subseteq Workers
  BY DEF TypeOK, Reaping
<1> QED
  BY <1>1, <1>2, <1>3 DEF Retired

\* The counters bound the containers from below.
LEMMA Counted ==
  ASSUME TypeOK, CountersExact
  PROVE  /\ Claimed # {} => active >= 1
         /\ Retired # {} => retiring >= 1
         /\ Spawning # {} => starting >= 1
<1>1. IsFiniteSet(Workers) /\ IsFiniteSet(Callers)
  BY PoolAssumption
<1>2. Claimed \in SUBSET Workers /\ Retired \in SUBSET Workers /\ Spawning \in SUBSET Callers
  BY SetsType DEF Spawning
<1>3. ASSUME NEW w \in Claimed PROVE active >= 1
  BY Zenon, <1>1, <1>2, <1>3, CardAdd DEF CountersExact
<1>4. ASSUME NEW w \in Retired PROVE retiring >= 1
  BY Zenon, <1>1, <1>2, <1>4, CardAdd DEF CountersExact
<1>5. ASSUME NEW c \in Spawning PROVE starting >= 1
  BY Zenon, <1>1, <1>2, <1>5, CardAdd DEF CountersExact, Spawning
<1> QED
  BY <1>3, <1>4, <1>5

\* No two containers hold a worker, so the counters add up to the processes.
LEMMA PresentCounted ==
  ASSUME TypeOK, OneOwner, CountersExact
  PROVE  Cardinality(Present) = Len(idle) + active + retiring
<1>1. IsFiniteSet(Workers)
  BY PoolAssumption
<1>2. /\ Range(idle) \in SUBSET Workers /\ Claimed \in SUBSET Workers
      /\ Retired \in SUBSET Workers
  BY SetsType
<1>3. Cardinality(Range(idle)) = Len(idle)
  BY CardRange DEF TypeOK, OneOwner
<1>4. Cardinality(Range(idle) \cup Claimed) = Len(idle) + active
  BY <1>1, <1>2, <1>3, CardUnion DEF OneOwner, CountersExact
<1>5. Cardinality((Range(idle) \cup Claimed) \cup Retired) = Len(idle) + active + retiring
  <2>1. Range(idle) \cup Claimed \in SUBSET Workers
    BY <1>2
  <2>2. (Range(idle) \cup Claimed) \cap Retired = {}
    BY DEF OneOwner
  <2> QED
    BY <1>1, <1>2, <1>4, <2>1, <2>2, CardUnion DEF CountersExact
<1> QED
  BY <1>5 DEF OneOwner
-----------------------------------------------------------------------------
\* What the pieces of the actions do to the containers.

\* retireLocked with p.mu free.
LEMMA Retire ==
  ASSUME TypeOK, OneOwner, CountersExact, MuFree,
         NEW ws \in Seq(Workers), IsInjective(ws), Range(ws) \cap Retired = {},
         retireLocked(ws), UNCHANGED <<reaper, reaping>>
  PROVE  /\ QueuesApart'
         /\ Retired' = Retired \cup Range(ws)
         /\ retiring' = Cardinality(Retired')
         /\ retiring' \in Nat
<1>1. Range(sending) = {} /\ sending' = ws
  BY RangeEmpty DEF MuFree, retireLocked
<1>2. Retired' = Retired \cup Range(ws)
  BY <1>1 DEF Retired, Reaping
<1>3. QueuesApart'
  BY <1>1 DEF OneOwner, QueuesApart, Retired, Reaping
<1>4. Cardinality(Retired \cup Range(ws)) = Cardinality(Retired) + Cardinality(Range(ws))
  <2>1. Range(ws) \in SUBSET Workers /\ Retired \in SUBSET Workers
    BY RangeOfSeq, SetsType
  <2> QED
    BY <2>1, CardUnion, PoolAssumption
<1>5. Cardinality(Range(ws)) = Len(ws) /\ Len(ws) \in Nat
  BY CardRange, LenProperties
<1> QED
  BY <1>2, <1>3, <1>4, <1>5 DEF retireLocked, CountersExact, TypeOK

\* The claims and the queues are functions of the variables they are made of.
LEMMA SameClaims ==
  ASSUME ClaimsApart, UNCHANGED <<lease, hand, killing, condemned>>
  PROVE  ClaimsApart' /\ Claimed' = Claimed /\ Leased' = Leased
  BY DEF ClaimsApart, Claimed, Leased, Handed

LEMMA SameQueues ==
  ASSUME QueuesApart, UNCHANGED <<sending, reaper, reaping>>
  PROVE  QueuesApart' /\ Retired' = Retired
  BY DEF QueuesApart, Retired, Reaping

\* newCheckout on a worker nobody has.
LEMMA Claim ==
  ASSUME TypeOK, ClaimsApart, NEW c \in Callers, NEW w \in Workers,
         lease[c] = None, w \notin Claimed,
         lease' = [lease EXCEPT ![c] = w], UNCHANGED <<hand, killing, condemned>>
  PROVE  /\ ClaimsApart'
         /\ Claimed' = Claimed \cup {w}
         /\ Leased' = Leased \cup {w}
<1>1. w # None
  BY PoolAssumption
<1>2. Leased' = Leased \cup {w}
  BY <1>1 DEF TypeOK, Leased
<1>3. Handed' = Handed
  BY DEF Handed
<1>4. \A d \in Callers : d # c => lease[d] # w
  BY <1>1 DEF Claimed, Leased
<1>5. ClaimsApart'
  BY <1>1, <1>2, <1>3, <1>4 DEF ClaimsApart, Claimed, TypeOK
<1> QED
  BY <1>2, <1>3, <1>5 DEF Claimed
-----------------------------------------------------------------------------
\* Steps that move no worker: no container and no counter changes.
LEMMA Quiet ==
  ASSUME IInv,
         UNCHANGED <<idle, starting, active, retiring, reaper, sending, reaping,
                     lease, hand, killing, condemned, served>>,
         Present' = Present, Spawning' = Spawning
  PROVE  OneOwner' /\ CountersExact' /\ LiveBound' /\ ServedBound'
<1>1. ClaimsApart' /\ Claimed' = Claimed /\ Leased' = Leased
  BY SameClaims DEF IInv, OneOwner
<1>2. QueuesApart' /\ Retired' = Retired
  BY SameQueues DEF IInv, OneOwner
<1>3. OneOwner'
  BY <1>1, <1>2 DEF IInv, OneOwner
<1>4. CountersExact'
  BY <1>1, <1>2 DEF IInv, CountersExact, Spawning
<1>5. LiveBound'
  BY DEF IInv, LiveBound, live
<1>6. ServedBound'
  BY <1>1 DEF IInv, ServedBound
<1> QED
  BY <1>3, <1>4, <1>5, <1>6

LEMMA ExitStep ==
  ASSUME IInv, NEW w \in Workers, Exit(w), UNCHANGED callVars
  PROVE  IInv'
<1>1. Present' = Present
  BY DEF IInv, TypeOK, Exit, Alive, Present
<1>2. Spawning' = Spawning
  BY DEF callVars, Spawning
<1>3. OneOwner' /\ CountersExact' /\ LiveBound' /\ ServedBound'
  BY <1>1, <1>2, Quiet DEF Exit, callVars
<1>4. TypeOK'
  BY DEF IInv, TypeOK, Exit, Alive, callVars, ProcStates
<1>5. Control'
  BY DEF IInv, Control, Stopping, live, Exit, callVars
<1>6. NoLostWakeup'
  BY DEF IInv, NoLostWakeup, live, Exit
<1> QED
  BY <1>3, <1>4, <1>5, <1>6 DEF IInv

LEMMA ReapKillStep ==
  ASSUME IInv, NEW r \in Reapers, ReapKill(r), UNCHANGED callVars
  PROVE  IInv'
<1>1. reaping[r] \in Workers
  BY DEF IInv, TypeOK, ReapKill
<1>2. Present' = Present
  BY <1>1 DEF IInv, TypeOK, ReapKill, Present
<1>3. Spawning' = Spawning
  BY DEF callVars, Spawning
<1>4. OneOwner' /\ CountersExact' /\ LiveBound' /\ ServedBound'
  BY <1>2, <1>3, Quiet DEF ReapKill, callVars
<1>5. TypeOK'
  BY <1>1 DEF IInv, TypeOK, ReapKill, callVars, ProcStates
<1>6. Control'
  BY DEF IInv, Control, Stopping, live, ReapKill, callVars
<1>7. NoLostWakeup'
  BY DEF IInv, NoLostWakeup, live, ReapKill
<1> QED
  BY <1>4, <1>5, <1>6, <1>7 DEF IInv

\* A kill during a failed turn is a kill like the reapers'.
LEMMA ReapBrokenStep ==
  ASSUME IInv, NEW c \in Callers, ReapBroken(c)
  PROVE  IInv'
<1>1. lease[c] \in Workers
  BY DEF IInv, TypeOK, ReapBroken
<1>2. Present' = Present
  BY <1>1 DEF IInv, TypeOK, ReapBroken, Present
<1>3. Spawning' = Spawning
  BY DEF ReapBroken, callVars, Spawning
<1>4. OneOwner' /\ CountersExact' /\ LiveBound' /\ ServedBound'
  BY <1>2, <1>3, Quiet DEF ReapBroken, callVars
<1>5. TypeOK'
  BY <1>1 DEF IInv, TypeOK, ReapBroken, callVars, ProcStates
<1>6. Control'
  BY DEF IInv, Control, Stopping, live, ReapBroken, callVars
<1>7. NoLostWakeup'
  BY DEF IInv, NoLostWakeup, live, ReapBroken
<1> QED
  BY <1>4, <1>5, <1>6, <1>7 DEF IInv

\* The steps of Shutdown that only move the closer.
CloserQuiet(k) ==
    CloseDone(k) \/ CloseExpires(k) \/ Drain(k) \/ DrainExpires(k)
        \/ StopReapers(k) \/ ShutdownReturns(k)

LEMMA CloserQuietStep ==
  ASSUME IInv, NEW k \in Closers, CloserQuiet(k), UNCHANGED callVars
  PROVE  IInv'
<1> USE DEF CloserQuiet, CloseDone, CloseExpires, Drain, DrainExpires,
            StopReapers, ShutdownReturns
<1>1. Present' = Present
  BY DEF Present
<1>2. Spawning' = Spawning
  BY DEF callVars, Spawning
<1>3. OneOwner' /\ CountersExact' /\ LiveBound' /\ ServedBound'
  BY Zenon, <1>1, <1>2, Quiet DEF callVars
<1>4. TypeOK'
  BY Zenon DEF IInv, TypeOK, callVars, ShutStates
<1>5. Control'
  <2>1. live' = live
    BY DEF live
  <2>2. UNCHANGED <<pc, lease, hand, closed, idle>>
    BY DEF callVars
  <2>3. k \notin Callers
    BY PoolAssumption
  <2>4. shut' = [shut EXCEPT ![k] = shut'[k]] /\ shut[k] # "open" /\ shut'[k] # "open"
    BY Zenon DEF IInv, TypeOK
  <2>5. Stopping(k)' => live = 0
    BY Zenon DEF IInv, Control, Stopping, TypeOK
  <2>6. k \in waiting' => shut'[k] = "blocked"
    BY Zenon DEF IInv, Control, TypeOK
  <2>7. \A x : x # k => (x \in waiting' <=> x \in waiting)
    OBVIOUS
  <2>8. reaped' => closed /\ live = 0
    BY Zenon DEF IInv, Control, Stopping, TypeOK
  <2> QED
    BY Zenon, <2>1, <2>2, <2>3, <2>4, <2>5, <2>6, <2>7, <2>8 DEF IInv, Control, Stopping, TypeOK
<1>6. NoLostWakeup'
  <2>1. live' = live /\ UNCHANGED <<idle, closed>>
    BY DEF live
  <2>2. waiting' \cap Callers = waiting \cap Callers
    BY PoolAssumption
  <2>3. waiting' \cap Closers # {} => live > 0
    <3>1. live \in Nat
      BY SMTT(60), LenProperties DEF IInv, TypeOK, live
    <3> QED
      BY <3>1 DEF IInv, NoLostWakeup
  <2> QED
    BY Zenon, <2>1, <2>2, <2>3 DEF IInv, NoLostWakeup
<1> QED
  BY Zenon, <1>3, <1>4, <1>5, <1>6 DEF IInv

\* The steps of a caller that only move the caller.
CallerQuiet(c) ==
    AcquireClosed(c) \/ GiveUpWaiting(c) \/ Configured(c) \/ Finish(c)
        \/ TurnBreaks(c) \/ Lost(c)

LEMMA CallerQuietStep ==
  ASSUME IInv, NEW c \in Callers, CallerQuiet(c)
  PROVE  IInv'
<1> USE DEF CallerQuiet, AcquireClosed, Acquiring, GiveUpWaiting, Configured, Finish,
            TurnBreaks, Lost, Goto, coreVars
<1>1. Present' = Present
  BY Zenon DEF Present
<1>2. Spawning' = Spawning
  BY Zenon DEF Spawning, IInv, TypeOK
<1>3. OneOwner' /\ CountersExact' /\ LiveBound' /\ ServedBound'
  BY Zenon, <1>1, <1>2, Quiet
<1>4. TypeOK'
  BY Zenon DEF IInv, TypeOK, CallerStates
<1>5. Control'
  <2>1. live' = live
    BY Zenon DEF live
  <2>2. UNCHANGED <<shut, lease, hand, closed, idle, reaped>>
    BY Zenon
  <2>3. c \notin Closers
    BY Zenon, PoolAssumption
  <2>4. pc' = [pc EXCEPT ![c] = pc'[c]] /\ pc[c] # "release" /\ pc'[c] # "release"
    BY Zenon DEF IInv, TypeOK
  <2>5. lease[c] # None => pc'[c] \in {"configure", "held", "reset", "broken"}
    BY Zenon DEF IInv, Control, TypeOK
  <2>6. c \in waiting' => pc'[c] = "wait"
    BY Zenon DEF IInv, Control, TypeOK
  <2>7. \A x : x # c => (x \in waiting' <=> x \in waiting)
    BY Zenon
  <2> QED
    BY ZenonT(60), <2>1, <2>2, <2>3, <2>4, <2>5, <2>6, <2>7 DEF IInv, Control, Stopping, TypeOK
<1>6. NoLostWakeup'
  <2>1. live' = live /\ UNCHANGED <<idle, closed>> /\ waiting' \subseteq waiting
    BY Zenon DEF live
  <2> QED
    BY Zenon, <2>1 DEF IInv, NoLostWakeup
<1> QED
  BY Zenon, <1>3, <1>4, <1>5, <1>6 DEF IInv
=============================================================================
