----------------------------- MODULE RemotePool -----------------------------
(* A supervised pool of remote workers (SingleUse, WebSocket): a session first
   reserves capacity, binds a connection to it, and may hand the connection off
   and bind a fresh one (a rotation).  reservation.go, with the callers of
   Checkout, Handoff and Finish in pool.go and rotation.go.

   A caller is one session: tries[c] counts the connections its current bind loop
   has opened, at most MaxAttempts (twice RecoveryPolicy.Attempts).  A dial that
   gets no connection changes nothing in the pool and is not a step. *)
EXTENDS WorkerPool

CONSTANT MaxAttempts

ASSUME AttemptsAssumption == MaxAttempts \in Nat \ {0} /\ MinProcesses = 0

VARIABLES pc,           \* [Callers -> where the session is]
          lease,        \* [Callers -> checkoutLease.slot's worker, or None]
          hand,         \* [Callers -> the worker Bind has spawned on a closed pool]
          killing,      \* workers won by lease.terminate, not yet killed
          condemned,    \* workers of terminate, not yet retired
          tries         \* [Callers -> connections of the current bind loop]

callVars == <<pc, lease, hand, killing, condemned, tries>>
vars == <<coreVars, callVars>>

CallerStates == {"idle", "wait", "reserved", "closedPool", "configure", "rereserve", "held"}

Init ==
    /\ CoreInit
    /\ pc = [c \in Callers |-> "idle"]
    /\ lease = [c \in Callers |-> None]
    /\ hand = [c \in Callers |-> None]
    /\ killing = {} /\ condemned = {}
    /\ tries = [c \in Callers |-> 0]

Goto(c, l) == pc' = [pc EXCEPT ![c] = l]

\* A worker leaves a checkout for the reapers in one critical section.
RetireActive(w) ==
    /\ MuFree
    /\ active' = active - 1
    /\ retireLocked(<<w>>)
    /\ wakeLocked
-----------------------------------------------------------------------------
\* Reserve's loop: the pool is closed, has room, or is full.
Reserve(c) ==
    /\ \/ pc[c] = "idle"
       \/ pc[c] = "wait" /\ c \notin waiting
    /\ MuFree
    /\ \/ /\ closed
          /\ Goto(c, "idle")
          /\ UNCHANGED <<starting, waiting>>
       \/ /\ ~closed /\ live < MaxProcesses
          /\ starting' = starting + 1
          /\ Goto(c, "reserved")
          /\ UNCHANGED waiting
       \/ /\ ~closed /\ live >= MaxProcesses
          /\ waiting' = waiting \cup {c}
          /\ Goto(c, "wait")
          /\ UNCHANGED starting
    /\ UNCHANGED <<proc, idle, active, retiring, closed, reaper, reaped, sending, reaping,
                   shut, waits, lease, hand, killing, condemned, tries>>

\* ctx ended or CheckoutTimeout passed.
GiveUpWaiting(c) ==
    /\ pc[c] = "wait"
    /\ waiting' = waiting \ {c}
    /\ Goto(c, "idle")
    /\ UNCHANGED <<proc, idle, starting, active, retiring, closed, reaper, reaped,
                   sending, reaping, shut, waits, lease, hand, killing, condemned, tries>>

\* Mutant: Release wakes nobody.
ReleaseSilently(c) ==
    /\ pc[c] = "reserved"
    /\ MuFree
    /\ starting' = starting - 1
    /\ Goto(c, "idle")
    /\ tries' = [tries EXCEPT ![c] = 0]
    /\ UNCHANGED <<proc, idle, active, retiring, closed, waiting, reaper, reaped, sending,
                   reaping, shut, waits, lease, hand, killing, condemned>>

\* Mutant: Release forgets to clear held, so a second Release counts again.
ReleaseKeepsHeld(c) ==
    /\ pc[c] = "reserved"
    /\ MuFree
    /\ starting' = starting - 1
    /\ wakeLocked
    /\ tries' = [tries EXCEPT ![c] = 0]
    /\ UNCHANGED <<proc, idle, active, retiring, closed, reaper, reaped, sending,
                   reaping, shut, waits, pc, lease, hand, killing, condemned>>

\* The bind loop gives up: Release returns the reservation.
Release(c) ==
    /\ pc[c] = "reserved"
    /\ MuFree
    /\ starting' = starting - 1
    /\ wakeLocked
    /\ Goto(c, "idle")
    /\ tries' = [tries EXCEPT ![c] = 0]
    /\ UNCHANGED <<proc, idle, active, retiring, closed, reaper, reaped, sending,
                   reaping, shut, waits, lease, hand, killing, condemned>>

\* Mutant: Bind counts the worker as active and keeps the reservation charged.
BindKeepsStarting(c, w) ==
    /\ pc[c] = "reserved"
    /\ tries[c] < MaxAttempts
    /\ proc[w] = "absent"
    /\ MuFree
    /\ proc' = [proc EXCEPT ![w] = "alive"]
    /\ starting' = starting
    /\ tries' = [tries EXCEPT ![c] = @ + 1]
    /\ \/ /\ closed
          /\ hand' = [hand EXCEPT ![c] = w]
          /\ Goto(c, "closedPool")
          /\ UNCHANGED <<active, lease>>
       \/ /\ ~closed
          /\ active' = active + 1
          /\ lease' = [lease EXCEPT ![c] = w]
          /\ Goto(c, "configure")
          /\ UNCHANGED hand
    /\ UNCHANGED <<idle, retiring, closed, waiting, reaper, reaped, sending, reaping,
                   shut, waits, killing, condemned>>

\* Bind: Spawn returned w.  On a closed pool p.mu is released between the end of
\* the reservation and the retirement of w.
Bind(c, w) ==
    /\ pc[c] = "reserved"
    /\ tries[c] < MaxAttempts
    /\ proc[w] = "absent"
    /\ MuFree
    /\ proc' = [proc EXCEPT ![w] = "alive"]
    /\ starting' = starting - 1
    /\ tries' = [tries EXCEPT ![c] = @ + 1]
    /\ \/ /\ closed
          /\ hand' = [hand EXCEPT ![c] = w]
          /\ Goto(c, "closedPool")
          /\ UNCHANGED <<active, lease>>
       \/ /\ ~closed
          /\ active' = active + 1
          /\ lease' = [lease EXCEPT ![c] = w]
          /\ Goto(c, "configure")
          /\ UNCHANGED hand
    /\ UNCHANGED <<idle, retiring, closed, waiting, reaper, reaped, sending, reaping,
                   shut, waits, killing, condemned>>

\* Bind's second critical section on a closed pool.
BindRetires(c) ==
    /\ pc[c] = "closedPool"
    /\ MuFree
    /\ retireLocked(<<hand[c]>>)
    /\ wakeLocked
    /\ hand' = [hand EXCEPT ![c] = None]
    /\ Goto(c, "idle")
    /\ tries' = [tries EXCEPT ![c] = 0]
    /\ UNCHANGED <<proc, idle, starting, active, closed, reaper, reaped, reaping, shut,
                   waits, lease, killing, condemned>>

\* The worker answered Configure and, for a rotation, Load.
Configured(c) ==
    /\ pc[c] = "configure"
    /\ proc[lease[c]] = "alive"
    /\ Goto(c, "held")
    /\ UNCHANGED <<coreVars, lease, hand, killing, condemned, tries>>

\* Configure or Load failed: drop retires the worker, which nobody else has seen.
BindFails(c) ==
    /\ pc[c] = "configure"
    /\ RetireActive(lease[c])
    /\ lease' = [lease EXCEPT ![c] = None]
    /\ Goto(c, "rereserve")
    /\ UNCHANGED <<proc, idle, starting, closed, reaper, reaped, reaping, shut, waits,
                   hand, killing, condemned, tries>>

\* reReserveLocked takes the capacity back whatever the pool holds by now.
ReReserve(c) ==
    /\ pc[c] = "rereserve"
    /\ MuFree
    /\ starting' = starting + 1
    /\ Goto(c, "reserved")
    /\ UNCHANGED <<proc, idle, active, retiring, closed, waiting, reaper, reaped, sending,
                   reaping, shut, waits, lease, hand, killing, condemned, tries>>
-----------------------------------------------------------------------------
\* Mutant: Handoff takes the slot without clearing the lease.
HandoffKeepsSlot(c) ==
    /\ pc[c] = "held"
    /\ lease[c] # None
    /\ RetireActive(lease[c])
    /\ starting' = starting + 1
    /\ Goto(c, "reserved")
    /\ tries' = [tries EXCEPT ![c] = 0]
    /\ UNCHANGED <<proc, idle, closed, reaper, reaped, reaping, shut, waits, lease, hand,
                   killing, condemned>>

\* Handoff: lease.finish wins, the connection retires, the capacity stays.
Handoff(c) ==
    /\ pc[c] = "held"
    /\ lease[c] # None
    /\ RetireActive(lease[c])
    /\ starting' = starting + 1
    /\ lease' = [lease EXCEPT ![c] = None]
    /\ Goto(c, "reserved")
    /\ tries' = [tries EXCEPT ![c] = 0]
    /\ UNCHANGED <<proc, idle, closed, reaper, reaped, reaping, shut, waits, hand,
                   killing, condemned>>

\* Finish: a remote worker is released without a Reset and always retired.
Finish(c) ==
    /\ pc[c] = "held"
    /\ lease[c] # None
    /\ RetireActive(lease[c])
    /\ lease' = [lease EXCEPT ![c] = None]
    /\ Goto(c, "idle")
    /\ tries' = [tries EXCEPT ![c] = 0]
    /\ UNCHANGED <<proc, idle, starting, closed, reaper, reaped, reaping, shut, waits,
                   hand, killing, condemned>>

\* Finish after the checkout was terminated.
Lost(c) ==
    /\ pc[c] = "held"
    /\ lease[c] = None
    /\ Goto(c, "idle")
    /\ tries' = [tries EXCEPT ![c] = 0]
    /\ UNCHANGED <<coreVars, lease, hand, killing, condemned>>

\* lease.terminate wins: Terminate kills the connection first, the owner's own
\* discard leaves that to the reapers.
Terminate(c, force) ==
    /\ pc[c] = "held"
    /\ lease[c] # None
    /\ lease' = [lease EXCEPT ![c] = None]
    /\ killing' = IF force THEN killing \cup {lease[c]} ELSE killing
    /\ condemned' = IF force THEN condemned ELSE condemned \cup {lease[c]}
    /\ UNCHANGED <<coreVars, pc, hand, tries>>

\* terminate: w.Kill().
TerminateKill(w) ==
    /\ w \in killing
    /\ proc' = [proc EXCEPT ![w] = IF @ = "alive" THEN "killed" ELSE @]
    /\ killing' = killing \ {w}
    /\ condemned' = condemned \cup {w}
    /\ UNCHANGED <<idle, starting, active, retiring, closed, waiting, reaper, reaped,
                   sending, reaping, shut, waits, pc, lease, hand, tries>>

\* terminate: pool.retireLease.
retireLease(w) ==
    /\ w \in condemned
    /\ RetireActive(w)
    /\ condemned' = condemned \ {w}
    /\ UNCHANGED <<proc, idle, starting, closed, reaper, reaped, reaping, shut, waits,
                   pc, lease, hand, killing, tries>>

\* A send on the closed reaper channel panics with p.mu held: the program ends.
Panic ==
    /\ sending # <<>>
    /\ reaped
    /\ UNCHANGED vars

CallerNext(c) ==
    \/ Reserve(c) \/ GiveUpWaiting(c) \/ Release(c) \/ (\E w \in Workers : Bind(c, w))
    \/ BindRetires(c) \/ Configured(c) \/ BindFails(c) \/ ReReserve(c)
    \/ Handoff(c) \/ Finish(c) \/ Lost(c) \/ (\E force \in BOOLEAN : Terminate(c, force))

Next ==
    \/ CoreNext /\ UNCHANGED callVars
    \/ \E c \in Callers : CallerNext(c)
    \/ \E w \in Workers : TerminateKill(w) \/ retireLease(w)
    \/ Panic

Spec == Init /\ [][Next]_vars
-----------------------------------------------------------------------------
Leased == {lease[c] : c \in Callers} \ {None}
Stray == {hand[c] : c \in Callers} \ {None}
Reaping == {reaping[r] : r \in Reapers} \ {None}
Present == {w \in Workers : proc[w] # "absent"}
Claimed == Leased \cup killing \cup condemned
Retired == Range(sending) \cup Range(reaper) \cup Reaping

\* Types of the pool's state and of the sessions.
TypeOK ==
    /\ proc \in [Workers -> ProcStates]
    /\ idle = <<>> /\ reaper \in Seq(Workers) /\ sending \in Seq(Workers)
    /\ starting \in Nat /\ active \in Nat /\ retiring \in Nat
    /\ closed \in BOOLEAN /\ reaped \in BOOLEAN
    /\ waiting \subseteq Callers \cup Closers
    /\ reaping \in [Reapers -> Workers \cup {None}]
    /\ shut \in [Closers -> ShutStates]
    /\ waits = [k \in Closers |-> {}]
    /\ pc \in [Callers -> CallerStates]
    /\ lease \in [Callers -> Workers \cup {None}]
    /\ hand \in [Callers -> Workers \cup {None}]
    /\ killing \subseteq Workers /\ condemned \subseteq Workers
    /\ tries \in [Callers -> 0..MaxAttempts]

\* Every open connection belongs to one session, one terminate, or the reapers,
\* through every retry of a bind and every rotation; nobody else has it.
OneOwner ==
    /\ \A c, d \in Callers : c # d =>
          /\ lease[c] # None => lease[c] # lease[d]
          /\ hand[c] # None => hand[c] # hand[d]
    /\ \A r, q \in Reapers : r # q /\ reaping[r] # None => reaping[r] # reaping[q]
    /\ IsInjective(reaper) /\ IsInjective(sending)
    /\ Range(sending) \cap Range(reaper) = {}
    /\ Reaping \cap (Range(sending) \cup Range(reaper)) = {}
    /\ Leased \cap (killing \cup condemned) = {} /\ killing \cap condemned = {}
    /\ Stray \cap (Claimed \cup Retired) = {}
    /\ Claimed \cap Retired = {}
    /\ Present = Claimed \cup Stray \cup Retired

\* The counters are exact except in Bind's gap on a closed pool, where a stray
\* connection is not counted at all: a reservation, a rebind and a rotation move
\* one unit of capacity and never lose or duplicate it.
CountersExact ==
    /\ starting = Cardinality({c \in Callers : pc[c] = "reserved"})
    /\ active = Cardinality(Claimed)
    /\ retiring = Cardinality(Retired)

\* No session waits for capacity that is free or on a closed pool, and no
\* Shutdown waits on a drained pool, unless a Bind is about to wake it.
NoLostWakeup ==
    /\ waiting \cap Callers # {} => live >= MaxProcesses /\ ~closed
    /\ waiting \cap Closers # {} => live > 0 \/ Stray # {}

\* pool.go:381: Shutdown "waits for every worker to exit": when it returned nil
\* there is no connection left.
ShutdownIsFinal == (\E k \in Closers : shut[k] = "ok") => Present = {}

\* reservation.go:149: "live workers MAY exceed MaxProcesses by one until the
\* retiring worker exits": with nothing retiring, MaxProcesses is respected.
OvershootIsTransient == retiring = 0 => live <= MaxProcesses

\* docs/architecture/pool.md:15: "Retirement is asynchronous": whoever retires a
\* worker under p.mu does not wait for reapers that themselves wait for p.mu.
RetirementIsAsynchronous ==
    ~ /\ sending # <<>> /\ ~reaped
      /\ Len(reaper) = MaxProcesses
      /\ \A r \in Reapers : reaping[r] # None
=============================================================================
