----------------------------- MODULE MCSession -----------------------------
(* Session for TLC: callers are model values, policies are given here.     *)
EXTENDS Session

CONSTANTS k2, d1

Abrupt == [drain |-> FALSE, catchable |-> FALSE]
Draining == [drain |-> TRUE, catchable |-> FALSE]
DrainingCatchable == [drain |-> TRUE, catchable |-> TRUE]

AllPolicies == {Abrupt, Draining, DrainingCatchable}
LivePolicies == {DrainingCatchable}
=============================================================================
