---------------------------- MODULE MCAutomations ----------------------------
(* Instances of Automations for TLC.                                       *)
EXTENDS Automations, TLC

CONSTANTS d1, d2

Interval == [type |-> "interval", period |-> 2, at |-> 0]
Once == [type |-> "once", period |-> 2, at |-> 1]
Last == [type |-> "clock", period |-> 4, at |-> 3]

DispatcherSymmetry == Permutations({d1, d2})

OneInterval == <<Interval>>
TwoIntervals == <<Interval, Interval>>
IntervalAndOnce == <<Interval, Once>>
IntervalLastOnce == <<Interval, Last, Once>>

Local == <<"local">>
BothLocal == <<"local", "local">>
HostedOnce == <<"local", "local", "hosted">>
=============================================================================
