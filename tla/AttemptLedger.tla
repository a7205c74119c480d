---------------------------- MODULE AttemptLedger ----------------------------
(***************************************************************************)
(* What the hosted queue promises whatever lapses, crashes, cancels and    *)
(* stale writes happen: the attempts of a job are numbered, each one is    *)
(* granted to one worker, and the outcome a job shows was reported, once,  *)
(* by the worker that held the attempt it is attributed to.                *)
(***************************************************************************)
EXTENDS Naturals

CONSTANTS Workers, Jobs

VARIABLES
    granted, \* how many attempts of each job have been granted
    held,    \* the attempt each worker holds
    shown    \* the attempt whose outcome each job shows, 0 before any

ledgerVars == <<granted, held, shown>>

Nothing == [job |-> 0, attempt |-> 0]

Init ==
    /\ granted = [j \in Jobs |-> 0]
    /\ held = [w \in Workers |-> Nothing]
    /\ shown = [j \in Jobs |-> 0]

Grant(w, j) ==
    /\ held[w] = Nothing
    /\ granted' = [granted EXCEPT ![j] = @ + 1]
    /\ held' = [held EXCEPT ![w] = [job |-> j, attempt |-> granted[j] + 1]]
    /\ UNCHANGED shown

Report(w) ==
    /\ held[w] # Nothing
    /\ shown' = [shown EXCEPT ![held[w].job] = held[w].attempt]
    /\ held' = [held EXCEPT ![w] = Nothing]
    /\ UNCHANGED granted

Abandon(w) ==
    /\ held[w] # Nothing
    /\ held' = [held EXCEPT ![w] = Nothing]
    /\ UNCHANGED <<granted, shown>>

Next == \E w \in Workers : (\E j \in Jobs : Grant(w, j)) \/ Report(w) \/ Abandon(w)

Spec == Init /\ [][Next]_ledgerVars
=============================================================================
