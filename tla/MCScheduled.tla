----------------------------- MODULE MCScheduled -----------------------------
(* What runs on a schedule, for TLC: the automations and the DAG of an     *)
(* ingestion.  They share no state, so that it is enough to let one of     *)
(* them run at a time: focus, chosen at the start.                         *)
EXTENDS MCAutomations, Ingestion

CONSTANTS r1, r2, r3

(* Two entities; the name of the second begins with that of the first,     *)
(* which has two versions of a row.                                        *)
EntityOf == r1 :> 1 @@ r2 :> 1 @@ r3 :> 2
LaterVersions == r1 :> {r2} @@ r2 :> {} @@ r3 :> {}
NamesTaken == 1 :> {1, 2} @@ 2 :> {2}

(* The last instant is rendered as the one before it.                      *)
RenderedInstants == 0 :> 0 @@ 1 :> 1 @@ 2 :> 2 @@ 3 :> 2

VARIABLE focus

scheduledVars == <<vars, ingestionVars, focus>>

ScheduledInit == Init /\ IngestionInit /\ focus \in {"automations", "ingestion"}

ScheduledNext ==
    /\ UNCHANGED focus
    /\ \/ focus = "automations" /\ Next /\ UNCHANGED ingestionVars
       \/ focus = "ingestion" /\ IngestionNext /\ UNCHANGED vars

ScheduledSpec == ScheduledInit /\ [][ScheduledNext]_scheduledVars
=============================================================================
