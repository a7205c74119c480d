---------------------------- MODULE MCBackground ----------------------------
(* What runs in the background, for TLC: the thread pools of the agent     *)
(* teams and of the job engine.  They share no state, so that it is enough *)
(* to let one of them run at a time: focus, chosen at the start.           *)
EXTENDS MCAgentTeams, BackgroundJobs, TLC

CONSTANTS j1, j2, l1

VARIABLE focus

backgroundVars == <<vars, jobVars, focus>>

BackgroundInit ==
    /\ Init /\ JobInit
    /\ focus \in {"teams", "jobs"}
    /\ focus # "teams" => team.parallel = 1 /\ \A m \in Teammates : contract[m] = "STRICT"

BackgroundNext ==
    /\ UNCHANGED focus
    /\ \/ focus = "teams" /\ Next /\ UNCHANGED jobVars
       \/ focus = "jobs" /\ JobNext /\ UNCHANGED vars

BackgroundSpec ==
    /\ BackgroundInit
    /\ [][BackgroundNext]_backgroundVars
    /\ WF_vars(focus = "teams" /\ Coordinate)
    /\ WF_vars(focus = "teams" /\ Pool)
    /\ JobFairness
=============================================================================
