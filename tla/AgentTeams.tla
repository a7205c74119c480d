------------------------------ MODULE AgentTeams ------------------------------
(***************************************************************************)
(* Agent teams: TeamCoordinator and TeamStore of agents/teams.py, with the *)
(* thread pool of agents/parallel.py.  An approved plan, a graph of tasks  *)
(* assigned to teammates, is executed in waves: every task whose           *)
(* dependencies have passed runs at once, what depends on a failure is     *)
(* blocked, and the verdict is recorded in the row of the run.             *)
(*                                                                         *)
(* Teams and teammates live in tables that other processes edit while a    *)
(* plan waits for approval and while it runs.  TeamStore.get, two SELECTs, *)
(* and plan(), which writes nothing, are one step each.                    *)
(***************************************************************************)
EXTENDS Naturals, FiniteSets

CONSTANTS
    Tasks,
    Teammates,
    Requests,    \* the tasks a caller may ask a plan for
    MaxParallel, \* the largest max_parallel: 32, smaller as a bound
    MaxChanges   \* bound: edits of the team and of the teammates

ASSUME TasksAssumption == IsFiniteSet(Tasks)
ASSUME RequestsAssumption ==
    Requests \subseteq [depends : [Tasks -> SUBSET Tasks], assignee : [Tasks -> Teammates]]
ASSUME BoundsAssumption == MaxParallel \in Nat \ {0} /\ MaxChanges \in Nat

VARIABLES
    team,     \* agent_teams and agent_team_members: the team concerned
    contract, \* teammates: the verification contract of each
    plan,     \* the plan under approval, as plan() returned it
    phase,    \* where TeamCoordinator.run stands
    row,      \* agent_team_runs: the status of the run
    work,     \* the subagent of each task on the thread pool
    outcome,  \* run()'s outcomes, "NONE" for a task that is not in it
    drift,    \* history: what has changed behind the coordinator's back
    changes   \* bound used so far

vars == <<team, contract, plan, phase, row, work, outcome, drift, changes>>

-----------------------------------------------------------------------------

(* Everything the team fingerprint is a digest of; max_parallel stands for *)
(* every column that edit may change.                                      *)
Team == [there : BOOLEAN, members : SUBSET Teammates, parallel : 1..MaxParallel]

(* A teammate demands a verified result, or not, or has been deleted.      *)
Contracts == {"STRICT", "LOOSE", "GONE"}

Plan == [depends : [Tasks -> SUBSET Tasks], assignee : [Tasks -> Teammates],
         team : Team, contract : [Teammates -> Contracts]]

NoPlan == [team |-> "NONE"]

(* Ends without a verdict: RuntimeError, KeyError, death of the process.   *)
Stuck == {"impossible", "missing", "dead"}

Phases == {"idle", "checked", "validated", "round", "wave", "done"} \cup Stuck

Finished == {"VERIFIED", "UNVERIFIED", "FAILED"}

Outcomes == {"PASS", "FAIL", "FAIL_VERIFICATION", "BLOCKED_DEPENDENCY"}

(* All that t depends on, directly or not: the least set that contains the *)
(* dependencies of t and of its own elements.                              *)
Upstream(depends, t) ==
    {a \in Tasks : \A S \in SUBSET Tasks :
        (depends[t] \subseteq S /\ \A s \in S : depends[s] \subseteq S) => a \in S}

-----------------------------------------------------------------------------
(* _normalize_tasks takes the tasks whose dependencies are taken until it  *)
(* has them all, and raises when tasks are pending and none is ready.  It  *)
(* meets such a pending set exactly when there is one: none of a set that  *)
(* is never ready can ever be taken.                                       *)

IsGraph(depends) ==
    /\ \A t \in Tasks : t \notin depends[t]
    /\ \A pending \in (SUBSET Tasks) \ {{}} : \E t \in pending : depends[t] \cap pending = {}

(* What callers ask of max_parallel, and what create and edit make of it.  *)
Asked == 0..MaxParallel + 1

Clamped(p) == IF p = 0 THEN 1 ELSE IF p < MaxParallel THEN p ELSE MaxParallel

Init ==
    /\ \E p \in Asked :
          team = [there |-> TRUE, members |-> Teammates, parallel |-> Clamped(p)]
    /\ contract \in [Teammates -> {"STRICT", "LOOSE"}]
    /\ plan = NoPlan
    /\ phase = "idle"
    /\ row = "NONE"
    /\ work = [t \in Tasks |-> "NONE"]
    /\ outcome = [t \in Tasks |-> "NONE"]
    /\ drift = [team |-> FALSE, contracts |-> {}]
    /\ changes = 0

(* plan(): refused (a KeyError or a ValueError) it changes nothing.        *)
MakePlan ==
    /\ plan = NoPlan
    /\ team.there
    /\ \A m \in team.members : contract[m] # "GONE"
    /\ \E request \in Requests :
          /\ \A t \in Tasks : request.assignee[t] \in team.members
          /\ IsGraph(request.depends)
          /\ plan' = [depends |-> request.depends, assignee |-> request.assignee,
                      team |-> team, contract |-> contract]
    /\ drift' = [team |-> FALSE, contracts |-> {}]
    /\ UNCHANGED <<team, contract, phase, row, work, outcome, changes>>

-----------------------------------------------------------------------------
(* Other processes.                                                        *)

TeamChanges(state) ==
    /\ changes < MaxChanges
    /\ team.there
    /\ team' = state
    /\ changes' = changes + 1
    /\ drift' = [drift EXCEPT !.team = @ \/ phase \in {"checked", "validated"}]
    /\ UNCHANGED <<contract, plan, phase, row, work, outcome>>

EditTeam == \E p \in Asked : TeamChanges([team EXCEPT !.parallel = Clamped(p)])

(* Nothing requires of a member that it exists.                            *)
SetMembers ==
    \E members \in SUBSET Teammates : TeamChanges([team EXCEPT !.members = members])

DeleteTeam == TeamChanges([team EXCEPT !.there = FALSE, !.members = {}])

EditTeammate ==
    /\ changes < MaxChanges
    /\ \E m \in Teammates, demand \in Contracts :
          /\ contract[m] # "GONE"
          /\ contract' = [contract EXCEPT ![m] = demand]
          /\ drift' = [drift EXCEPT !.contracts = @ \cup {m}]
    /\ changes' = changes + 1
    /\ UNCHANGED <<team, plan, phase, row, work, outcome>>

-----------------------------------------------------------------------------
(* TeamCoordinator.run.                                                    *)

IsStale == ~team.there \/ team # plan.team

(* STALE_TEAM leaves no trace: the caller may try again.  A plan is run    *)
(* once: another run of it has a row and outcomes of its own.              *)
CheckTeam ==
    /\ phase = "idle"
    /\ plan # NoPlan
    /\ row = "NONE"
    /\ ~IsStale
    /\ phase' = "checked"
    /\ drift' = [drift EXCEPT !.team = FALSE]
    /\ UNCHANGED <<team, contract, plan, row, work, outcome, changes>>

(* _normalize_tasks reads the members once more.                           *)
Validate ==
    /\ phase = "checked"
    /\ IF team.there /\ \A t \in Tasks : plan.assignee[t] \in team.members
       THEN phase' = "validated"
       ELSE phase' = "idle"
    /\ UNCHANGED <<team, contract, plan, row, work, outcome, drift, changes>>

StartRun ==
    /\ phase = "validated"
    /\ IF team.there
       THEN phase' = "round" /\ row' = "RUNNING"
       ELSE phase' = "idle" /\ UNCHANGED row
    /\ UNCHANGED <<team, contract, plan, work, outcome, drift, changes>>

Remaining == {t \in Tasks : outcome[t] = "NONE"}

Blocked == {t \in Remaining : \E d \in plan.depends[t] : outcome[d] \notin {"NONE", "PASS"}}

(* Variant: ready once every dependency has an outcome.                    *)
ReadyAfterAny == {t \in Remaining : \A d \in plan.depends[t] : outcome[d] # "NONE"}

Ready == {t \in Remaining : \A d \in plan.depends[t] : outcome[d] = "PASS"}

(* The head of the loop: the tasks below a failure are blocked, then the   *)
(* ready ones go to the pool once their teammates are read.  When none is  *)
(* ready the loop ends, or raises if tasks remain.                         *)
Round ==
    /\ phase = "round"
    /\ outcome' = [t \in Tasks |-> IF t \in Blocked THEN "BLOCKED_DEPENDENCY" ELSE outcome[t]]
    /\ \/ /\ Ready # {}
          /\ \A t \in Ready : contract[plan.assignee[t]] # "GONE"
          /\ work' = [t \in Tasks |-> IF t \in Ready THEN "WAITING" ELSE work[t]]
          /\ phase' = "wave"
       \/ /\ \E t \in Ready : contract[plan.assignee[t]] = "GONE"
          /\ phase' = "missing"
          /\ UNCHANGED work
       \/ /\ Ready = {} /\ Remaining = Blocked
          /\ phase' = "done"
          /\ UNCHANGED work
       \/ /\ Ready = {} /\ Remaining # Blocked
          /\ phase' = "impossible"
          /\ UNCHANGED work
    /\ UNCHANGED <<team, contract, plan, row, drift, changes>>

(* Variant: a thread of the pool that is not given back.                   *)
BusyForever == {t \in Tasks : work[t] \in Finished \cup {"RUNNING"}}

Busy == {t \in Tasks : work[t] = "RUNNING"}

(* A thread of the pool, max_parallel of them, takes a task ...            *)
BeginTask(t) ==
    /\ work[t] = "WAITING"
    /\ Cardinality(Busy) < plan.team.parallel
    /\ work' = [work EXCEPT ![t] = "RUNNING"]
    /\ UNCHANGED <<team, contract, plan, phase, row, outcome, drift, changes>>

(* ... and its subagent delivers what a contract asks for, or less, or     *)
(* fails or raises.                                                        *)
EndTask(t) ==
    /\ work[t] = "RUNNING"
    /\ \E result \in Finished : work' = [work EXCEPT ![t] = result]
    /\ UNCHANGED <<team, contract, plan, phase, row, outcome, drift, changes>>

(* Variant: the contract of the teammate is not consulted.                 *)
JudgedLoosely(t) == IF work[t] = "FAILED" THEN "FAIL" ELSE "PASS"

(* _verification against the contract the teammate has by now.             *)
Judged(t) ==
    CASE work[t] = "FAILED" -> "FAIL"
      [] work[t] = "UNVERIFIED" /\ contract[plan.assignee[t]] = "STRICT" -> "FAIL_VERIFICATION"
      [] OTHER -> "PASS"

(* The wave is over when the pool is; its tasks are judged one by one.     *)
Collect(t) ==
    /\ phase = "wave"
    /\ \A u \in Tasks : work[u] \notin {"WAITING", "RUNNING"}
    /\ work[t] \in Finished
    /\ outcome[t] = "NONE"
    /\ IF contract[plan.assignee[t]] = "GONE"
       THEN phase' = "missing" /\ UNCHANGED outcome
       ELSE /\ outcome' = [outcome EXCEPT ![t] = Judged(t)]
            /\ phase' = IF \E u \in Tasks \ {t} : work[u] \in Finished /\ outcome[u] = "NONE"
                        THEN "wave" ELSE "round"
    /\ UNCHANGED <<team, contract, plan, row, work, drift, changes>>

(* Variant: the failures ParallelSubagentCoordinator counts, without those *)
(* of the verification.                                                    *)
VerdictUnverified == IF \E t \in Tasks : outcome[t] = "FAIL" THEN "FAIL" ELSE "PASS"

Verdict == IF \E t \in Tasks : outcome[t] # "PASS" THEN "FAIL" ELSE "PASS"

(* complete_run names the run only: the team may be gone.                  *)
CompleteRun ==
    /\ phase = "done"
    /\ row = "RUNNING"
    /\ row' = Verdict
    /\ UNCHANGED <<team, contract, plan, phase, work, outcome, drift, changes>>

(* The process dies; nothing takes the run up again.                       *)
Crash ==
    /\ phase \in {"round", "wave", "done"}
    /\ row = "RUNNING"
    /\ phase' = "dead"
    /\ UNCHANGED <<team, contract, plan, row, work, outcome, drift, changes>>

-----------------------------------------------------------------------------

Coordinate ==
    CheckTeam \/ Validate \/ StartRun \/ Round \/ (\E t \in Tasks : Collect(t)) \/ CompleteRun

Pool == phase = "wave" /\ \E t \in Tasks : BeginTask(t) \/ EndTask(t)

Environment == EditTeam \/ SetMembers \/ DeleteTeam \/ EditTeammate

Next == MakePlan \/ Coordinate \/ Pool \/ Environment \/ Crash

Spec == Init /\ [][Next]_vars

(* Subagents are bounded by max_steps and timeout_seconds, and a call of   *)
(* run() goes on; nobody is obliged to plan.                               *)
LiveSpec == Spec /\ WF_vars(Coordinate) /\ WF_vars(Pool)

-----------------------------------------------------------------------------
(* Properties.                                                             *)

TypeOK ==
    /\ team \in Team
    /\ contract \in [Teammates -> Contracts]
    /\ plan \in Plan \cup {NoPlan}
    /\ phase \in Phases
    /\ row \in {"NONE", "RUNNING", "PASS", "FAIL"}
    /\ work \in [Tasks -> Finished \cup {"NONE", "WAITING", "RUNNING"}]
    /\ outcome \in [Tasks -> Outcomes \cup {"NONE"}]
    /\ drift \in [team : BOOLEAN, contracts : SUBSET Teammates]
    /\ changes \in 0..MaxChanges

(* A plan that is accepted is a graph without cycles.                      *)
PlanIsAcyclic ==
    plan # NoPlan => \A t \in Tasks : t \notin Upstream(plan.depends, t)

(* A subagent is started only when everything its task depends on, at any  *)
(* distance, has been executed, verified and passed.                       *)
DependenciesPassed ==
    \A t \in Tasks :
        work[t] # "NONE" => \A a \in Upstream(plan.depends, t) : outcome[a] = "PASS"

(* A task is blocked only below a task that was executed and failed.       *)
BlockedForCause ==
    \A t \in Tasks :
        outcome[t] = "BLOCKED_DEPENDENCY" =>
            \E a \in Upstream(plan.depends, t) : outcome[a] \in {"FAIL", "FAIL_VERIFICATION"}

(* A recorded verdict accounts for every task, and PASS means that every   *)
(* one of them was executed and passed.                                    *)
VerdictIsWhole ==
    row \in {"PASS", "FAIL"} =>
        /\ \A t \in Tasks : outcome[t] # "NONE"
        /\ row = "PASS" <=> \A t \in Tasks : work[t] \in Finished /\ outcome[t] = "PASS"

(* A run that passed delivered what the contracts approved with the plan   *)
(* demand, except those of teammates edited since.                         *)
ApprovedContractsAreMet ==
    row = "PASS" =>
        \A t \in Tasks :
            (plan.contract[plan.assignee[t]] = "STRICT" /\ plan.assignee[t] \notin drift.contracts)
                => work[t] = "VERIFIED"

(* A run starts on the team as it was planned, unless the team changed     *)
(* between the comparison of the fingerprints and the row of the run.      *)
RunStartsOnPlannedTeam ==
    [][row = "NONE" /\ row' = "RUNNING" => team = plan.team \/ drift.team]_vars

(* A graph that was validated stalls only below a failure: the error of a  *)
(* dependency state that cannot be is raised for tasks below a blocked one.*)
StallsBelowFailuresOnly ==
    phase = "impossible" =>
        \E t \in Remaining : \E d \in plan.depends[t] : outcome[d] = "BLOCKED_DEPENDENCY"

(* A run that is started gets its verdict, or one of three ends: the       *)
(* process dies, a teammate is gone, or the error above.                   *)
RunEnds == row = "RUNNING" ~> row \in {"PASS", "FAIL"} \/ phase \in Stuck

(* teams.py:499 calls it impossible that tasks of a validated plan remain  *)
(* and none is ready.  The code breaks this: in a chain of three whose     *)
(* first task fails, only the second is blocked in the next round.         *)
NeverImpossible == phase # "impossible"
=============================================================================
