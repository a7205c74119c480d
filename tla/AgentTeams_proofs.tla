--------------------------- MODULE AgentTeams_proofs ---------------------------
(***************************************************************************)
(* Theorems about AgentTeams, for any tasks, teammates, plans and bounds.  *)
(*                                                                         *)
(* CoreInv is what a step of the coordinator relies on.  Outcomes are only *)
(* ever added: one that is there stays, so what a task was started on, or  *)
(* blocked for, remains true.  History records every change of the team or *)
(* of a contract that the coordinator has not seen.                        *)
(***************************************************************************)
EXTENDS AgentTeams, TLAPS

(* The phases of a run that has begun.                                     *)
Started == {"round", "wave", "done"} \cup Stuck

(* Nothing is started or judged before there is a run, and a verdict ends  *)
(* it.                                                                     *)
RunIsPlanned ==
    /\ phase # "idle" => plan # NoPlan
    /\ phase \notin Started =>
          /\ row = "NONE"
          /\ \A t \in Tasks : work[t] = "NONE" /\ outcome[t] = "NONE"
    /\ phase \in Started => row # "NONE"
    /\ row \in {"PASS", "FAIL"} => phase = "done"
    /\ phase = "done" => \A t \in Tasks : outcome[t] # "NONE"

(* The direct dependencies of a task that was started have passed, and     *)
(* what was judged was executed.                                           *)
StartedInOrder ==
    \A t \in Tasks :
        /\ work[t] # "NONE" => \A d \in plan.depends[t] : outcome[d] = "PASS"
        /\ outcome[t] \in {"PASS", "FAIL", "FAIL_VERIFICATION"} => work[t] \in Finished

(* History tells which contracts are still the approved ones, and a task   *)
(* that passed met them.                                                   *)
ContractsAreTracked ==
    plan # NoPlan =>
        /\ \A m \in Teammates \ drift.contracts : contract[m] = plan.contract[m]
        /\ \A t \in Tasks :
              /\ outcome[t] = "PASS"
              /\ plan.contract[plan.assignee[t]] = "STRICT"
              /\ plan.assignee[t] \notin drift.contracts
              => work[t] = "VERIFIED"

(* ... and so for the team while a run is being checked.                   *)
TeamIsTracked == phase \in {"checked", "validated"} => team = plan.team \/ drift.team

(* What is planned was validated, and whoever stalls stalls below a task   *)
(* that is blocked.                                                        *)
PlanIsGraph ==
    /\ plan # NoPlan => IsGraph(plan.depends)
    /\ StallsBelowFailuresOnly

(* The inductive invariant of a run of a team.                             *)
CoreInv ==
    /\ TypeOK
    /\ RunIsPlanned
    /\ StartedInOrder
    /\ BlockedForCause
    /\ VerdictIsWhole
    /\ ContractsAreTracked
    /\ TeamIsTracked
    /\ PlanIsGraph

-----------------------------------------------------------------------------
(* Upstream holds the direct dependencies ...                              *)
LEMMA UpstreamHasDepends ==
    ASSUME NEW depends \in [Tasks -> SUBSET Tasks], NEW t \in Tasks
    PROVE  depends[t] \subseteq Upstream(depends, t)
  BY DEF Upstream

(* ... and what is upstream of them ...                                    *)
LEMMA UpstreamIsTransitive ==
    ASSUME NEW depends \in [Tasks -> SUBSET Tasks], NEW t \in Tasks, NEW d \in depends[t]
    PROVE  Upstream(depends, d) \subseteq Upstream(depends, t)
  <1> SUFFICES ASSUME NEW a \in Upstream(depends, d), NEW S \in SUBSET Tasks,
                      depends[t] \subseteq S, \A s \in S : depends[s] \subseteq S
               PROVE  a \in S
    BY DEF Upstream
  <1>1. d \in S
    OBVIOUS
  <1>2. depends[d] \subseteq S
    BY <1>1
  <1> QED
    BY <1>2 DEF Upstream

(* ... and nothing outside a closed set that holds the dependencies.       *)
LEMMA UpstreamIsLeast ==
    ASSUME NEW depends \in [Tasks -> SUBSET Tasks], NEW t \in Tasks, NEW S \in SUBSET Tasks,
           depends[t] \subseteq S, \A s \in S : depends[s] \subseteq S
    PROVE  Upstream(depends, t) \subseteq S
  BY DEF Upstream

(* What is upstream of a task is a dependency or upstream of one.          *)
LEMMA UpstreamIsDependsOrAbove ==
    ASSUME NEW depends \in [Tasks -> SUBSET Tasks], NEW t \in Tasks, NEW a \in Upstream(depends, t)
    PROVE  \E d \in depends[t] : a = d \/ a \in Upstream(depends, d)
  <1> DEFINE above == depends[t] \cup UNION {Upstream(depends, d) : d \in depends[t]}
  <1>1. \A d \in depends[t] : d \in Tasks /\ Upstream(depends, d) \subseteq Tasks
    BY DEF Upstream
  <1>2. above \in SUBSET Tasks
    BY <1>1
  <1>3. \A s \in above : depends[s] \subseteq above
    <2> SUFFICES ASSUME NEW s \in above, NEW u \in depends[s]
                 PROVE  u \in above
      OBVIOUS
    <2>1. CASE s \in depends[t]
      BY <1>1, <2>1, UpstreamHasDepends
    <2>2. CASE \E d \in depends[t] : s \in Upstream(depends, d)
      <3>1. PICK d \in depends[t] : s \in Upstream(depends, d)
        BY <2>2
      <3>2. u \in Upstream(depends, d)
        BY <1>1, <3>1 DEF Upstream
      <3> QED
        BY <3>1, <3>2
    <2> QED
      BY <2>1, <2>2
  <1> HIDE DEF above
  <1>4. depends[t] \subseteq above
    BY DEF above
  <1>5. Upstream(depends, t) \subseteq above
    BY <1>2, <1>3, <1>4, UpstreamIsLeast
  <1> QED
    BY <1>5 DEF above

(* Whatever is upstream of an upstream task is upstream too.               *)
LEMMA UpstreamOfUpstream ==
    ASSUME NEW depends \in [Tasks -> SUBSET Tasks], NEW t \in Tasks, NEW a \in Upstream(depends, t)
    PROVE  Upstream(depends, a) \subseteq Upstream(depends, t)
  <1>1. a \in Tasks /\ Upstream(depends, t) \in SUBSET Tasks
    BY DEF Upstream
  <1>2. \A s \in Upstream(depends, t) : depends[s] \subseteq Upstream(depends, t)
    BY DEF Upstream
  <1>3. depends[a] \subseteq Upstream(depends, t)
    BY <1>2
  <1> QED
    BY <1>1, <1>2, <1>3, UpstreamIsLeast

(* If in every set of pending tasks one depends on none of them, no task   *)
(* is upstream of itself: the tasks that are would be such a set.          *)
LEMMA GraphsAreAcyclic ==
    ASSUME NEW depends \in [Tasks -> SUBSET Tasks], IsGraph(depends)
    PROVE  \A t \in Tasks : t \notin Upstream(depends, t)
  <1> DEFINE cyclic == {t \in Tasks : t \in Upstream(depends, t)}
  <1> SUFFICES ASSUME cyclic # {} PROVE FALSE
    OBVIOUS
  <1>1. cyclic \in (SUBSET Tasks) \ {{}}
    OBVIOUS
  <1>2. PICK t \in cyclic : depends[t] \cap cyclic = {}
    BY <1>1, Zenon DEF IsGraph
  <1>3. PICK d \in depends[t] : t = d \/ t \in Upstream(depends, d)
    BY UpstreamIsDependsOrAbove
  <1>4. d \in Tasks /\ d \in Upstream(depends, t)
    BY UpstreamHasDepends
  <1>5. d \in Upstream(depends, d)
    BY <1>3, <1>4, UpstreamOfUpstream
  <1> QED
    BY <1>2, <1>3, <1>4, <1>5

(* The parts of a plan have their types.                                   *)
LEMMA PlanParts ==
    ASSUME TypeOK, plan # NoPlan
    PROVE  /\ plan.depends \in [Tasks -> SUBSET Tasks]
           /\ plan.assignee \in [Tasks -> Teammates]
           /\ plan.team \in Team
           /\ plan.contract \in [Teammates -> Contracts]
  BY DEF TypeOK, Plan

(* Clamping gives a pool of at least one thread and at most the limit.     *)
LEMMA ClampedType ==
    ASSUME NEW p \in Asked
    PROVE  Clamped(p) \in 1..MaxParallel
  BY BoundsAssumption DEF Asked, Clamped

(* What a step leaves of the graph when it neither plans nor judges.       *)
LEMMA PlanIsGraphKept ==
    ASSUME PlanIsGraph, plan' = plan, outcome' = outcome, phase' = "impossible" => phase' = phase
    PROVE  PlanIsGraph'
  BY DEF PlanIsGraph, StallsBelowFailuresOnly, Remaining, IsGraph

-----------------------------------------------------------------------------
(* The initial states satisfy the invariant.                               *)
LEMMA InitCore == Init => CoreInv
  <1> SUFFICES ASSUME Init PROVE CoreInv
    OBVIOUS
  <1>1. team \in Team
    BY ClampedType DEF Init, Team
  <1>2. TypeOK
    BY <1>1, BoundsAssumption DEF Init, TypeOK, Contracts, Phases
  <1>3. RunIsPlanned
    BY DEF Init, RunIsPlanned, Started, Stuck
  <1>4. StartedInOrder /\ BlockedForCause /\ VerdictIsWhole
    BY DEF Init, StartedInOrder, BlockedForCause, VerdictIsWhole
  <1>5. ContractsAreTracked /\ TeamIsTracked /\ PlanIsGraph
    BY DEF Init, ContractsAreTracked, TeamIsTracked, PlanIsGraph, StallsBelowFailuresOnly
  <1> QED
    BY <1>2, <1>3, <1>4, <1>5 DEF CoreInv

(* A plan is made before anything is started.                              *)
LEMMA MakePlanCore ==
    ASSUME CoreInv, MakePlan
    PROVE  CoreInv'
  <1> USE DEF CoreInv
  <1>1. PICK request \in Requests :
            /\ IsGraph(request.depends)
            /\ plan' = [depends |-> request.depends, assignee |-> request.assignee,
                        team |-> team, contract |-> contract]
    BY DEF MakePlan
  <1>2. phase = "idle" /\ phase' = "idle"
    BY DEF MakePlan, RunIsPlanned
  <1>3. plan' \in Plan /\ plan'.contract = contract
    BY <1>1, RequestsAssumption DEF Plan, TypeOK
  <1>4. TypeOK'
    BY <1>3 DEF MakePlan, TypeOK
  <1>5. RunIsPlanned' /\ TeamIsTracked'
    BY <1>2 DEF MakePlan, RunIsPlanned, TeamIsTracked, Started, Stuck
  <1>6. row = "NONE" /\ \A t \in Tasks : work[t] = "NONE" /\ outcome[t] = "NONE"
    BY <1>2 DEF RunIsPlanned, Started, Stuck
  <1>7. StartedInOrder' /\ BlockedForCause' /\ VerdictIsWhole'
    BY <1>6 DEF MakePlan, StartedInOrder, BlockedForCause, VerdictIsWhole
  <1>8. ContractsAreTracked'
    BY <1>3, <1>6 DEF MakePlan, ContractsAreTracked
  <1>9. PlanIsGraph'
    BY <1>1, <1>2 DEF PlanIsGraph, StallsBelowFailuresOnly, IsGraph
  <1> QED
    BY <1>4, <1>5, <1>7, <1>8, <1>9

(* A change of the team is recorded in the history while a run checks it.  *)
LEMMA TeamChangesCore ==
    ASSUME CoreInv, NEW state \in Team, TeamChanges(state)
    PROVE  CoreInv'
  <1> USE DEF CoreInv
  <1>0. \A b \in BOOLEAN : [drift EXCEPT !.team = b] \in [team : BOOLEAN, contracts : SUBSET Teammates]
    BY DEF TypeOK
  <1>1. TypeOK'
    <2>1. drift' \in [team : BOOLEAN, contracts : SUBSET Teammates]
      <3>1. (drift.team \/ phase \in {"checked", "validated"}) \in BOOLEAN
        BY DEF TypeOK
      <3> QED
        BY <1>0, <3>1, Zenon DEF TeamChanges
    <2>2. changes' \in 0..MaxChanges
      BY BoundsAssumption DEF TeamChanges, TypeOK
    <2> QED
      BY <2>1, <2>2 DEF TeamChanges, TypeOK
  <1>2. drift'.contracts = drift.contracts
    BY DEF TeamChanges, TypeOK
  <1>3. phase \in {"checked", "validated"} => drift'.team
    BY DEF TeamChanges, TypeOK
  <1>4. TeamIsTracked'
    BY <1>3 DEF TeamChanges, TeamIsTracked
  <1>5. RunIsPlanned' /\ StartedInOrder' /\ BlockedForCause' /\ VerdictIsWhole'
    BY DEF TeamChanges, RunIsPlanned, StartedInOrder, BlockedForCause, VerdictIsWhole
  <1>6. ContractsAreTracked'
    BY <1>2 DEF TeamChanges, ContractsAreTracked
  <1>7. PlanIsGraph'
    BY PlanIsGraphKept DEF TeamChanges
  <1> QED
    BY <1>1, <1>4, <1>5, <1>6, <1>7

(* So is the edit of a teammate.                                           *)
LEMMA EditTeammateCore ==
    ASSUME CoreInv, EditTeammate
    PROVE  CoreInv'
  <1> USE DEF CoreInv
  <1>1. PICK m \in Teammates, demand \in Contracts :
            /\ contract' = [contract EXCEPT ![m] = demand]
            /\ drift' = [drift EXCEPT !.contracts = @ \cup {m}]
    BY DEF EditTeammate
  <1>2. TypeOK'
    BY <1>1, BoundsAssumption DEF EditTeammate, TypeOK
  <1>3. drift'.team = drift.team /\ drift'.contracts = drift.contracts \cup {m}
    BY <1>1 DEF TypeOK
  <1>4. \A n \in Teammates \ {m} : contract'[n] = contract[n]
    BY <1>1 DEF TypeOK
  <1>5. ContractsAreTracked'
    BY <1>3, <1>4 DEF EditTeammate, ContractsAreTracked
  <1>6. RunIsPlanned' /\ StartedInOrder' /\ BlockedForCause' /\ VerdictIsWhole' /\ TeamIsTracked'
    BY <1>3 DEF EditTeammate, RunIsPlanned, StartedInOrder, BlockedForCause, VerdictIsWhole,
                TeamIsTracked
  <1>7. PlanIsGraph'
    BY PlanIsGraphKept DEF EditTeammate
  <1> QED
    BY <1>2, <1>5, <1>6, <1>7

(* The requests of other processes.                                        *)
LEMMA EnvironmentCore ==
    ASSUME CoreInv, Environment
    PROVE  CoreInv'
  <1>0. team \in Team
    BY DEF CoreInv, TypeOK
  <1>1. CASE EditTeam
    <2>1. PICK p \in Asked : TeamChanges([team EXCEPT !.parallel = Clamped(p)])
      BY <1>1 DEF EditTeam
    <2>2. [team EXCEPT !.parallel = Clamped(p)] \in Team
      BY <1>0, ClampedType DEF Team
    <2> QED
      BY <2>1, <2>2, TeamChangesCore
  <1>2. CASE SetMembers
    <2>1. PICK members \in SUBSET Teammates : TeamChanges([team EXCEPT !.members = members])
      BY <1>2 DEF SetMembers
    <2>2. [team EXCEPT !.members = members] \in Team
      BY <1>0 DEF Team
    <2> QED
      BY <2>1, <2>2, TeamChangesCore
  <1>3. CASE DeleteTeam
    <2>1. [team EXCEPT !.there = FALSE, !.members = {}] \in Team
      BY <1>0 DEF Team
    <2> QED
      BY <1>3, <2>1, TeamChangesCore DEF DeleteTeam
  <1> QED
    BY <1>1, <1>2, <1>3, EditTeammateCore DEF Environment

-----------------------------------------------------------------------------
(* A check that succeeds notes that the team is the planned one.           *)
LEMMA CheckTeamCore ==
    ASSUME CoreInv, CheckTeam
    PROVE  CoreInv'
  <1> USE DEF CoreInv
  <1>1. drift' \in [team : BOOLEAN, contracts : SUBSET Teammates] /\ drift'.contracts = drift.contracts
    BY DEF CheckTeam, TypeOK
  <1>2. TypeOK'
    BY <1>1 DEF CheckTeam, TypeOK, Phases
  <1>3. RunIsPlanned'
    BY DEF CheckTeam, RunIsPlanned, Started, Stuck
  <1>4. TeamIsTracked'
    BY DEF CheckTeam, IsStale, TeamIsTracked
  <1>5. StartedInOrder' /\ BlockedForCause' /\ VerdictIsWhole' /\ ContractsAreTracked'
    BY <1>1 DEF CheckTeam, StartedInOrder, BlockedForCause, VerdictIsWhole, ContractsAreTracked
  <1>6. PlanIsGraph'
    BY PlanIsGraphKept DEF CheckTeam
  <1> QED
    BY <1>2, <1>3, <1>4, <1>5, <1>6

(* The second check and the row of the run.                                *)
LEMMA StartCore ==
    ASSUME CoreInv, Validate \/ StartRun
    PROVE  CoreInv'
  <1> USE DEF CoreInv
  <1>1. TypeOK'
    BY DEF Validate, StartRun, TypeOK, Phases
  <1>2. RunIsPlanned'
    <2>1. CASE Validate
      BY <2>1 DEF Validate, RunIsPlanned, Started, Stuck
    <2>2. CASE StartRun
      BY <2>2 DEF StartRun, RunIsPlanned, Started, Stuck
    <2> QED
      BY <2>1, <2>2
  <1>3. TeamIsTracked'
    BY DEF Validate, StartRun, TeamIsTracked
  <1>4. row' \in {"PASS", "FAIL"} => row' = row
    BY DEF Validate, StartRun
  <1>5. StartedInOrder' /\ BlockedForCause' /\ VerdictIsWhole' /\ ContractsAreTracked'
    BY <1>4 DEF Validate, StartRun, StartedInOrder, BlockedForCause, VerdictIsWhole,
                ContractsAreTracked
  <1>6. PlanIsGraph'
    BY PlanIsGraphKept DEF Validate, StartRun
  <1> QED
    BY <1>1, <1>2, <1>3, <1>5, <1>6

(* What is blocked by an outcome is blocked below an executed failure: by  *)
(* a dependency that failed itself, or by one blocked earlier.             *)
LEMMA BlockedBelowFailure ==
    ASSUME TypeOK, BlockedForCause, plan # NoPlan, NEW t \in Blocked
    PROVE  \E a \in Upstream(plan.depends, t) : outcome[a] \in {"FAIL", "FAIL_VERIFICATION"}
  <1>1. t \in Tasks /\ plan.depends \in [Tasks -> SUBSET Tasks]
    BY PlanParts DEF Blocked, Remaining
  <1>2. PICK d \in plan.depends[t] : outcome[d] \notin {"NONE", "PASS"}
    BY DEF Blocked
  <1>3. d \in Tasks /\ d \in Upstream(plan.depends, t)
    BY <1>1, <1>2, UpstreamHasDepends
  <1>4. CASE outcome[d] \in {"FAIL", "FAIL_VERIFICATION"}
    BY <1>3, <1>4
  <1>5. CASE outcome[d] = "BLOCKED_DEPENDENCY"
    <2>1. PICK a \in Upstream(plan.depends, d) : outcome[a] \in {"FAIL", "FAIL_VERIFICATION"}
      BY <1>3, <1>5 DEF BlockedForCause
    <2>2. a \in Upstream(plan.depends, t)
      BY <1>1, <1>2, <2>1, UpstreamIsTransitive
    <2> QED
      BY <2>1, <2>2
  <1>6. outcome[d] \in Outcomes
    BY <1>2, <1>3 DEF TypeOK
  <1> QED
    BY <1>2, <1>4, <1>5, <1>6 DEF Outcomes

(* A round that stalls leaves tasks pending.  One of them depends on none  *)
(* of the others and is not ready, so what it depends on was blocked now.  *)
LEMMA RoundStalls ==
    ASSUME CoreInv, Round
    PROVE  StallsBelowFailuresOnly'
  <1> SUFFICES ASSUME phase' = "impossible"
               PROVE  \E t \in Remaining' : \E d \in plan.depends[t] : outcome'[d] = "BLOCKED_DEPENDENCY"
    BY DEF StallsBelowFailuresOnly, Round
  <1>1. /\ Ready = {} /\ Remaining # Blocked
        /\ outcome' = [t \in Tasks |-> IF t \in Blocked THEN "BLOCKED_DEPENDENCY" ELSE outcome[t]]
    BY DEF Round
  <1>2. plan.depends \in [Tasks -> SUBSET Tasks] /\ IsGraph(plan.depends)
    BY PlanParts DEF CoreInv, RunIsPlanned, PlanIsGraph, Round
  <1>3. Remaining' = Remaining \ Blocked
    BY <1>1 DEF Remaining
  <1>4. Remaining' \in (SUBSET Tasks) \ {{}}
    BY <1>1, <1>3 DEF Remaining, Blocked
  <1>5. PICK t \in Remaining' : plan.depends[t] \cap Remaining' = {}
    BY <1>2, <1>4 DEF IsGraph
  <1>6. t \in Remaining /\ t \notin Blocked /\ t \notin Ready
    BY <1>1, <1>3, <1>5
  <1>7. PICK d \in plan.depends[t] : outcome[d] # "PASS"
    BY <1>6 DEF Ready
  <1>8. d \in Tasks /\ outcome[d] = "NONE"
    BY <1>2, <1>6, <1>7 DEF Blocked, Remaining
  <1>9. d \in Blocked
    BY <1>3, <1>5, <1>7, <1>8 DEF Remaining
  <1> QED
    BY <1>1, <1>5, <1>8, <1>9

(* The head of the loop adds outcomes to tasks without one, and starts     *)
(* tasks whose dependencies have passed.                                   *)
LEMMA RoundCore ==
    ASSUME CoreInv, Round
    PROVE  CoreInv'
  <1> USE DEF CoreInv
  <1>1. /\ phase = "round" /\ phase' \in {"wave", "missing", "done", "impossible"}
        /\ plan' = plan /\ row' = row /\ drift' = drift /\ contract' = contract /\ team' = team
        /\ changes' = changes
        /\ outcome' = [t \in Tasks |-> IF t \in Blocked THEN "BLOCKED_DEPENDENCY" ELSE outcome[t]]
    BY DEF Round
  <1>2. plan # NoPlan /\ plan.depends \in [Tasks -> SUBSET Tasks]
    BY <1>1, PlanParts DEF RunIsPlanned
  <1>3. \A t \in Tasks : outcome[t] # "NONE" => outcome'[t] = outcome[t]
    BY <1>1 DEF Blocked, Remaining
  <1>4. \A t \in Tasks : work'[t] = work[t] \/ (t \in Ready /\ work'[t] = "WAITING")
    BY DEF Round, TypeOK
  <1>5. work' \in [Tasks -> Finished \cup {"NONE", "WAITING", "RUNNING"}]
    BY DEF Round, TypeOK
  <1>6. TypeOK'
    BY <1>1, <1>5 DEF TypeOK, Phases, Stuck, Outcomes
  <1>7. RunIsPlanned'
    <2>1. phase' = "done" => Remaining = Blocked
      BY DEF Round
    <2>2. phase' = "done" => \A t \in Tasks : outcome'[t] # "NONE"
      BY <1>1, <2>1 DEF Remaining
    <2> QED
      BY <1>1, <1>2, <2>2 DEF RunIsPlanned, Started, Stuck
  <1>8. StartedInOrder'
    <2> SUFFICES ASSUME NEW t \in Tasks
                 PROVE  /\ work'[t] # "NONE" => \A d \in plan.depends[t] : outcome'[d] = "PASS"
                        /\ outcome'[t] \in {"PASS", "FAIL", "FAIL_VERIFICATION"} => work'[t] \in Finished
      BY <1>1 DEF StartedInOrder
    <2>1. work'[t] # "NONE" => \A d \in plan.depends[t] : outcome[d] = "PASS"
      BY <1>4 DEF StartedInOrder, Ready
    <2>2. \A d \in plan.depends[t] : d \in Tasks
      BY <1>2
    <2>3. outcome'[t] \in {"PASS", "FAIL", "FAIL_VERIFICATION"} => outcome[t] = outcome'[t] /\ t \notin Ready
      BY <1>1 DEF Ready, Remaining
    <2> QED
      BY <1>3, <1>4, <2>1, <2>2, <2>3 DEF StartedInOrder
  <1>9. BlockedForCause'
    <2> SUFFICES ASSUME NEW t \in Tasks, outcome'[t] = "BLOCKED_DEPENDENCY"
                 PROVE  \E a \in Upstream(plan.depends, t) : outcome'[a] \in {"FAIL", "FAIL_VERIFICATION"}
      BY <1>1 DEF BlockedForCause, Upstream
    <2>1. \E a \in Upstream(plan.depends, t) : outcome[a] \in {"FAIL", "FAIL_VERIFICATION"}
      BY <1>1, <1>2, BlockedBelowFailure DEF BlockedForCause
    <2>2. \A a \in Upstream(plan.depends, t) : a \in Tasks
      BY DEF Upstream
    <2> QED
      BY <1>3, <2>1, <2>2
  <1>10. VerdictIsWhole'
    BY <1>1 DEF VerdictIsWhole, RunIsPlanned
  <1>11. ContractsAreTracked'
    <2>1. \A t \in Tasks : outcome'[t] = "PASS" => outcome[t] = "PASS" /\ work'[t] = work[t]
      BY <1>1, <1>4 DEF Ready, Remaining
    <2> QED
      BY <1>1, <2>1 DEF ContractsAreTracked
  <1>12. TeamIsTracked'
    BY <1>1 DEF TeamIsTracked
  <1>13. PlanIsGraph'
    BY <1>1, RoundStalls DEF PlanIsGraph, IsGraph
  <1> QED
    BY <1>6, <1>7, <1>8, <1>9, <1>10, <1>11, <1>12, <1>13

(* A thread of the pool touches a task that was started and not judged.    *)
LEMMA PoolCore ==
    ASSUME CoreInv, Pool
    PROVE  CoreInv'
  <1> USE DEF CoreInv
  <1>1. PICK t \in Tasks : BeginTask(t) \/ EndTask(t)
    BY DEF Pool
  <1>2. /\ phase = "wave" /\ work[t] \in {"WAITING", "RUNNING"}
        /\ \A u \in Tasks : work'[u] # work[u] => u = t
        /\ work' \in [Tasks -> Finished \cup {"NONE", "WAITING", "RUNNING"}]
        /\ UNCHANGED <<team, contract, plan, phase, row, outcome, drift, changes>>
    BY <1>1 DEF Pool, BeginTask, EndTask, TypeOK
  <1>3. outcome[t] \notin {"PASS", "FAIL", "FAIL_VERIFICATION"}
    BY <1>2 DEF StartedInOrder, Finished
  <1>4. TypeOK'
    BY <1>2 DEF TypeOK
  <1>5. RunIsPlanned' /\ BlockedForCause' /\ TeamIsTracked'
    BY <1>2 DEF RunIsPlanned, BlockedForCause, TeamIsTracked, Started
  <1>6. StartedInOrder'
    BY <1>2, <1>3 DEF StartedInOrder
  <1>7. VerdictIsWhole'
    BY <1>2 DEF RunIsPlanned, VerdictIsWhole
  <1>8. ContractsAreTracked'
    BY <1>2, <1>3 DEF ContractsAreTracked
  <1>9. PlanIsGraph'
    BY <1>2, PlanIsGraphKept
  <1> QED
    BY <1>4, <1>5, <1>6, <1>7, <1>8, <1>9

(* Collecting adds the outcome of a task that was executed.                *)
LEMMA CollectCore ==
    ASSUME CoreInv, NEW t \in Tasks, Collect(t)
    PROVE  CoreInv'
  <1> USE DEF CoreInv
  <1>1. /\ phase = "wave" /\ phase' \in {"missing", "wave", "round"}
        /\ work[t] \in Finished /\ outcome[t] = "NONE"
        /\ UNCHANGED <<team, contract, plan, row, work, drift, changes>>
        /\ outcome' = outcome \/ outcome' = [outcome EXCEPT ![t] = Judged(t)]
    BY DEF Collect
  <1>2. plan # NoPlan /\ plan.depends \in [Tasks -> SUBSET Tasks] /\ plan.assignee[t] \in Teammates
    BY <1>1, PlanParts DEF RunIsPlanned
  <1>3. Judged(t) \in {"PASS", "FAIL", "FAIL_VERIFICATION"}
    BY <1>1 DEF Judged
  <1>4. /\ outcome' \in [Tasks -> Outcomes \cup {"NONE"}]
        /\ \A u \in Tasks : outcome[u] # "NONE" => outcome'[u] = outcome[u]
        /\ \A u \in Tasks : outcome'[u] = outcome[u] \/ (u = t /\ outcome'[u] = Judged(t))
    BY <1>1, <1>3 DEF TypeOK, Outcomes
  <1>5. TypeOK'
    BY <1>1, <1>4 DEF TypeOK, Phases, Stuck
  <1>6. RunIsPlanned'
    BY <1>1, <1>2 DEF RunIsPlanned, Started, Stuck
  <1>7. StartedInOrder'
    <2> SUFFICES ASSUME NEW u \in Tasks
                 PROVE  /\ work[u] # "NONE" => \A d \in plan.depends[u] : outcome'[d] = "PASS"
                        /\ outcome'[u] \in {"PASS", "FAIL", "FAIL_VERIFICATION"} => work[u] \in Finished
      BY <1>1 DEF StartedInOrder
    <2>1. \A d \in plan.depends[u] : d \in Tasks
      BY <1>2
    <2> QED
      BY <1>1, <1>4, <2>1 DEF StartedInOrder
  <1>8. BlockedForCause'
    <2> SUFFICES ASSUME NEW u \in Tasks, outcome'[u] = "BLOCKED_DEPENDENCY"
                 PROVE  \E a \in Upstream(plan.depends, u) : outcome'[a] \in {"FAIL", "FAIL_VERIFICATION"}
      BY <1>1 DEF BlockedForCause, Upstream
    <2>1. PICK a \in Upstream(plan.depends, u) : outcome[a] \in {"FAIL", "FAIL_VERIFICATION"}
      BY <1>3, <1>4 DEF BlockedForCause
    <2>2. a \in Tasks
      BY DEF Upstream
    <2> QED
      BY <1>4, <2>1, <2>2
  <1>9. VerdictIsWhole' /\ TeamIsTracked'
    BY <1>1 DEF RunIsPlanned, VerdictIsWhole, TeamIsTracked
  <1>10. ContractsAreTracked'
    <2>1. /\ Judged(t) = "PASS"
          /\ plan.contract[plan.assignee[t]] = "STRICT"
          /\ plan.assignee[t] \notin drift.contracts
          => work[t] = "VERIFIED"
      BY <1>1, <1>2 DEF Judged, ContractsAreTracked, Finished
    <2> QED
      BY <1>1, <1>4, <2>1 DEF ContractsAreTracked
  <1>11. PlanIsGraph'
    BY <1>1 DEF PlanIsGraph, StallsBelowFailuresOnly, IsGraph
  <1> QED
    BY <1>5, <1>6, <1>7, <1>8, <1>9, <1>10, <1>11

(* The verdict is taken from all outcomes; a crash leaves the row running. *)
LEMMA EndOfRunCore ==
    ASSUME CoreInv, CompleteRun \/ Crash
    PROVE  CoreInv'
  <1> USE DEF CoreInv
  <1>1. Verdict \in {"PASS", "FAIL"}
    BY DEF Verdict
  <1>2. TypeOK'
    BY <1>1 DEF CompleteRun, Crash, TypeOK, Phases, Stuck
  <1>3. RunIsPlanned'
    BY <1>1 DEF CompleteRun, Crash, RunIsPlanned, Started, Stuck
  <1>4. StartedInOrder' /\ BlockedForCause' /\ ContractsAreTracked' /\ TeamIsTracked'
    BY DEF CompleteRun, Crash, StartedInOrder, BlockedForCause, ContractsAreTracked, TeamIsTracked
  <1>5. VerdictIsWhole'
    <2>1. CASE CompleteRun
      BY <2>1 DEF CompleteRun, Verdict, VerdictIsWhole, RunIsPlanned, StartedInOrder
    <2>2. CASE Crash
      BY <2>2 DEF Crash, VerdictIsWhole
    <2> QED
      BY <2>1, <2>2
  <1>6. PlanIsGraph'
    BY PlanIsGraphKept DEF CompleteRun, Crash
  <1> QED
    BY <1>2, <1>3, <1>4, <1>5, <1>6

-----------------------------------------------------------------------------
(* Every step preserves the invariant.                                     *)
LEMMA NextCore == CoreInv /\ [Next]_vars => CoreInv'
  <1> SUFFICES ASSUME CoreInv, [Next]_vars PROVE CoreInv'
    OBVIOUS
  <1>1. CASE UNCHANGED vars
    BY <1>1 DEF vars, CoreInv, TypeOK, RunIsPlanned, StartedInOrder, BlockedForCause,
                VerdictIsWhole, ContractsAreTracked, TeamIsTracked, PlanIsGraph, IsGraph,
                StallsBelowFailuresOnly, Remaining
  <1>2. CASE Coordinate
    BY <1>2, CheckTeamCore, StartCore, RoundCore, EndOfRunCore, CollectCore DEF Coordinate
  <1> QED
    BY <1>1, <1>2, MakePlanCore, PoolCore, EnvironmentCore, EndOfRunCore DEF Next

(* The invariant of the coordinator: types, outcomes added in the order of *)
(* the graph, the history of what changed behind its back.                 *)
THEOREM CoreInvariant == Spec => []CoreInv
  BY InitCore, NextCore, PTL DEF Spec

(* Tables, coordinator and pool keep their types.                          *)
THEOREM TypeCorrect == Spec => []TypeOK
  <1>1. CoreInv => TypeOK
    BY DEF CoreInv
  <1> QED
    BY <1>1, CoreInvariant, PTL

(* A plan that is accepted has no cycle, of any length.                    *)
THEOREM AcyclicPlan == Spec => []PlanIsAcyclic
  <1>1. CoreInv => PlanIsAcyclic
    BY PlanParts, GraphsAreAcyclic DEF CoreInv, PlanIsGraph, PlanIsAcyclic
  <1> QED
    BY <1>1, CoreInvariant, PTL

(* The error of an impossible dependency state is raised only below a task *)
(* that is blocked: no validated plan stalls otherwise.                    *)
THEOREM StallsBelowFailures == Spec => []StallsBelowFailuresOnly
  <1>1. CoreInv => StallsBelowFailuresOnly
    BY DEF CoreInv, PlanIsGraph
  <1> QED
    BY <1>1, CoreInvariant, PTL

(* However teams and contracts are edited meanwhile, a subagent is started *)
(* only when everything upstream of its task has passed: the passed tasks  *)
(* are a closed set that holds its dependencies.                           *)
THEOREM StartedAfterDependencies == Spec => []DependenciesPassed
  <1>1. CoreInv => DependenciesPassed
    <2> SUFFICES ASSUME CoreInv, NEW t \in Tasks, work[t] # "NONE"
                 PROVE  \A a \in Upstream(plan.depends, t) : outcome[a] = "PASS"
      BY DEF DependenciesPassed
    <2> DEFINE passed == {u \in Tasks : outcome[u] = "PASS"}
    <2>1. plan.depends \in [Tasks -> SUBSET Tasks]
      BY PlanParts DEF CoreInv, RunIsPlanned, Started, Stuck
    <2>2. plan.depends[t] \subseteq passed
      BY <2>1 DEF CoreInv, StartedInOrder
    <2>3. \A u \in passed : plan.depends[u] \subseteq passed
      BY <2>1 DEF CoreInv, StartedInOrder, Finished
    <2> HIDE DEF passed
    <2>4. Upstream(plan.depends, t) \subseteq passed
      <3>1. passed \in SUBSET Tasks
        BY DEF passed
      <3> QED
        BY <2>1, <2>2, <2>3, <3>1, UpstreamIsLeast
    <2> QED
      BY <2>4 DEF passed
  <1> QED
    BY <1>1, CoreInvariant, PTL

(* What is blocked is blocked below a task that was executed and failed.   *)
THEOREM BlockedBelowFailures == Spec => []BlockedForCause
  <1>1. CoreInv => BlockedForCause
    BY DEF CoreInv
  <1> QED
    BY <1>1, CoreInvariant, PTL

(* A recorded verdict accounts for every task.                             *)
THEOREM WholeVerdict == Spec => []VerdictIsWhole
  <1>1. CoreInv => VerdictIsWhole
    BY DEF CoreInv
  <1> QED
    BY <1>1, CoreInvariant, PTL

(* A run that passed met the approved contracts of the teammates that were *)
(* not edited since the approval.                                          *)
THEOREM ContractsMet == Spec => []ApprovedContractsAreMet
  <1>1. CoreInv => ApprovedContractsAreMet
    BY DEF CoreInv, RunIsPlanned, VerdictIsWhole, ContractsAreTracked, ApprovedContractsAreMet
  <1> QED
    BY <1>1, CoreInvariant, PTL

(* A run starts on the planned team, or on one changed since its check.    *)
THEOREM StartsOnPlannedTeam == Spec => RunStartsOnPlannedTeam
  <1>1. CoreInv /\ [Next]_vars => [row = "NONE" /\ row' = "RUNNING" => team = plan.team \/ drift.team]_vars
    <2> SUFFICES ASSUME CoreInv, [Next]_vars, row = "NONE", row' = "RUNNING"
                 PROVE  team = plan.team \/ drift.team
      OBVIOUS
    <2>1. Verdict # "RUNNING"
      BY DEF Verdict
    <2>2. StartRun
      BY <2>1 DEF Next, Coordinate, Pool, Environment, MakePlan, CheckTeam, Validate, Round, Collect,
                  CompleteRun, Crash, BeginTask, EndTask, EditTeam, SetMembers, DeleteTeam,
                  TeamChanges, EditTeammate, vars
    <2> QED
      BY <2>2 DEF StartRun, CoreInv, TeamIsTracked
  <1> QED
    BY <1>1, CoreInvariant, PTL DEF Spec, RunStartsOnPlannedTeam
================================================================================
