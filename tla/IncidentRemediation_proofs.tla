---------------------- MODULE IncidentRemediation_proofs ----------------------
(***************************************************************************)
(* Theorems about IncidentRemediation for every set of incidents, assets   *)
(* and callers: types, approval before execution, verification before      *)
(* certification; and, of incidents whose state was never overwritten      *)
(* unread, at most one remediation, nothing certified after a rejection,   *)
(* and a resolution that means what it says.                               *)
(***************************************************************************)
EXTENDS IncidentRemediation, TLAPS

-----------------------------------------------------------------------------
(* The steps of an investigation, and of an execution.                     *)

InvestigationSteps ==
    {"triage", "propose", "DETECTED", "INVESTIGATING", "EVIDENCE_COLLECTION", "RCA",
     "IMPACT_ANALYSIS", "REMEDIATION_PROPOSED", "AWAITING_APPROVAL"}

(* The stages of an incident, and the steps of a caller, from the          *)
(* execution on,                                                           *)
ExecutionSteps ==
    {"REMEDIATING", "VERIFYING", "RECERTIFYING", "RESOLVED",
     "execution", "verification", "certify", "certification"}

(* from the recertification on,                                            *)
RecertificationSteps == {"RECERTIFYING", "RESOLVED", "certify", "certification"}

(* and those before the approval.                                          *)
EarlyStates ==
    {"DETECTED", "INVESTIGATING", "EVIDENCE_COLLECTION", "RCA", "IMPACT_ANALYSIS",
     "REMEDIATION_PROPOSED"}

(* A caller that serves a request serves it on an incident that exists.    *)
Busy ==
    \A c \in Callers :
        caller[c].step # "idle" =>
            caller[c].on \in Incidents /\ incident[caller[c].on].state # "ABSENT"

(* An investigation has its incident to itself, and no plan of that        *)
(* incident is approved yet.                                               *)
InvestigationIsAlone ==
    \A c \in Callers :
        caller[c].step \in InvestigationSteps =>
            /\ incident[caller[c].on].state \in EarlyStates
            /\ ~incident[caller[c].on].approved
            /\ \A d \in Callers \ {c} : caller[d].step # "idle" => caller[d].on # caller[c].on

(* An incident whose plan is approved has an approved plan; one that does  *)
(* not exist has none.                                                     *)
ApprovalIsRecorded ==
    \A i \in Incidents :
        /\ incident[i].approved => incident[i].plan = "APPROVED"
        /\ incident[i].state = "ABSENT" => ~incident[i].approved

(* Traces of an execution, in the row or in a caller, follow an approval.  *)
ExecutionFollowsApproval ==
    /\ \A i \in Incidents :
          (incident[i].state \in Underway \cup {"RESOLVED"} \/ incident[i].outcome.execution \/ ran[i] > 0)
              => incident[i].approved
    /\ \A c \in Callers : caller[c].step \in ExecutionSteps => incident[caller[c].on].approved

(* Of an incident that fails its recheck nothing is certified, and no      *)
(* caller is past its verification or has read another outcome.            *)
UnsoundIsUncertified ==
    /\ \A i \in Incidents \ Sound :
          /\ incident[i].state # "RESOLVED"
          /\ incident[i].outcome.certification = "FAILED"
          /\ \A a \in Assets : asset[i][a] # "CERTIFIED"
    /\ \A c \in Callers :
          caller[c].on \in Incidents \ Sound =>
              /\ caller[c].step \notin RecertificationSteps
              /\ caller[c].outcome.certification = "FAILED"

(* The inductive invariant of approvals and certificates.                  *)
CoreInv ==
    /\ TypeOK
    /\ Busy
    /\ InvestigationIsAlone
    /\ ApprovalIsRecorded
    /\ ExecutionFollowsApproval
    /\ UnsoundIsUncertified

-----------------------------------------------------------------------------
(* The helpers.                                                            *)

(* The table of transitions stays inside the states.                       *)
LEMMA ForwardStates ==
    ASSUME NEW s \in States \ Terminal
    PROVE  Forward[s] \in States
  BY DEF Forward, States, Terminal, Underway

(* What follows a state: an investigation stays one until it awaits        *)
(* approval, an execution stays one until it is over.                      *)
LEMMA AfterSteps ==
    ASSUME NEW s \in States
    PROVE  /\ After(s) \in Steps
           /\ s \in EarlyStates => After(s) \in InvestigationSteps
           /\ s \in Underway => After(s) \in ExecutionSteps
           /\ s \in Terminal \cup {"AWAITING_APPROVAL"} => After(s) = "idle"
           /\ After(s) \in RecertificationSteps => s = "RECERTIFYING"
           /\ After(s) = "certify" => s = "RECERTIFYING"
  BY DEF After, Forward, States, Terminal, Underway, Steps, Writes, EarlyStates,
         InvestigationSteps, ExecutionSteps, RecertificationSteps

(* A caller at rest.                                                       *)
LEMMA IdleType ==
    /\ Idle \in CallerState
    /\ Idle.step = "idle"
    /\ Idle.read = "UNREAD"
    /\ Idle.outcome.certification = "FAILED"
  BY DEF Idle, CallerState, NoOutcome, Outcome, Steps

(* A caller's step replaces its own state and no other's.                  *)
LEMMA GoState ==
    ASSUME caller \in [Callers -> CallerState], NEW c \in Callers,
           NEW state \in CallerState, Go(c, state)
    PROVE  /\ caller' \in [Callers -> CallerState]
           /\ caller'[c] = state
           /\ \A d \in Callers : d # c => caller'[d] = caller[d]
  BY DEF Go

(* Beginning a request.                                                    *)
LEMMA ServeState ==
    ASSUME caller \in [Callers -> CallerState], NEW c \in Callers, NEW i \in Incidents,
           NEW step \in Steps, NEW onward \in BOOLEAN, Serve(c, i, step, onward)
    PROVE  /\ caller' \in [Callers -> CallerState]
           /\ caller'[c].step = step
           /\ caller'[c].on = i
           /\ caller'[c].read = "UNREAD"
           /\ caller'[c].outcome.certification = "FAILED"
           /\ \A d \in Callers : d # c => caller'[d] = caller[d]
  <1> DEFINE state == [Idle EXCEPT !.step = step, !.on = i, !.onward = onward]
  <1>1. /\ state \in CallerState
        /\ state.step = step
        /\ state.on = i
        /\ state.read = "UNREAD"
        /\ state.outcome.certification = "FAILED"
    BY IdleType DEF CallerState, Idle
  <1>2. Go(c, state)
    BY DEF Serve
  <1> HIDE DEF state
  <1> QED
    BY <1>1, <1>2, GoState

(* Going on with a request.                                                *)
LEMMA ProceedState ==
    ASSUME caller \in [Callers -> CallerState], NEW c \in Callers, NEW step \in Steps,
           Proceed(c, step)
    PROVE  /\ caller' \in [Callers -> CallerState]
           /\ caller'[c].step = step
           /\ caller'[c].on = caller[c].on
           /\ caller'[c].read = "UNREAD"
           /\ caller'[c].outcome.certification = "FAILED"
           /\ \A d \in Callers : d # c => caller'[d] = caller[d]
  <1> DEFINE state == [Idle EXCEPT !.step = step, !.on = caller[c].on, !.onward = caller[c].onward]
  <1>1. /\ state \in CallerState
        /\ state.step = step
        /\ state.on = caller[c].on
        /\ state.read = "UNREAD"
        /\ state.outcome.certification = "FAILED"
    BY IdleType DEF CallerState, Idle
  <1>2. Go(c, state)
    BY DEF Proceed
  <1> HIDE DEF state
  <1> QED
    BY <1>1, <1>2, GoState

(* Nothing has happened yet.                                               *)
LEMMA InitCore == Init => CoreInv
  <1> SUFFICES ASSUME Init PROVE CoreInv
    OBVIOUS
  <1>1. NoRow \in Row /\ NoRow.state = "ABSENT" /\ ~NoRow.approved /\ NoRow.plan = "NONE"
        /\ ~NoRow.outcome.execution /\ NoRow.outcome.certification = "FAILED"
    BY DEF NoRow, Row, NoOutcome, Outcome, States
  <1>2. TypeOK
    BY <1>1, IdleType, InterruptsAssumption DEF Init, TypeOK
  <1>3. Busy /\ InvestigationIsAlone
    BY IdleType DEF Init, Busy, InvestigationIsAlone, InvestigationSteps
  <1>4. ApprovalIsRecorded
    BY <1>1 DEF Init, ApprovalIsRecorded
  <1>5. ExecutionFollowsApproval
    BY <1>1, IdleType DEF Init, ExecutionFollowsApproval, ExecutionSteps, Underway
  <1>6. UnsoundIsUncertified
    BY <1>1, IdleType DEF Init, UnsoundIsUncertified, RecertificationSteps
  <1> QED
    BY <1>2, <1>3, <1>4, <1>5, <1>6 DEF CoreInv

-----------------------------------------------------------------------------
(* Every step preserves the invariant.                                     *)

(* A step that moves one caller on and writes no row: the caller comes to  *)
(* rest, or goes on with what the invariant lets it do.  Assets may change *)
(* but for those of an incident that fails its recheck, not certified.     *)
LEMMA CallerOnly ==
    ASSUME CoreInv, TypeOK', NEW c \in Callers, UNCHANGED <<incident, ran>>,
           \A k \in Incidents \ Sound, a \in Assets :
               asset'[k][a] = "CERTIFIED" => asset[k][a] = "CERTIFIED",
           \A d \in Callers : d # c => caller'[d] = caller[d],
           caller'[c].step # "idle" =>
               /\ caller'[c].on \in Incidents
               /\ incident[caller'[c].on].state # "ABSENT"
               /\ \/ caller[c].step # "idle" /\ caller'[c].on = caller[c].on
                  \/ incident[caller'[c].on].state = "AWAITING_APPROVAL"
               /\ caller'[c].step \in InvestigationSteps =>
                     caller[c].step \in InvestigationSteps /\ caller'[c].on = caller[c].on
               /\ caller'[c].step \in ExecutionSteps => incident[caller'[c].on].approved,
           caller'[c].on \in Incidents \ Sound =>
               /\ caller'[c].step \notin RecertificationSteps
               /\ caller'[c].outcome.certification = "FAILED"
    PROVE  CoreInv'
  <1>1. Busy'
    BY DEF CoreInv, Busy
  <1>2. InvestigationIsAlone'
    <2> SUFFICES ASSUME NEW d \in Callers, caller'[d].step \in InvestigationSteps
                 PROVE  /\ incident[caller'[d].on].state \in EarlyStates
                        /\ ~incident[caller'[d].on].approved
                        /\ \A e \in Callers \ {d} :
                              caller'[e].step # "idle" => caller'[e].on # caller'[d].on
      BY DEF InvestigationIsAlone
    <2>1. caller'[d].step # "idle" /\ "idle" \notin InvestigationSteps /\ "AWAITING_APPROVAL" \notin EarlyStates
      BY DEF InvestigationSteps, EarlyStates
    <2>2. caller[d].step \in InvestigationSteps /\ caller'[d].on = caller[d].on
      BY <2>1
    <2>3. /\ incident[caller[d].on].state \in EarlyStates
          /\ ~incident[caller[d].on].approved
          /\ \A e \in Callers \ {d} : caller[e].step # "idle" => caller[e].on # caller[d].on
      BY <2>2 DEF CoreInv, InvestigationIsAlone
    <2>4. ASSUME NEW e \in Callers \ {d}, caller'[e].step # "idle"
          PROVE  caller'[e].on # caller'[d].on
      BY <2>1, <2>2, <2>3, <2>4
    <2> QED
      BY <2>2, <2>3, <2>4
  <1>3. ApprovalIsRecorded'
    BY DEF CoreInv, ApprovalIsRecorded
  <1>4. ExecutionFollowsApproval'
    <2>1. "idle" \notin ExecutionSteps
      BY DEF ExecutionSteps
    <2> QED
      BY <2>1 DEF CoreInv, ExecutionFollowsApproval
  <1>5. UnsoundIsUncertified'
    BY DEF CoreInv, UnsoundIsUncertified
  <1> QED
    BY <1>1, <1>2, <1>3, <1>4, <1>5 DEF CoreInv

(* transition()'s read remembers the state.                                *)
LEMMA TransitionReadStep ==
    ASSUME CoreInv, NEW c \in Callers, TransitionRead(c)
    PROVE  CoreInv'
  <1>1. /\ caller[c] \in CallerState
        /\ caller[c].step # "idle"
        /\ caller[c].on \in Incidents
        /\ incident[caller[c].on].state \in States
    BY DEF CoreInv, TypeOK, Busy, TransitionRead, Row, States, Terminal, Underway
  <1> DEFINE state == [caller[c] EXCEPT !.read = incident[caller[c].on].state]
  <1>2. /\ state \in CallerState
        /\ state.step = caller[c].step
        /\ state.on = caller[c].on
        /\ state.outcome = caller[c].outcome
    BY <1>1 DEF CallerState
  <1>3. Go(c, state) /\ UNCHANGED <<incident, asset, ran, torn, interrupts>>
    BY DEF TransitionRead
  <1>4. caller \in [Callers -> CallerState]
    BY DEF CoreInv, TypeOK
  <1> HIDE DEF state
  <1>5. /\ caller' \in [Callers -> CallerState]
        /\ caller'[c] = state
        /\ \A d \in Callers : d # c => caller'[d] = caller[d]
    BY <1>2, <1>3, <1>4, GoState
  <1>6. TypeOK'
    BY <1>3, <1>5 DEF CoreInv, TypeOK
  <1>7. /\ incident[caller[c].on].state # "ABSENT"
        /\ caller[c].step \in ExecutionSteps => incident[caller[c].on].approved
        /\ caller[c].on \in Incidents \ Sound =>
              /\ caller[c].step \notin RecertificationSteps
              /\ caller[c].outcome.certification = "FAILED"
    BY <1>1 DEF CoreInv, Busy, ExecutionFollowsApproval, UnsoundIsUncertified
  <1> QED
    BY <1>1, <1>2, <1>3, <1>5, <1>6, <1>7, CallerOnly

(* A caller that comes to rest, its request refused, begun and over, or    *)
(* interrupted, disturbs nothing.                                          *)
LEMMA RestStep ==
    ASSUME CoreInv, NEW c \in Callers, Go(c, Idle), UNCHANGED <<incident, asset, ran, torn>>,
           interrupts' \in 0..MaxInterrupts
    PROVE  CoreInv'
  <1>1. caller \in [Callers -> CallerState]
    BY DEF CoreInv, TypeOK
  <1>2. /\ caller' \in [Callers -> CallerState]
        /\ caller'[c] = Idle
        /\ \A d \in Callers : d # c => caller'[d] = caller[d]
    BY <1>1, IdleType, GoState
  <1>3. TypeOK'
    BY <1>2 DEF CoreInv, TypeOK
  <1>4. "idle" \notin RecertificationSteps
    BY DEF RecertificationSteps
  <1> QED
    BY <1>2, <1>3, <1>4, IdleType, CallerOnly

(* A request on an incident that awaits approval begins: to execute it    *)
(* only if it is approved.                                                 *)
LEMMA BeginStep ==
    ASSUME CoreInv, NEW c \in Callers, NEW i \in Incidents, NEW onward \in BOOLEAN,
           incident[i].state = "AWAITING_APPROVAL",
           NEW step \in {"approve", "BLOCKED", "REMEDIATING"},
           step = "REMEDIATING" => incident[i].approved,
           Serve(c, i, step, onward), UNCHANGED <<incident, asset, ran, torn, interrupts>>
    PROVE  CoreInv'
  <1>1. step \in Steps /\ step \notin InvestigationSteps /\ step \notin RecertificationSteps
        /\ (step \in ExecutionSteps => step = "REMEDIATING")
    BY DEF Steps, Writes, States, Terminal, Underway, InvestigationSteps, RecertificationSteps, ExecutionSteps
  <1>2. caller \in [Callers -> CallerState]
    BY DEF CoreInv, TypeOK
  <1>3. /\ caller' \in [Callers -> CallerState]
        /\ caller'[c].step = step
        /\ caller'[c].on = i
        /\ caller'[c].outcome.certification = "FAILED"
        /\ \A d \in Callers : d # c => caller'[d] = caller[d]
    BY <1>1, <1>2, ServeState
  <1>4. TypeOK'
    BY <1>3 DEF CoreInv, TypeOK
  <1> QED
    BY <1>1, <1>3, <1>4, CallerOnly

(* The first checks of approve, reject and execute.                        *)
LEMMA BeginSteps ==
    ASSUME CoreInv, NEW c \in Callers,
           BeginApproval(c) \/ BeginRejection(c) \/ BeginExecution(c)
    PROVE  CoreInv'
  <1>1. CASE BeginApproval(c)
    <2>1. PICK i \in Incidents, onward \in BOOLEAN : Approvable(i) /\ Serve(c, i, "approve", onward)
      BY <1>1 DEF BeginApproval
    <2> QED
      BY <1>1, <2>1, BeginStep DEF BeginApproval, Approvable
  <1>2. CASE BeginRejection(c)
    <2>1. PICK i \in Incidents : incident[i].state = "AWAITING_APPROVAL" /\ Serve(c, i, "BLOCKED", FALSE)
      BY <1>2 DEF BeginRejection
    <2> QED
      BY <1>2, <2>1, BeginStep DEF BeginRejection
  <1>3. CASE BeginExecution(c)
    <2>1. PICK i \in Incidents : Executable(i) /\ Serve(c, i, "REMEDIATING", FALSE)
      BY <1>3 DEF BeginExecution
    <2> QED
      BY <1>3, <2>1, BeginStep DEF BeginExecution, Executable
  <1> QED
    BY <1>1, <1>2, <1>3

(* execute's own check after an approval.                                  *)
LEMMA GoOnToExecuteStep ==
    ASSUME CoreInv, NEW c \in Callers, GoOnToExecute(c)
    PROVE  CoreInv'
  <1>1. UNCHANGED <<incident, asset, ran, torn, interrupts>>
    BY DEF GoOnToExecute
  <1>2. caller \in [Callers -> CallerState]
    BY DEF CoreInv, TypeOK
  <1>3. CASE Executable(caller[c].on)
    <2>1. /\ Proceed(c, "REMEDIATING")
          /\ caller[c].step = "execute"
      BY <1>3 DEF GoOnToExecute
    <2>2. /\ "REMEDIATING" \in Steps
          /\ "REMEDIATING" \notin InvestigationSteps
          /\ "REMEDIATING" \notin RecertificationSteps
      BY DEF Steps, States, Underway, InvestigationSteps, RecertificationSteps
    <2>3. /\ caller' \in [Callers -> CallerState]
          /\ caller'[c].step = "REMEDIATING"
          /\ caller'[c].on = caller[c].on
          /\ caller'[c].outcome.certification = "FAILED"
          /\ \A d \in Callers : d # c => caller'[d] = caller[d]
      BY <1>2, <2>1, <2>2, ProceedState
    <2>4. TypeOK'
      BY <1>1, <2>3 DEF CoreInv, TypeOK
    <2>5. /\ caller[c].on \in Incidents
          /\ incident[caller[c].on].state # "ABSENT"
          /\ incident[caller[c].on].approved
      BY <1>3, <2>1 DEF CoreInv, Busy, Executable
    <2> QED
      BY <1>1, <2>1, <2>2, <2>3, <2>4, <2>5, CallerOnly
  <1>4. CASE ~Executable(caller[c].on)
    <2>1. Go(c, Idle) /\ interrupts' \in 0..MaxInterrupts
      BY <1>1, <1>4 DEF GoOnToExecute, CoreInv, TypeOK
    <2> QED
      BY <1>1, <2>1, RestStep
  <1> QED
    BY <1>3, <1>4

(* update_outcome's read remembers the outcome columns.                    *)
LEMMA OutcomeReadStep ==
    ASSUME CoreInv, NEW c \in Callers, OutcomeRead(c)
    PROVE  CoreInv'
  <1>1. /\ caller[c] \in CallerState
        /\ caller[c].step # "idle"
        /\ caller[c].on \in Incidents
        /\ incident[caller[c].on].outcome \in Outcome
        /\ incident[caller[c].on].state # "ABSENT"
    BY DEF CoreInv, TypeOK, Busy, OutcomeRead, Row
  <1> DEFINE state == [caller[c] EXCEPT !.read = "READ", !.outcome = incident[caller[c].on].outcome]
  <1>2. /\ state \in CallerState
        /\ state.step = caller[c].step
        /\ state.on = caller[c].on
        /\ state.outcome = incident[caller[c].on].outcome
    BY <1>1 DEF CallerState
  <1>3. Go(c, state) /\ UNCHANGED <<incident, asset, ran, torn, interrupts>>
    BY DEF OutcomeRead
  <1>4. caller \in [Callers -> CallerState]
    BY DEF CoreInv, TypeOK
  <1> HIDE DEF state
  <1>5. /\ caller' \in [Callers -> CallerState]
        /\ caller'[c] = state
        /\ \A d \in Callers : d # c => caller'[d] = caller[d]
    BY <1>2, <1>3, <1>4, GoState
  <1>6. TypeOK'
    BY <1>3, <1>5 DEF CoreInv, TypeOK
  <1>7. /\ caller[c].step \in ExecutionSteps => incident[caller[c].on].approved
        /\ caller[c].on \in Incidents \ Sound =>
              /\ caller[c].step \notin RecertificationSteps
              /\ incident[caller[c].on].outcome.certification = "FAILED"
    BY DEF CoreInv, ExecutionFollowsApproval, UnsoundIsUncertified
  <1> QED
    BY <1>1, <1>2, <1>3, <1>5, <1>6, <1>7, CallerOnly

(* A step that goes on with the request and writes the row of its own      *)
(* incident, which stays in existence and loses no approval.  A row that   *)
(* an investigation writes stays early and unapproved, or the              *)
(* investigation is over.                                                  *)
OwnRowStep(c, i) ==
    /\ caller[c].step # "idle"
    /\ caller[c].on = i
    /\ \A d \in Callers : d # c => caller'[d] = caller[d]
    /\ \A k \in Incidents : k # i => incident'[k] = incident[k] /\ ran'[k] = ran[k]
    /\ asset' = asset
    /\ incident'[i].state # "ABSENT"
    /\ incident[i].approved => incident'[i].approved
    /\ incident'[i].approved => incident'[i].plan = "APPROVED"
    /\ (incident'[i].state \in Underway \cup {"RESOLVED"} \/ incident'[i].outcome.execution \/ ran'[i] > 0)
           => incident'[i].approved
    /\ i \notin Sound =>
           incident'[i].state # "RESOLVED" /\ incident'[i].outcome.certification = "FAILED"
    /\ caller'[c].step # "idle" => caller'[c].on = i
    /\ caller'[c].step \in InvestigationSteps =>
           /\ caller[c].step \in InvestigationSteps
           /\ incident'[i].state \in EarlyStates
           /\ ~incident'[i].approved
    /\ caller'[c].step \in ExecutionSteps => incident'[i].approved
    /\ caller'[c].on \in Incidents \ Sound =>
           /\ caller'[c].step \notin RecertificationSteps
           /\ caller'[c].outcome.certification = "FAILED"

(* Such a step preserves the invariant.                                    *)
LEMMA OwnRow ==
    ASSUME CoreInv, TypeOK', NEW c \in Callers, NEW i \in Incidents, OwnRowStep(c, i)
    PROVE  CoreInv'
  <1> USE DEF OwnRowStep
  <1>1. Busy'
    BY DEF CoreInv, Busy
  <1>2. InvestigationIsAlone'
    <2> SUFFICES ASSUME NEW d \in Callers, caller'[d].step \in InvestigationSteps
                 PROVE  /\ incident'[caller'[d].on].state \in EarlyStates
                        /\ ~incident'[caller'[d].on].approved
                        /\ \A e \in Callers \ {d} :
                              caller'[e].step # "idle" => caller'[e].on # caller'[d].on
      BY DEF InvestigationIsAlone
    <2>1. caller'[d].step # "idle" /\ "idle" \notin InvestigationSteps
      BY DEF InvestigationSteps
    <2>2. caller[d].step \in InvestigationSteps /\ caller'[d].on = caller[d].on
      BY <2>1
    <2>3. /\ incident[caller[d].on].state \in EarlyStates
          /\ ~incident[caller[d].on].approved
          /\ \A e \in Callers \ {d} : caller[e].step # "idle" => caller[e].on # caller[d].on
          /\ caller[d].on \in Incidents
      BY <2>1, <2>2 DEF CoreInv, InvestigationIsAlone, Busy
    <2>4. ASSUME NEW e \in Callers \ {d}, caller'[e].step # "idle"
          PROVE  caller'[e].on # caller'[d].on
      BY <2>1, <2>2, <2>3, <2>4
    <2>5. d # c => caller[d].on # i
      BY <2>3
    <2> QED
      BY <2>1, <2>2, <2>3, <2>4, <2>5
  <1>3. ApprovalIsRecorded'
    BY DEF CoreInv, ApprovalIsRecorded
  <1>4. ExecutionFollowsApproval'
    <2>1. \A k \in Incidents :
             (incident'[k].state \in Underway \cup {"RESOLVED"} \/ incident'[k].outcome.execution \/ ran'[k] > 0)
                 => incident'[k].approved
      BY DEF CoreInv, ExecutionFollowsApproval
    <2>2. ASSUME NEW d \in Callers, caller'[d].step \in ExecutionSteps
          PROVE  incident'[caller'[d].on].approved
      <3>1. caller'[d].step # "idle"
        BY <2>2 DEF ExecutionSteps
      <3>2. CASE d = c
        BY <2>2, <3>1, <3>2
      <3>3. CASE d # c
        <4>1. caller[d].on \in Incidents /\ incident[caller[d].on].approved
          BY <2>2, <3>1, <3>3 DEF CoreInv, ExecutionFollowsApproval, Busy
        <4> QED
          BY <3>3, <4>1
      <3> QED
        BY <3>2, <3>3
    <2> QED
      BY <2>1, <2>2 DEF ExecutionFollowsApproval
  <1>5. UnsoundIsUncertified'
    BY DEF CoreInv, UnsoundIsUncertified
  <1> QED
    BY <1>1, <1>2, <1>3, <1>4, <1>5 DEF CoreInv

(* What a caller does next once it has written a state.                    *)
LEMMA AfterWrite ==
    ASSUME caller \in [Callers -> CallerState], NEW c \in Callers, caller[c].on \in Incidents,
           TransitionWrite(c)
    PROVE  /\ caller' \in [Callers -> CallerState]
           /\ caller'[c].step = After(caller[c].step)
           /\ caller'[c].step # "idle" => caller'[c].on = caller[c].on
           /\ caller'[c].step = "certify" => caller'[c].left = Assets
           /\ caller'[c].read = "UNREAD"
           /\ caller'[c].outcome.certification = "FAILED"
           /\ \A d \in Callers : d # c => caller'[d] = caller[d]
  <1> DEFINE i == caller[c].on
             target == caller[c].step
  <1>1. target \in States
    BY DEF TransitionWrite
  <1>2. CASE After(target) = "idle"
    <2>1. Go(c, Idle)
      BY <1>2 DEF TransitionWrite
    <2> QED
      BY <1>2, <2>1, IdleType, GoState
  <1>3. CASE After(target) = "certify"
    <2> DEFINE state == [Idle EXCEPT !.step = "certify", !.on = i, !.left = Assets]
    <2>1. Go(c, state)
      BY <1>3 DEF TransitionWrite
    <2>2. /\ state \in CallerState
          /\ state.step = "certify"
          /\ state.on = i
          /\ state.left = Assets
          /\ state.read = "UNREAD"
          /\ state.outcome.certification = "FAILED"
      BY IdleType DEF Idle, CallerState, Steps, Writes
    <2> HIDE DEF state
    <2> QED
      BY <1>3, <2>1, <2>2, GoState
  <1>4. CASE After(target) # "idle" /\ After(target) # "certify"
    <2>1. Proceed(c, After(target))
      BY <1>4 DEF TransitionWrite
    <2>2. After(target) \in Steps
      BY <1>1, AfterSteps
    <2> QED
      BY <1>4, <2>1, <2>2, ProceedState
  <1> QED
    BY <1>2, <1>3, <1>4

(* transition()'s write, whatever the row says by then.                    *)
LEMMA TransitionWriteStep ==
    ASSUME CoreInv, NEW c \in Callers, TransitionWrite(c)
    PROVE  CoreInv'
  <1> DEFINE i == caller[c].on
             target == caller[c].step
  <1>1. /\ target \in States
        /\ target # "idle"
        /\ target # "ABSENT"
        /\ i \in Incidents
        /\ incident[i] \in Row
        /\ incident[i].state # "ABSENT"
        /\ caller \in [Callers -> CallerState]
    BY DEF CoreInv, TypeOK, Busy, TransitionWrite, States, Terminal, Underway
  <1>2. /\ incident' = [incident EXCEPT ![i].state = target]
        /\ torn' = [torn EXCEPT ![i] = @ \/ caller[c].read # incident[i].state]
        /\ ran' = [ran EXCEPT ![i] = @ + (IF target = "REMEDIATING" THEN 1 ELSE 0)]
        /\ asset' = asset
        /\ interrupts' = interrupts
    BY DEF TransitionWrite
  <1>3. /\ caller' \in [Callers -> CallerState]
        /\ caller'[c].step = After(target)
        /\ caller'[c].step # "idle" => caller'[c].on = i
        /\ caller'[c].outcome.certification = "FAILED"
        /\ \A d \in Callers : d # c => caller'[d] = caller[d]
    BY <1>1, AfterWrite
  <1>4. /\ \A k \in Incidents : k # i => incident'[k] = incident[k] /\ ran'[k] = ran[k]
        /\ incident'[i] = [incident[i] EXCEPT !.state = target]
        /\ ran'[i] = ran[i] + (IF target = "REMEDIATING" THEN 1 ELSE 0)
        /\ ran' \in [Incidents -> Nat]
        /\ torn' \in [Incidents -> BOOLEAN]
    BY <1>1, <1>2 DEF CoreInv, TypeOK
  <1>5. /\ incident'[i].state = target
        /\ incident'[i].plan = incident[i].plan
        /\ incident'[i].approved = incident[i].approved
        /\ incident'[i].outcome = incident[i].outcome
        /\ incident'[i] \in Row
    BY <1>1, <1>4 DEF Row
  <1>6. incident' \in [Incidents -> Row]
    BY <1>1, <1>2, <1>4, <1>5 DEF CoreInv, TypeOK
  <1>7. TypeOK'
    BY <1>2, <1>3, <1>4, <1>6 DEF CoreInv, TypeOK
  <1>8. target \in ExecutionSteps => incident[i].approved
    BY DEF CoreInv, ExecutionFollowsApproval
  <1>9. target \in Underway \cup {"RESOLVED"} => target \in ExecutionSteps
    BY DEF Underway, ExecutionSteps
  <1>10. (incident'[i].state \in Underway \cup {"RESOLVED"} \/ incident'[i].outcome.execution \/ ran'[i] > 0)
            => incident'[i].approved
    <2>1. ran'[i] > 0 => ran[i] > 0 \/ target = "REMEDIATING"
      BY <1>1, <1>4 DEF CoreInv, TypeOK
    <2>2. target = "REMEDIATING" => target \in ExecutionSteps
      BY DEF ExecutionSteps
    <2> QED
      BY <1>1, <1>5, <1>8, <1>9, <2>1, <2>2 DEF CoreInv, ExecutionFollowsApproval
  <1>11. i \notin Sound =>
            incident'[i].state # "RESOLVED" /\ incident'[i].outcome.certification = "FAILED"
    BY <1>1, <1>5 DEF CoreInv, UnsoundIsUncertified, RecertificationSteps
  <1>12. After(target) \in InvestigationSteps => target \in EarlyStates
    BY <1>1, AfterSteps DEF States, Terminal, Underway, EarlyStates, InvestigationSteps, ExecutionSteps
  <1>13. target \in EarlyStates => target \in InvestigationSteps
    BY DEF EarlyStates, InvestigationSteps
  <1>14. caller'[c].step \in InvestigationSteps =>
            /\ caller[c].step \in InvestigationSteps
            /\ incident'[i].state \in EarlyStates
            /\ ~incident'[i].approved
    BY <1>3, <1>5, <1>12, <1>13 DEF CoreInv, InvestigationIsAlone
  <1>15. After(target) \in ExecutionSteps => target \in ExecutionSteps
    BY <1>1, AfterSteps DEF States, Terminal, Underway, EarlyStates, InvestigationSteps, ExecutionSteps
  <1>16. caller'[c].on \in Incidents \ Sound =>
            /\ caller'[c].step \notin RecertificationSteps
            /\ caller'[c].outcome.certification = "FAILED"
    <2>1. "idle" \notin RecertificationSteps /\ "RECERTIFYING" \in RecertificationSteps
      BY DEF RecertificationSteps
    <2>2. After(target) \in RecertificationSteps => target = "RECERTIFYING"
      BY <1>1, AfterSteps
    <2>3. target = "RECERTIFYING" => i \in Sound
      BY <1>1, <2>1 DEF CoreInv, UnsoundIsUncertified
    <2> QED
      BY <1>3, <2>1, <2>2, <2>3
  <1>17. incident[i].approved => incident[i].plan = "APPROVED"
    BY <1>1 DEF CoreInv, ApprovalIsRecorded
  <1>18. incident'[i].approved => incident'[i].plan = "APPROVED"
    BY <1>5, <1>17
  <1>19. caller[c].step # "idle" /\ caller[c].on = i
    BY <1>1
  <1> HIDE DEF i, target
  <1>20. OwnRowStep(c, i)
    BY <1>1, <1>2, <1>3, <1>4, <1>5, <1>8, <1>10, <1>11, <1>14, <1>15, <1>16, <1>18, <1>19 DEF OwnRowStep
  <1> QED
    BY <1>1, <1>7, <1>20, OwnRow

(* save_remediation, by the only caller on the incident.                   *)
LEMMA ProposeStep ==
    ASSUME CoreInv, NEW c \in Callers, Propose(c)
    PROVE  CoreInv'
  <1> DEFINE i == caller[c].on
  <1>1. /\ caller[c].step \in InvestigationSteps
        /\ caller[c].step # "idle"
        /\ "AWAITING_APPROVAL" \in Steps
        /\ "AWAITING_APPROVAL" \in InvestigationSteps
        /\ "AWAITING_APPROVAL" \notin ExecutionSteps
        /\ "AWAITING_APPROVAL" \notin RecertificationSteps
    BY DEF Propose, InvestigationSteps, ExecutionSteps, RecertificationSteps, Steps, States
  <1>2. /\ caller \in [Callers -> CallerState]
        /\ i \in Incidents
        /\ incident[i] \in Row
        /\ incident[i].state \in EarlyStates
        /\ ~incident[i].approved
    BY <1>1 DEF CoreInv, TypeOK, Busy, InvestigationIsAlone
  <1>3. incident' = [incident EXCEPT ![i].plan = "PROPOSED"] /\ UNCHANGED <<asset, ran, torn, interrupts>>
    BY DEF Propose
  <1>4. /\ caller' \in [Callers -> CallerState]
        /\ caller'[c].step = "AWAITING_APPROVAL"
        /\ caller'[c].on = i
        /\ caller'[c].outcome.certification = "FAILED"
        /\ \A d \in Callers : d # c => caller'[d] = caller[d]
    BY <1>1, <1>2, ProceedState DEF Propose
  <1>5. /\ \A k \in Incidents : k # i => incident'[k] = incident[k]
        /\ incident'[i] = [incident[i] EXCEPT !.plan = "PROPOSED"]
    BY <1>2, <1>3 DEF CoreInv, TypeOK
  <1>6. /\ incident'[i].state = incident[i].state
        /\ incident'[i].approved = incident[i].approved
        /\ incident'[i].outcome = incident[i].outcome
        /\ incident'[i] \in Row
    BY <1>2, <1>5 DEF Row
  <1>7. TypeOK'
    BY <1>2, <1>3, <1>4, <1>5, <1>6 DEF CoreInv, TypeOK
  <1>8. /\ "ABSENT" \notin EarlyStates
        /\ ~(incident[i].state \in Underway \cup {"RESOLVED"} \/ incident[i].outcome.execution \/ ran[i] > 0)
        /\ i \notin Sound => incident[i].state # "RESOLVED" /\ incident[i].outcome.certification = "FAILED"
    BY <1>2 DEF CoreInv, ExecutionFollowsApproval, UnsoundIsUncertified, EarlyStates
  <1>9. caller[c].on = i
    OBVIOUS
  <1> HIDE DEF i
  <1>10. OwnRowStep(c, i)
    BY <1>1, <1>2, <1>3, <1>4, <1>5, <1>6, <1>8, <1>9 DEF OwnRowStep
  <1> QED
    BY <1>2, <1>7, <1>10, OwnRow

(* The two UPDATEs of store.approve.                                       *)
LEMMA ApproveWriteStep ==
    ASSUME CoreInv, NEW c \in Callers, ApproveWrite(c)
    PROVE  CoreInv'
  <1> DEFINE i == caller[c].on
  <1>1. /\ caller[c].step # "idle"
        /\ caller[c].step = "approve"
        /\ "execute" \in Steps
        /\ "execute" \notin InvestigationSteps \cup ExecutionSteps \cup RecertificationSteps
        /\ "idle" \notin InvestigationSteps \cup ExecutionSteps \cup RecertificationSteps
    BY DEF ApproveWrite, InvestigationSteps, ExecutionSteps, RecertificationSteps, Steps
  <1>2. /\ caller \in [Callers -> CallerState]
        /\ i \in Incidents
        /\ incident[i] \in Row
        /\ incident[i].state # "ABSENT"
    BY <1>1 DEF CoreInv, TypeOK, Busy
  <1>3. /\ incident' = [incident EXCEPT ![i].plan = "APPROVED", ![i].approved = TRUE]
        /\ UNCHANGED <<asset, ran, torn, interrupts>>
    BY DEF ApproveWrite
  <1>4. /\ caller' \in [Callers -> CallerState]
        /\ caller'[c].step \in {"idle", "execute"}
        /\ caller'[c].step # "idle" => caller'[c].on = i
        /\ caller'[c].outcome.certification = "FAILED"
        /\ \A d \in Callers : d # c => caller'[d] = caller[d]
    <2>1. CASE caller[c].onward
      <3>1. Proceed(c, "execute")
        BY <2>1 DEF ApproveWrite
      <3> QED
        BY <1>1, <1>2, <3>1, ProceedState
    <2>2. CASE ~caller[c].onward
      <3>1. Go(c, Idle)
        BY <2>2 DEF ApproveWrite
      <3> QED
        BY <1>1, <1>2, <3>1, IdleType, GoState
    <2> QED
      BY <2>1, <2>2
  <1>5. /\ \A k \in Incidents : k # i => incident'[k] = incident[k]
        /\ incident'[i] = [incident[i] EXCEPT !.plan = "APPROVED", !.approved = TRUE]
    BY <1>2, <1>3 DEF CoreInv, TypeOK
  <1>6. /\ incident'[i].state = incident[i].state
        /\ incident'[i].plan = "APPROVED"
        /\ incident'[i].approved
        /\ incident'[i].outcome = incident[i].outcome
        /\ incident'[i] \in Row
    BY <1>2, <1>5 DEF Row
  <1>7. TypeOK'
    BY <1>2, <1>3, <1>4, <1>5, <1>6 DEF CoreInv, TypeOK
  <1>8. i \notin Sound => incident[i].state # "RESOLVED" /\ incident[i].outcome.certification = "FAILED"
    BY <1>2 DEF CoreInv, UnsoundIsUncertified
  <1>9. caller[c].on = i
    OBVIOUS
  <1> HIDE DEF i
  <1>10. OwnRowStep(c, i)
    BY <1>1, <1>2, <1>3, <1>4, <1>5, <1>6, <1>8, <1>9 DEF OwnRowStep
  <1> QED
    BY <1>2, <1>7, <1>10, OwnRow

(* update_outcome's write of the columns it read: of an incident that      *)
(* fails its recheck only the verification, and then the request fails.    *)
LEMMA OutcomeWriteStep ==
    ASSUME CoreInv, NEW c \in Callers, OutcomeWrite(c)
    PROVE  CoreInv'
  <1> DEFINE i == caller[c].on
             step == caller[c].step
             result == OutcomeStep(i, step, caller[c].outcome)
  <1>1. /\ step \in {"execution", "verification", "certification"}
        /\ step \in ExecutionSteps
        /\ caller[c].step # "idle"
        /\ caller[c].on = i
    BY DEF OutcomeWrite, ExecutionSteps
  <1>2. /\ caller \in [Callers -> CallerState]
        /\ caller[c].outcome \in Outcome
        /\ i \in Incidents
        /\ incident[i] \in Row
        /\ incident[i].state # "ABSENT"
        /\ incident[i].approved
        /\ incident[i].plan = "APPROVED"
    BY <1>1 DEF CoreInv, TypeOK, CallerState, Busy, ExecutionFollowsApproval, ApprovalIsRecorded
  <1>3. i \notin Sound =>
            /\ caller[c].outcome.certification = "FAILED"
            /\ step \in {"execution", "verification"}
            /\ incident[i].state # "RESOLVED"
    BY <1>1, <1>2 DEF CoreInv, UnsoundIsUncertified, RecertificationSteps
  <1>4. /\ incident' = [incident EXCEPT ![i].outcome = result.row]
        /\ Proceed(c, result.next)
        /\ UNCHANGED <<asset, ran, torn, interrupts>>
    BY DEF OutcomeWrite
  <1> HIDE DEF i, step
  <1>5. /\ result.row \in Outcome
        /\ result.next \in {"VERIFYING", "RECERTIFYING", "FAILED", "RESOLVED"}
        /\ i \notin Sound =>
              result.row.certification = "FAILED" /\ result.next \in {"VERIFYING", "FAILED"}
    <2>1. CASE step = "execution"
      <3>1. result = [next |-> "VERIFYING", row |-> [caller[c].outcome EXCEPT !.execution = TRUE]]
        BY <2>1 DEF OutcomeStep
      <3>2. /\ result.next = "VERIFYING"
            /\ result.row.certification = caller[c].outcome.certification
            /\ result.row = [caller[c].outcome EXCEPT !.execution = TRUE]
        BY <1>2, <3>1 DEF Outcome
      <3>3. result.row \in Outcome
        <4>1. TRUE \in BOOLEAN
          OBVIOUS
        <4> QED
          BY ONLY <1>2, <3>2, <4>1, Zenon DEF Outcome
      <3> QED
        BY <1>3, <3>2, <3>3
    <2>2. CASE step = "verification" /\ i \in Sound
      <3>1. result = [next |-> "RECERTIFYING", row |-> [caller[c].outcome EXCEPT !.verification = "PASS"]]
        BY <2>2 DEF OutcomeStep
      <3> QED
        BY <1>2, <2>2, <3>1 DEF Outcome
    <2>3. CASE step = "verification" /\ i \notin Sound
      <3>1. result = [next |-> "FAILED", row |-> [caller[c].outcome EXCEPT !.verification = "FAIL"]]
        BY <2>3 DEF OutcomeStep
      <3> QED
        BY <1>2, <1>3, <2>3, <3>1 DEF Outcome
    <2>4. CASE step = "certification"
      <3>1. result = [next |-> "RESOLVED", row |-> [caller[c].outcome EXCEPT !.certification = "CERTIFIED"]]
        BY <2>4 DEF OutcomeStep
      <3>2. i \in Sound
        BY <1>3, <2>4
      <3> QED
        BY <1>2, <3>1, <3>2 DEF Outcome
    <2> QED
      BY <1>1, <2>1, <2>2, <2>3, <2>4
  <1> HIDE DEF result
  <1>6. /\ result.next \in Steps
        /\ result.next \notin InvestigationSteps
        /\ i \notin Sound => result.next \notin RecertificationSteps
    BY <1>5 DEF Steps, States, Terminal, Underway, InvestigationSteps, RecertificationSteps
  <1>7. /\ caller' \in [Callers -> CallerState]
        /\ caller'[c].step = result.next
        /\ caller'[c].on = i
        /\ caller'[c].outcome.certification = "FAILED"
        /\ \A d \in Callers : d # c => caller'[d] = caller[d]
    BY <1>1, <1>2, <1>4, <1>6, ProceedState
  <1>8. /\ \A k \in Incidents : k # i => incident'[k] = incident[k]
        /\ incident'[i] = [incident[i] EXCEPT !.outcome = result.row]
    BY <1>2, <1>4 DEF CoreInv, TypeOK
  <1>9. /\ incident'[i].state = incident[i].state
        /\ incident'[i].plan = incident[i].plan
        /\ incident'[i].approved = incident[i].approved
        /\ incident'[i].outcome = result.row
        /\ incident'[i] \in Row
    BY <1>2, <1>5, <1>8 DEF Row
  <1>10. TypeOK'
    BY <1>2, <1>4, <1>7, <1>8, <1>9 DEF CoreInv, TypeOK
  <1>11. i \notin Sound =>
             incident'[i].state # "RESOLVED" /\ incident'[i].outcome.certification = "FAILED"
    BY <1>3, <1>5, <1>9
  <1>12. /\ asset' = asset
         /\ \A k \in Incidents : k # i => incident'[k] = incident[k] /\ ran'[k] = ran[k]
    BY <1>4, <1>8
  <1>13. /\ incident'[i].state # "ABSENT"
         /\ incident'[i].approved
         /\ incident'[i].plan = "APPROVED"
    BY <1>2, <1>9
  <1>14. OwnRowStep(c, i)
    BY ONLY <1>1, <1>6, <1>7, <1>11, <1>12, <1>13 DEF OwnRowStep
  <1> QED
    BY <1>2, <1>10, <1>14, OwnRow

(* investigate() creates an incident nobody else knows of.                 *)
LEMMA OpenStep ==
    ASSUME CoreInv, NEW c \in Callers, Open(c)
    PROVE  CoreInv'
  <1>1. PICK i \in Incidents :
            /\ incident[i].state = "ABSENT"
            /\ incident' = [incident EXCEPT ![i].state = "DETECTED"]
            /\ Serve(c, i, "triage", FALSE)
    BY DEF Open
  <1>2. UNCHANGED <<asset, ran, torn, interrupts>>
    BY DEF Open
  <1>3. /\ "triage" \in Steps
        /\ "triage" # "idle"
        /\ "triage" \notin ExecutionSteps
        /\ "triage" \notin RecertificationSteps
        /\ "DETECTED" \in EarlyStates
        /\ "DETECTED" \notin Underway \cup {"RESOLVED"}
    BY DEF Steps, Writes, ExecutionSteps, RecertificationSteps, EarlyStates, Underway
  <1>4. /\ caller \in [Callers -> CallerState]
        /\ incident \in [Incidents -> Row]
        /\ incident[i] \in Row
    BY DEF CoreInv, TypeOK
  <1>5. /\ caller' \in [Callers -> CallerState]
        /\ caller'[c].step = "triage"
        /\ caller'[c].on = i
        /\ caller'[c].outcome.certification = "FAILED"
        /\ \A d \in Callers : d # c => caller'[d] = caller[d]
    BY <1>1, <1>3, <1>4, ServeState
  <1>6. /\ \A k \in Incidents : k # i => incident'[k] = incident[k]
        /\ incident'[i] = [incident[i] EXCEPT !.state = "DETECTED"]
    BY <1>1, <1>4
  <1>7. /\ incident'[i].state = "DETECTED"
        /\ incident'[i].plan = incident[i].plan
        /\ incident'[i].approved = incident[i].approved
        /\ incident'[i].outcome = incident[i].outcome
        /\ incident'[i] \in Row
    BY <1>4, <1>6 DEF Row, States
  <1>8. TypeOK'
    BY <1>1, <1>2, <1>4, <1>5, <1>6, <1>7 DEF CoreInv, TypeOK
  <1>9. ~incident[i].approved
    BY <1>1 DEF CoreInv, ApprovalIsRecorded
  <1>10. \A d \in Callers : d # c /\ caller[d].step # "idle" => caller[d].on # i
    BY <1>1 DEF CoreInv, Busy
  <1>11. Busy'
    <2> SUFFICES ASSUME NEW d \in Callers, caller'[d].step # "idle"
                 PROVE  caller'[d].on \in Incidents /\ incident'[caller'[d].on].state # "ABSENT"
      BY DEF Busy
    <2>1. CASE d = c
      BY <1>5, <1>7, <2>1
    <2>2. CASE d # c
      <3>1. caller'[d] = caller[d] /\ caller[d].step # "idle"
        BY <1>5, <2>2
      <3>2. caller[d].on \in Incidents /\ caller[d].on # i /\ incident[caller[d].on].state # "ABSENT"
        BY <1>10, <2>2, <3>1 DEF CoreInv, Busy
      <3> QED
        BY <1>6, <3>1, <3>2
    <2> QED
      BY <2>1, <2>2
  <1>12. InvestigationIsAlone'
    <2> SUFFICES ASSUME NEW d \in Callers, caller'[d].step \in InvestigationSteps
                 PROVE  /\ incident'[caller'[d].on].state \in EarlyStates
                        /\ ~incident'[caller'[d].on].approved
                        /\ \A e \in Callers \ {d} :
                              caller'[e].step # "idle" => caller'[e].on # caller'[d].on
      BY DEF InvestigationIsAlone
    <2>1. CASE d = c
      BY <1>3, <1>5, <1>7, <1>9, <1>10, <2>1
    <2>2. CASE d # c
      <3>1. caller'[d] = caller[d] /\ caller[d].step # "idle"
        BY <1>5, <2>2 DEF InvestigationSteps
      <3>2. /\ caller[d].on \in Incidents /\ caller[d].on # i
            /\ incident[caller[d].on].state \in EarlyStates
            /\ ~incident[caller[d].on].approved
            /\ \A e \in Callers \ {d} : caller[e].step # "idle" => caller[e].on # caller[d].on
        BY <1>10, <2>2, <3>1 DEF CoreInv, InvestigationIsAlone, Busy
      <3> QED
        BY <1>5, <1>6, <3>1, <3>2
    <2> QED
      BY <2>1, <2>2
  <1>13. ApprovalIsRecorded'
    BY <1>6, <1>7, <1>9 DEF CoreInv, ApprovalIsRecorded
  <1>14. ExecutionFollowsApproval'
    <2>1. \A k \in Incidents :
             (incident'[k].state \in Underway \cup {"RESOLVED"} \/ incident'[k].outcome.execution \/ ran'[k] > 0)
                 => incident'[k].approved
      BY <1>2, <1>3, <1>6, <1>7 DEF CoreInv, ExecutionFollowsApproval
    <2>2. ASSUME NEW d \in Callers, caller'[d].step \in ExecutionSteps
          PROVE  incident'[caller'[d].on].approved
      <3>1. d # c
        BY <1>3, <1>5, <2>2
      <3>2. caller'[d] = caller[d] /\ caller[d].step # "idle"
        BY <1>5, <2>2, <3>1 DEF ExecutionSteps
      <3>3. caller[d].on \in Incidents /\ caller[d].on # i /\ incident[caller[d].on].approved
        BY <1>10, <2>2, <3>1, <3>2 DEF CoreInv, ExecutionFollowsApproval, Busy
      <3> QED
        BY <1>6, <3>2, <3>3
    <2> QED
      BY <2>1, <2>2 DEF ExecutionFollowsApproval
  <1>15. UnsoundIsUncertified'
    <2>1. ASSUME NEW k \in Incidents \ Sound
          PROVE  /\ incident'[k].state # "RESOLVED"
                 /\ incident'[k].outcome.certification = "FAILED"
                 /\ \A a \in Assets : asset'[k][a] # "CERTIFIED"
      <3>1. /\ incident[k].state # "RESOLVED"
            /\ incident[k].outcome.certification = "FAILED"
            /\ \A a \in Assets : asset[k][a] # "CERTIFIED"
        BY DEF CoreInv, UnsoundIsUncertified
      <3>2. CASE k = i
        BY <1>2, <1>7, <3>1, <3>2
      <3>3. CASE k # i
        BY <1>2, <1>6, <3>1, <3>3
      <3> QED
        BY <3>2, <3>3
    <2>2. ASSUME NEW d \in Callers, caller'[d].on \in Incidents \ Sound
          PROVE  /\ caller'[d].step \notin RecertificationSteps
                 /\ caller'[d].outcome.certification = "FAILED"
      <3>1. CASE d = c
        BY <1>3, <1>5, <3>1
      <3>2. CASE d # c
        <4>1. caller'[d] = caller[d]
          BY <1>5, <3>2
        <4> QED
          BY <2>2, <4>1 DEF CoreInv, UnsoundIsUncertified
      <3> QED
        BY <3>1, <3>2
    <2> QED
      BY <2>1, <2>2 DEF UnsoundIsUncertified
  <1> QED
    BY <1>8, <1>11, <1>12, <1>13, <1>14, <1>15 DEF CoreInv

(* The gate's failure is recorded before the investigation goes on.        *)
LEMMA TriageStep ==
    ASSUME CoreInv, NEW c \in Callers, Triage(c)
    PROVE  CoreInv'
  <1> DEFINE i == caller[c].on
  <1>1. /\ caller[c].step = "triage"
        /\ caller[c].step # "idle"
        /\ caller[c].step \in InvestigationSteps
        /\ caller[c].on = i
    BY DEF Triage, InvestigationSteps
  <1>2. /\ caller \in [Callers -> CallerState]
        /\ asset \in [Incidents -> [Assets -> {"NONE", "FAILED", "CERTIFIED"}]]
        /\ i \in Incidents
        /\ incident[i].state \in EarlyStates
        /\ ~incident[i].approved
        /\ \A d \in Callers \ {c} : caller[d].step # "idle" => caller[d].on # i
    BY <1>1 DEF CoreInv, TypeOK, Busy, InvestigationIsAlone
  <1>3. UNCHANGED <<incident, ran, torn, interrupts>>
    BY DEF Triage
  <1>4. PICK step \in {"FAILED", "INVESTIGATING"} : Proceed(c, step)
    BY DEF Triage
  <1>5. asset' = asset \/ asset' = [asset EXCEPT ![i][Affected] = "FAILED"]
    BY DEF Triage
  <1> HIDE DEF i
  <1>6. step \in Steps /\ step \notin ExecutionSteps /\ step \notin RecertificationSteps
    BY DEF Steps, States, Terminal, ExecutionSteps, RecertificationSteps
  <1>7. /\ caller' \in [Callers -> CallerState]
        /\ caller'[c].step = step
        /\ caller'[c].on = i
        /\ caller'[c].outcome.certification = "FAILED"
        /\ \A d \in Callers : d # c => caller'[d] = caller[d]
    BY <1>1, <1>2, <1>4, <1>6, ProceedState
  <1>8. /\ asset' \in [Incidents -> [Assets -> {"NONE", "FAILED", "CERTIFIED"}]]
        /\ \A k \in Incidents, a \in Assets : asset'[k][a] = "CERTIFIED" => asset[k][a] = "CERTIFIED"
    BY <1>2, <1>5, TargetsAssumption
  <1>9. TypeOK'
    BY <1>3, <1>7, <1>8 DEF CoreInv, TypeOK
  <1> QED
    BY <1>1, <1>2, <1>3, <1>6, <1>7, <1>8, <1>9, CallerOnly DEF EarlyStates

(* One asset certified, of an incident that passed its recheck.            *)
LEMMA CertifyStep ==
    ASSUME CoreInv, NEW c \in Callers, Certify(c)
    PROVE  CoreInv'
  <1> DEFINE i == caller[c].on
  <1>1. /\ caller[c].step = "certify"
        /\ caller[c].step # "idle"
        /\ caller[c].step \in ExecutionSteps
        /\ caller[c].step \notin InvestigationSteps
        /\ caller[c].step \in RecertificationSteps
        /\ caller[c].on = i
    BY DEF Certify, ExecutionSteps, InvestigationSteps, RecertificationSteps
  <1>2. /\ caller \in [Callers -> CallerState]
        /\ caller[c] \in CallerState
        /\ asset \in [Incidents -> [Assets -> {"NONE", "FAILED", "CERTIFIED"}]]
        /\ i \in Incidents
        /\ i \in Sound
        /\ incident[i].state # "ABSENT"
        /\ incident[i].approved
    BY <1>1 DEF CoreInv, TypeOK, Busy, ExecutionFollowsApproval, UnsoundIsUncertified
  <1>3. UNCHANGED <<incident, ran, torn, interrupts>>
    BY DEF Certify
  <1>4. PICK a \in caller[c].left :
            /\ asset' = [asset EXCEPT ![i][a] = "CERTIFIED"]
            /\ IF caller[c].left = {a}
               THEN Proceed(c, "certification")
               ELSE Go(c, [caller[c] EXCEPT !.left = @ \ {a}])
    BY DEF Certify
  <1>5. a \in Assets
    BY <1>2 DEF CallerState
  <1> HIDE DEF i
  <1>6. /\ caller' \in [Callers -> CallerState]
        /\ caller'[c].step \in {"certify", "certification"}
        /\ caller'[c].on = i
        /\ \A d \in Callers : d # c => caller'[d] = caller[d]
    <2>1. CASE caller[c].left = {a}
      <3>1. Proceed(c, "certification")
        BY <1>4, <2>1
      <3>2. "certification" \in Steps
        BY DEF Steps, Writes
      <3> QED
        BY <1>1, <1>2, <3>1, <3>2, ProceedState
    <2>2. CASE caller[c].left # {a}
      <3> DEFINE state == [caller[c] EXCEPT !.left = @ \ {a}]
      <3>1. Go(c, state)
        BY <1>4, <2>2
      <3>2. /\ state \in CallerState
            /\ state.step = "certify"
            /\ state.on = i
        BY <1>1, <1>2 DEF CallerState
      <3> HIDE DEF state
      <3> QED
        BY <1>2, <3>1, <3>2, GoState
    <2> QED
      BY <2>1, <2>2
  <1>7. /\ caller'[c].step \notin InvestigationSteps
        /\ caller'[c].on \notin Incidents \ Sound
    BY <1>2, <1>6 DEF InvestigationSteps
  <1>8. /\ asset' \in [Incidents -> [Assets -> {"NONE", "FAILED", "CERTIFIED"}]]
        /\ \A k \in Incidents \ Sound, b \in Assets : asset'[k][b] = "CERTIFIED" => asset[k][b] = "CERTIFIED"
    BY <1>2, <1>4, <1>5
  <1>9. TypeOK'
    BY <1>3, <1>6, <1>8 DEF CoreInv, TypeOK
  <1> QED
    BY <1>1, <1>2, <1>3, <1>6, <1>7, <1>8, <1>9, CallerOnly

-----------------------------------------------------------------------------
(* The invariant, and what follows from it.                                *)

(* Every action, and every stutter, preserves the invariant.               *)
LEMMA Step == CoreInv /\ [Next]_vars => CoreInv'
  <1> SUFFICES ASSUME CoreInv, [Next]_vars PROVE CoreInv'
    OBVIOUS
  <1>1. CASE UNCHANGED vars
    BY <1>1 DEF vars, CoreInv, TypeOK, Busy, InvestigationIsAlone, ApprovalIsRecorded,
                ExecutionFollowsApproval, UnsoundIsUncertified
  <1>2. ASSUME NEW c \in Callers, Open(c) PROVE CoreInv'
    BY <1>2, OpenStep
  <1>3. ASSUME NEW c \in Callers, BeginApproval(c) \/ BeginRejection(c) \/ BeginExecution(c)
        PROVE  CoreInv'
    BY <1>3, BeginSteps
  <1>4. ASSUME NEW c \in Callers, Interrupt(c) PROVE CoreInv'
    <2>1. interrupts' \in 0..MaxInterrupts
      BY <1>4, InterruptsAssumption DEF Interrupt, CoreInv, TypeOK
    <2> QED
      BY <1>4, <2>1, RestStep DEF Interrupt
  <1>5. ASSUME NEW c \in Callers, TransitionRefused(c) PROVE CoreInv'
    <2>1. interrupts' \in 0..MaxInterrupts
      BY <1>5 DEF TransitionRefused, CoreInv, TypeOK
    <2> QED
      BY <1>5, <2>1, RestStep DEF TransitionRefused
  <1>6. ASSUME NEW c \in Callers, Continue(c) PROVE CoreInv'
    BY <1>5, <1>6, TransitionReadStep, TransitionWriteStep, TriageStep, ProposeStep, ApproveWriteStep,
       GoOnToExecuteStep, OutcomeReadStep, OutcomeWriteStep, CertifyStep DEF Continue
  <1> QED
    BY <1>1, <1>2, <1>3, <1>4, <1>6 DEF Next

(* The inductive invariant holds of every behaviour.                       *)
THEOREM CoreInvariant == Spec => []CoreInv
  <1> QED
    BY InitCore, Step, PTL DEF Spec

(* The store's rows, the certifications and the callers keep their types,  *)
(* for any number of incidents, targets and threads.                       *)
THEOREM TypeCorrect == Spec => []TypeOK
  <1>1. CoreInv => TypeOK
    BY DEF CoreInv
  <1> QED
    BY <1>1, CoreInvariant, PTL

(* approve before execute_approved: whatever requests overlap, a           *)
(* remediation runs only under an approved plan.                           *)
THEOREM ExecutionApproved == Spec => []ExecutionIsApproved
  <1>1. CoreInv => ExecutionIsApproved
    BY DEF CoreInv, ExecutionFollowsApproval, ApprovalIsRecorded, ExecutionIsApproved
  <1> QED
    BY <1>1, CoreInvariant, PTL

(* verify before save_certification: an incident whose recheck fails is    *)
(* never resolved and none of its assets is certified.                     *)
THEOREM OnlyVerifiedCertified == Spec => []OnlyVerifiedIsCertified
  <1>1. CoreInv => OnlyVerifiedIsCertified
    BY DEF CoreInv, UnsoundIsUncertified, OnlyVerifiedIsCertified
  <1> QED
    BY <1>1, CoreInvariant, PTL

-----------------------------------------------------------------------------
(* The remediation, while no state has been overwritten unread.            *)

(* The steps of a request that is to end an incident or has begun to       *)
(* execute it, and the states each may find: reject overtakes only those   *)
(* that precede the verification.                                          *)
FoundBy ==
    [execution |-> {"REMEDIATING", "BLOCKED"}, VERIFYING |-> {"REMEDIATING", "BLOCKED"},
     verification |-> {"VERIFYING"}, RECERTIFYING |-> {"VERIFYING"},
     certify |-> {"RECERTIFYING"}, certification |-> {"RECERTIFYING"},
     RESOLVED |-> {"RECERTIFYING"}, FAILED |-> EarlyStates \cup {"VERIFYING", "BLOCKED"}]

(* The steps in which a caller has a result to write.                      *)
ConclusionSteps == DOMAIN FoundBy

(* A caller is about to write a result of an incident.                     *)
Concludes(c, i) == caller[c].step \in ConclusionSteps /\ caller[c].on = i

(* What a row says of the remediation is what its state has reached.       *)
RowInStep(i) ==
    LET state == incident[i].state
        outcome == incident[i].outcome
    IN
    /\ ran[i] <= 1
    /\ state \in EarlyStates \cup {"ABSENT", "AWAITING_APPROVAL"} => ran[i] = 0
    /\ state \in {"VERIFYING", "RECERTIFYING", "RESOLVED"} => outcome.execution
    /\ state \in {"RECERTIFYING", "RESOLVED"} => outcome.verification = "PASS"
    /\ state = "RESOLVED" => outcome.certification = "CERTIFIED"
    /\ state = "RESOLVED" => \A a \in Assets : asset[i][a] = "CERTIFIED"
    /\ state \notin {"VERIFYING", "RECERTIFYING", "RESOLVED", "FAILED"} => outcome.verification = "NONE"
    /\ state \notin {"RECERTIFYING", "RESOLVED"} => \A a \in Assets : asset[i][a] # "CERTIFIED"

(* So is what a caller is about to do, and what it remembers of the row.   *)
CallerInStep(c, i) ==
    LET step == caller[c].step
        outcome == incident[i].outcome
    IN
    /\ incident[i].state \in FoundBy[step]
    /\ step = "VERIFYING" => outcome.execution
    /\ step = "RECERTIFYING" => outcome.verification = "PASS"
    /\ step = "RESOLVED" => outcome.certification = "CERTIFIED"
    /\ step = "certify" => \A a \in Assets \ caller[c].left : asset[i][a] = "CERTIFIED"
    /\ step \in {"certification", "RESOLVED"} => \A a \in Assets : asset[i][a] = "CERTIFIED"
    /\ caller[c].read = "READ" => caller[c].outcome = outcome

(* While no state has been overwritten unread, one request at most is past *)
(* the start of the remediation, and the row is in step with it.           *)
InStep(i) ==
    /\ RowInStep(i)
    /\ \A c \in Callers : Concludes(c, i) => CallerInStep(c, i)
    /\ \A c, d \in Callers : Concludes(c, i) /\ Concludes(d, i) => c = d

(* A transition that has read a state is allowed from it.                  *)
ReadAllows ==
    \A c \in Callers :
        (caller[c].step \in States /\ caller[c].read # "UNREAD")
            => caller[c].read \in States /\ caller[c].step \in Allowed(caller[c].read)

(* The inductive invariant of the executions and their outcomes.           *)
RemediationInv ==
    /\ CoreInv
    /\ ReadAllows
    /\ \A i \in Incidents : torn[i] \/ InStep(i)

-----------------------------------------------------------------------------
(* What the table of transitions says backwards.                           *)
LEMMA AllowedFrom ==
    ASSUME NEW s \in States, NEW t \in Allowed(s)
    PROVE  /\ s \notin Terminal
           /\ t \in EarlyStates => s \in EarlyStates
           /\ t = "REMEDIATING" => s = "AWAITING_APPROVAL"
           /\ t = "VERIFYING" => s = "REMEDIATING"
           /\ t = "RECERTIFYING" => s = "VERIFYING"
           /\ t = "RESOLVED" => s = "RECERTIFYING"
           /\ t = "BLOCKED" => s \notin {"VERIFYING", "RECERTIFYING"}
  BY DEF Allowed, Forward, States, Terminal, Underway, EarlyStates

(* A request that concludes an incident has it to itself.                  *)
LEMMA SoleConclusion ==
    ASSUME NEW i \in Incidents, NEW c \in Callers, InStep(i), Concludes(c, i)
    PROVE  \A d \in Callers : d # c => ~Concludes(d, i)
  BY DEF InStep

(* Nobody concludes what is still being investigated.                      *)
LEMMA InvestigatedAlone ==
    ASSUME CoreInv, NEW c \in Callers, caller[c].step \in InvestigationSteps
    PROVE  \A d \in Callers : d # c => ~Concludes(d, caller[c].on)
  BY DEF CoreInv, InvestigationIsAlone, Concludes, ConclusionSteps, FoundBy

(* A step leaves an incident in step when it changes nothing of it and its *)
(* caller is not about to conclude it.                                     *)
LEMMA KeptInStep ==
    ASSUME NEW i \in Incidents, NEW c \in Callers, InStep(i),
           incident'[i].state = incident[i].state, incident'[i].outcome = incident[i].outcome,
           asset'[i] = asset[i], ran'[i] = ran[i],
           \A d \in Callers : d # c => caller'[d] = caller[d],
           ~Concludes(c, i)'
    PROVE  InStep(i)'
  <1>1. RowInStep(i)'
    BY DEF InStep, RowInStep
  <1>2. \A d \in Callers : Concludes(d, i)' => d # c /\ Concludes(d, i) /\ caller'[d] = caller[d]
    BY DEF Concludes
  <1>3. ASSUME NEW d \in Callers, Concludes(d, i)' PROVE CallerInStep(d, i)'
    <2>1. CallerInStep(d, i) /\ caller'[d] = caller[d]
      BY <1>2, <1>3 DEF InStep
    <2> QED
      BY <2>1 DEF CallerInStep
  <1> QED
    BY <1>1, <1>2, <1>3 DEF InStep

(* A step of the only caller that concludes an incident has to keep the    *)
(* row and that caller in step.                                            *)
LEMMA SoleInStep ==
    ASSUME NEW i \in Incidents, NEW c \in Callers,
           \A d \in Callers : d # c => ~Concludes(d, i) /\ caller'[d] = caller[d],
           RowInStep(i)', Concludes(c, i)' => CallerInStep(c, i)'
    PROVE  InStep(i)'
  <1>1. \A d \in Callers : Concludes(d, i)' => d = c
    BY DEF Concludes
  <1> QED
    BY <1>1 DEF InStep

(* A caller whose next step has read nothing.                              *)
LEMMA KeptReads ==
    ASSUME ReadAllows, NEW c \in Callers, \A d \in Callers : d # c => caller'[d] = caller[d],
           (caller'[c].step \in States /\ caller'[c].read # "UNREAD")
               => caller'[c].read \in States /\ caller'[c].step \in Allowed(caller'[c].read)
    PROVE  ReadAllows'
  BY DEF ReadAllows

(* A step that moves one caller on, not to a conclusion, and changes no    *)
(* state, outcome or certification.                                        *)
LEMMA AsideStep ==
    ASSUME RemediationInv, CoreInv', NEW c \in Callers,
           \A i \in Incidents : /\ incident'[i].state = incident[i].state
                                /\ incident'[i].outcome = incident[i].outcome,
           UNCHANGED <<asset, ran, torn>>,
           \A d \in Callers : d # c => caller'[d] = caller[d],
           caller'[c].step \notin ConclusionSteps, caller'[c].read = "UNREAD"
    PROVE  RemediationInv'
  <1>1. ReadAllows'
    BY KeptReads DEF RemediationInv
  <1>2. ASSUME NEW i \in Incidents, ~torn'[i] PROVE InStep(i)'
    <2>1. InStep(i)
      BY <1>2 DEF RemediationInv
    <2>2. ~Concludes(c, i)'
      BY DEF Concludes
    <2> QED
      BY <2>1, <2>2, KeptInStep
  <1> QED
    BY <1>1, <1>2 DEF RemediationInv

(* A step of the caller c on its own incident i, which no other incident   *)
(* notices.                                                                *)
LEMMA OwnIncidentStep ==
    ASSUME RemediationInv, CoreInv', NEW c \in Callers, NEW i \in Incidents,
           \A k \in Incidents \ {i} : /\ incident'[k] = incident[k]
                                      /\ asset'[k] = asset[k]
                                      /\ ran'[k] = ran[k]
                                      /\ torn'[k] = torn[k],
           \A d \in Callers : d # c => caller'[d] = caller[d],
           caller'[c].step # "idle" => caller'[c].on = i,
           ReadAllows', torn'[i] \/ InStep(i)'
    PROVE  RemediationInv'
  <1>1. ASSUME NEW k \in Incidents \ {i}, ~torn'[k] PROVE InStep(k)'
    <2>1. InStep(k)
      BY <1>1 DEF RemediationInv
    <2>2. ~Concludes(c, k)'
      BY <1>1 DEF Concludes, ConclusionSteps, FoundBy
    <2> QED
      BY <1>1, <2>1, <2>2, KeptInStep
  <1> QED
    BY <1>1 DEF RemediationInv

(* Nothing has been started.                                               *)
LEMMA RemediationInit == Init => RemediationInv
  <1> SUFFICES ASSUME Init PROVE RemediationInv
    OBVIOUS
  <1>1. CoreInv
    BY InitCore
  <1>2. ReadAllows
    BY IdleType DEF Init, ReadAllows
  <1>3. ASSUME NEW i \in Incidents PROVE InStep(i)
    <2>1. /\ incident[i].state = "ABSENT"
          /\ incident[i].outcome.verification = "NONE"
          /\ ran[i] = 0
          /\ \A a \in Assets : asset[i][a] = "NONE"
      BY DEF Init, NoRow, NoOutcome
    <2>2. RowInStep(i)
      BY <2>1 DEF RowInStep
    <2>3. \A c \in Callers : ~Concludes(c, i)
      BY IdleType DEF Init, Concludes, ConclusionSteps, FoundBy
    <2> QED
      BY <2>2, <2>3 DEF InStep
  <1> QED
    BY <1>1, <1>2, <1>3 DEF RemediationInv

(* investigate() creates an incident nobody else knows of.                 *)
LEMMA RemediationOpen ==
    ASSUME RemediationInv, CoreInv', NEW c \in Callers, Open(c)
    PROVE  RemediationInv'
  <1>1. PICK i \in Incidents :
            /\ incident[i].state = "ABSENT"
            /\ incident' = [incident EXCEPT ![i].state = "DETECTED"]
            /\ Serve(c, i, "triage", FALSE)
    BY DEF Open
  <1>2. UNCHANGED <<asset, ran, torn, interrupts>>
    BY DEF Open
  <1>3. /\ caller \in [Callers -> CallerState]
        /\ incident \in [Incidents -> Row]
        /\ incident[i] \in Row
        /\ "triage" \in Steps
    BY DEF RemediationInv, CoreInv, TypeOK, Steps, Writes
  <1>4. /\ caller'[c].step = "triage"
        /\ caller'[c].on = i
        /\ caller'[c].read = "UNREAD"
        /\ \A d \in Callers : d # c => caller'[d] = caller[d]
    BY <1>1, <1>3, ServeState
  <1>5. /\ \A k \in Incidents : k # i => incident'[k] = incident[k]
        /\ incident'[i].state = "DETECTED"
        /\ incident'[i].outcome = incident[i].outcome
    BY <1>1, <1>3 DEF Row
  <1>6. \A d \in Callers : ~Concludes(d, i)
    BY <1>1 DEF RemediationInv, CoreInv, Busy, Concludes, ConclusionSteps, FoundBy
  <1>7. torn'[i] \/ InStep(i)'
    <2> SUFFICES ASSUME ~torn'[i] PROVE InStep(i)'
      OBVIOUS
    <2>1. RowInStep(i)
      BY <1>2 DEF RemediationInv, InStep
    <2>2. RowInStep(i)'
      BY <1>1, <1>2, <1>5, <2>1 DEF RowInStep, EarlyStates
    <2>3. ~Concludes(c, i)'
      BY <1>4 DEF Concludes, ConclusionSteps, FoundBy
    <2> QED
      BY <1>4, <1>6, <2>2, <2>3, SoleInStep
  <1>8. ReadAllows'
    BY <1>4, KeptReads DEF RemediationInv
  <1> QED
    BY <1>2, <1>4, <1>5, <1>7, <1>8, OwnIncidentStep

(* A request refused, over or interrupted.                                 *)
LEMMA RemediationRest ==
    ASSUME RemediationInv, CoreInv', NEW c \in Callers,
           UNCHANGED <<incident, asset, ran, torn>>, Go(c, Idle)
    PROVE  RemediationInv'
  <1>1. caller \in [Callers -> CallerState]
    BY DEF RemediationInv, CoreInv, TypeOK
  <1>2. caller'[c] = Idle /\ \A d \in Callers : d # c => caller'[d] = caller[d]
    BY <1>1, IdleType, GoState
  <1>3. caller'[c].step \notin ConclusionSteps
    BY <1>2, IdleType DEF ConclusionSteps, FoundBy
  <1> QED
    BY <1>2, <1>3, IdleType, AsideStep

(* The first check of a request writes nothing.                            *)
LEMMA RemediationBegin ==
    ASSUME RemediationInv, CoreInv', NEW c \in Callers,
           BeginApproval(c) \/ BeginRejection(c) \/ BeginExecution(c)
    PROVE  RemediationInv'
  <1>1. UNCHANGED <<incident, asset, ran, torn>>
    BY DEF BeginApproval, BeginRejection, BeginExecution
  <1>2. PICK i \in Incidents, step \in {"approve", "BLOCKED", "REMEDIATING"}, onward \in BOOLEAN :
            Serve(c, i, step, onward)
    BY DEF BeginApproval, BeginRejection, BeginExecution
  <1>3. step \in Steps /\ step \notin ConclusionSteps
    BY DEF Steps, Writes, States, Terminal, Underway, ConclusionSteps, FoundBy
  <1>4. caller \in [Callers -> CallerState]
    BY DEF RemediationInv, CoreInv, TypeOK
  <1>5. /\ caller'[c].step = step
        /\ caller'[c].read = "UNREAD"
        /\ \A d \in Callers : d # c => caller'[d] = caller[d]
    BY <1>2, <1>3, <1>4, ServeState
  <1> QED
    BY <1>1, <1>3, <1>5, AsideStep

(* The plan is saved, or approved, or an execution found approved: the     *)
(* outcome and the certifications stay.                                    *)
LEMMA RemediationPlan ==
    ASSUME RemediationInv, CoreInv', NEW c \in Callers,
           Propose(c) \/ ApproveWrite(c) \/ GoOnToExecute(c)
    PROVE  RemediationInv'
  <1>1. UNCHANGED <<asset, ran, torn>>
    BY DEF Propose, ApproveWrite, GoOnToExecute
  <1>2. caller \in [Callers -> CallerState] /\ incident \in [Incidents -> Row]
    BY DEF RemediationInv, CoreInv, TypeOK
  <1>3. \A i \in Incidents : /\ incident'[i].state = incident[i].state
                             /\ incident'[i].outcome = incident[i].outcome
    BY <1>2 DEF Propose, ApproveWrite, GoOnToExecute, Row
  <1>4. Go(c, Idle) \/ \E step \in {"AWAITING_APPROVAL", "execute", "REMEDIATING"} : Proceed(c, step)
    BY DEF Propose, ApproveWrite, GoOnToExecute
  <1>5. CASE Go(c, Idle)
    <2>1. caller'[c] = Idle /\ \A d \in Callers : d # c => caller'[d] = caller[d]
      BY <1>2, <1>5, IdleType, GoState
    <2>2. caller'[c].step \notin ConclusionSteps
      BY <2>1, IdleType DEF ConclusionSteps, FoundBy
    <2> QED
      BY <1>1, <1>3, <2>1, <2>2, IdleType, AsideStep
  <1>6. ASSUME NEW step \in {"AWAITING_APPROVAL", "execute", "REMEDIATING"}, Proceed(c, step)
        PROVE  RemediationInv'
    <2>1. step \in Steps /\ step \notin ConclusionSteps
      BY DEF Steps, Writes, States, Terminal, Underway, ConclusionSteps, FoundBy
    <2>2. /\ caller'[c].step = step
          /\ caller'[c].read = "UNREAD"
          /\ \A d \in Callers : d # c => caller'[d] = caller[d]
      BY <1>2, <1>6, <2>1, ProceedState
    <2> QED
      BY <1>1, <1>3, <2>1, <2>2, AsideStep
  <1> QED
    BY <1>4, <1>5, <1>6

(* transition()'s read remembers a state the target is allowed from.       *)
LEMMA RemediationTransitionRead ==
    ASSUME RemediationInv, CoreInv', NEW c \in Callers, TransitionRead(c)
    PROVE  RemediationInv'
  <1>0. PICK i \in Incidents : caller[c].on = i
    BY DEF RemediationInv, CoreInv, Busy, TransitionRead, States, Terminal, Underway
  <1> DEFINE state == [caller[c] EXCEPT !.read = incident[i].state]
  <1>1. /\ caller \in [Callers -> CallerState]
        /\ caller[c] \in CallerState
        /\ caller[c].step # "idle"
        /\ i \in Incidents
        /\ incident[i].state \in States
        /\ caller[c].step \in Allowed(incident[i].state)
        /\ Go(c, state)
        /\ UNCHANGED <<incident, asset, ran, torn, interrupts>>
    BY <1>0 DEF RemediationInv, CoreInv, TypeOK, Busy, TransitionRead, Row, States, Terminal, Underway
  <1>2. /\ state \in CallerState
        /\ state.step = caller[c].step
        /\ state.on = i
        /\ state.left = caller[c].left
        /\ state.outcome = caller[c].outcome
        /\ state.read = incident[i].state
    BY <1>1, <1>0 DEF CallerState
  <1> HIDE DEF state
  <1>3. caller'[c] = state /\ \A d \in Callers : d # c => caller'[d] = caller[d]
    BY <1>1, <1>2, GoState
  <1>4. ReadAllows'
    BY <1>1, <1>2, <1>3, KeptReads DEF RemediationInv
  <1>5. torn'[i] \/ InStep(i)'
    <2> SUFFICES ASSUME ~torn'[i] PROVE InStep(i)'
      OBVIOUS
    <2>1. InStep(i)
      BY <1>1 DEF RemediationInv
    <2>2. CASE ~Concludes(c, i)
      <3>1. ~Concludes(c, i)'
        BY <1>0, <1>2, <1>3, <2>2 DEF Concludes
      <3> QED
        BY <1>1, <1>3, <2>1, <3>1, KeptInStep
    <2>3. CASE Concludes(c, i)
      <3>1. RowInStep(i)' /\ CallerInStep(c, i)
        BY <1>1, <2>1, <2>3 DEF InStep, RowInStep
      <3>2. state.read # "READ"
        BY <1>1, <1>2 DEF States, Terminal, Underway
      <3>3. CallerInStep(c, i)'
        BY <1>1, <1>2, <1>3, <3>1, <3>2 DEF CallerInStep
      <3> QED
        BY <1>1, <1>3, <2>1, <2>3, <3>1, <3>3, SoleConclusion, SoleInStep
    <2> QED
      BY <2>2, <2>3
  <1>6. caller'[c].on = i
    BY <1>2, <1>3
  <1> QED
    BY <1>1, <1>3, <1>4, <1>5, <1>6, OwnIncidentStep

(* A state written over the one that was read: the row and the writer are  *)
(* in step with the new state, and a reject overtakes only what may be.    *)
LEMMA RemediationTransitionWrite ==
    ASSUME RemediationInv, CoreInv', NEW c \in Callers, TransitionWrite(c)
    PROVE  RemediationInv'
  <1>0. PICK i \in Incidents : caller[c].on = i
    BY DEF RemediationInv, CoreInv, Busy, TransitionWrite, States, Terminal, Underway
  <1> DEFINE target == caller[c].step
             state == incident[i].state
  <1>1. /\ caller \in [Callers -> CallerState]
        /\ target \in States
        /\ target # "idle"
        /\ i \in Incidents
        /\ incident[i] \in Row
        /\ incident \in [Incidents -> Row]
        /\ state \in States
        /\ ran[i] \in Nat
        /\ caller[c].read # "UNREAD"
    BY <1>0 DEF RemediationInv, CoreInv, TypeOK, Busy, TransitionWrite, Row, States, Terminal, Underway
  <1>2. /\ incident' = [incident EXCEPT ![i].state = target]
        /\ torn' = [torn EXCEPT ![i] = @ \/ caller[c].read # state]
        /\ ran' = [ran EXCEPT ![i] = @ + (IF target = "REMEDIATING" THEN 1 ELSE 0)]
        /\ asset' = asset
    BY <1>0 DEF TransitionWrite
  <1>3. /\ caller'[c].step = After(target)
        /\ caller'[c].step # "idle" => caller'[c].on = i
        /\ caller'[c].step = "certify" => caller'[c].left = Assets
        /\ caller'[c].read = "UNREAD"
        /\ \A d \in Callers : d # c => caller'[d] = caller[d]
    BY <1>1, <1>0, AfterWrite
  <1>4. /\ \A k \in Incidents \ {i} : /\ incident'[k] = incident[k]
                                      /\ asset'[k] = asset[k]
                                      /\ ran'[k] = ran[k]
                                      /\ torn'[k] = torn[k]
        /\ incident'[i].state = target
        /\ incident'[i].outcome = incident[i].outcome
        /\ asset'[i] = asset[i]
        /\ ran'[i] = ran[i] + (IF target = "REMEDIATING" THEN 1 ELSE 0)
        /\ ~torn'[i] => ~torn[i] /\ caller[c].read = state
    <2>1. /\ torn \in [Incidents -> BOOLEAN]
          /\ ran \in [Incidents -> Nat]
          /\ asset \in [Incidents -> [Assets -> {"NONE", "FAILED", "CERTIFIED"}]]
      BY DEF RemediationInv, CoreInv, TypeOK
    <2>2. incident'[i] = [incident[i] EXCEPT !.state = target]
      BY <1>1, <1>2
    <2>3. incident'[i].state = target /\ incident'[i].outcome = incident[i].outcome
      BY <1>1, <2>2 DEF Row
    <2>4. ~torn'[i] => ~torn[i] /\ caller[c].read = state
      BY <1>1, <1>2, <2>1
    <2> QED
      BY <1>1, <1>2, <2>1, <2>3, <2>4
  <1>5. ReadAllows'
    BY <1>3, KeptReads DEF RemediationInv
  <1>6. torn'[i] \/ InStep(i)'
    <2> SUFFICES ASSUME ~torn'[i] PROVE InStep(i)'
      OBVIOUS
    <2>1. InStep(i) /\ RowInStep(i)
      BY <1>1, <1>4 DEF RemediationInv, InStep
    <2>2. target \in Allowed(state)
      BY <1>1, <1>4 DEF RemediationInv, ReadAllows
    <2>3. /\ state \notin Terminal
          /\ target \in EarlyStates => state \in EarlyStates
          /\ target = "REMEDIATING" => state = "AWAITING_APPROVAL"
          /\ target = "VERIFYING" => state = "REMEDIATING"
          /\ target = "RECERTIFYING" => state = "VERIFYING"
          /\ target = "RESOLVED" => state = "RECERTIFYING"
          /\ target = "BLOCKED" => state \notin {"VERIFYING", "RECERTIFYING"}
      BY <1>1, <2>2, AllowedFrom
    <2>4. CASE target \in EarlyStates \cup {"AWAITING_APPROVAL"}
      <3>1. target \in InvestigationSteps /\ After(target) \notin ConclusionSteps
        BY <2>4 DEF EarlyStates, InvestigationSteps, After, Forward, Terminal, ConclusionSteps, FoundBy
      <3>2. \A d \in Callers : d # c => ~Concludes(d, i)
        BY <1>0, <3>1, InvestigatedAlone DEF RemediationInv
      <3>3. state \in EarlyStates
        BY <1>0, <3>1 DEF RemediationInv, CoreInv, InvestigationIsAlone
      <3>4. RowInStep(i)'
        BY <1>1, <1>4, <2>1, <2>4, <3>3 DEF RowInStep, EarlyStates
      <3>5. ~Concludes(c, i)'
        BY <1>3, <3>1 DEF Concludes
      <3> QED
        BY <1>1, <1>3, <3>2, <3>4, <3>5, SoleInStep
    <2>5. CASE target = "REMEDIATING"
      <3>1. state = "AWAITING_APPROVAL" /\ After(target) = "execution"
        BY <2>3, <2>5 DEF After, Terminal
      <3>2. \A d \in Callers : ~Concludes(d, i)
        <4>1. \A step \in ConclusionSteps : "AWAITING_APPROVAL" \notin FoundBy[step]
          BY DEF ConclusionSteps, FoundBy, EarlyStates
        <4> QED
          BY <2>1, <3>1, <4>1 DEF InStep, Concludes, CallerInStep
      <3>3. RowInStep(i)'
        BY <1>1, <1>4, <2>1, <2>5, <3>1 DEF RowInStep, EarlyStates
      <3>4. CallerInStep(c, i)'
        BY <1>3, <1>4, <2>5, <3>1 DEF CallerInStep, FoundBy
      <3> QED
        BY <1>1, <1>3, <3>2, <3>3, <3>4, SoleInStep
    <2>6. CASE target = "VERIFYING"
      <3>1. state = "REMEDIATING" /\ After(target) = "verification" /\ Concludes(c, i)
        BY <1>0, <2>3, <2>6 DEF After, Terminal, Concludes, ConclusionSteps, FoundBy
      <3>2. CallerInStep(c, i)
        BY <2>1, <3>1 DEF InStep
      <3>3. RowInStep(i)'
        BY <1>1, <1>4, <2>1, <2>6, <3>1, <3>2 DEF RowInStep, CallerInStep, EarlyStates
      <3>4. CallerInStep(c, i)'
        BY <1>3, <1>4, <2>6, <3>1 DEF CallerInStep, FoundBy
      <3> QED
        BY <1>1, <1>3, <2>1, <3>1, <3>3, <3>4, SoleConclusion, SoleInStep
    <2>7. CASE target = "RECERTIFYING"
      <3>1. state = "VERIFYING" /\ After(target) = "certify" /\ Concludes(c, i)
        BY <1>0, <2>3, <2>7 DEF After, Terminal, Concludes, ConclusionSteps, FoundBy
      <3>2. CallerInStep(c, i)
        BY <2>1, <3>1 DEF InStep
      <3>3. RowInStep(i)'
        BY <1>1, <1>4, <2>1, <2>7, <3>1, <3>2 DEF RowInStep, CallerInStep, EarlyStates
      <3>4. CallerInStep(c, i)'
        BY <1>3, <1>4, <2>7, <3>1 DEF CallerInStep, FoundBy
      <3> QED
        BY <1>1, <1>3, <2>1, <3>1, <3>3, <3>4, SoleConclusion, SoleInStep
    <2>8. CASE target \in {"RESOLVED", "FAILED"}
      <3>1. After(target) = "idle" /\ Concludes(c, i)
        BY <1>0, <2>8 DEF After, Terminal, Concludes, ConclusionSteps, FoundBy
      <3>2. CallerInStep(c, i)
        BY <2>1, <3>1 DEF InStep
      <3>3. RowInStep(i)'
        <4>1. CASE target = "RESOLVED"
          BY <1>1, <1>4, <2>1, <2>3, <3>2, <4>1 DEF RowInStep, CallerInStep, EarlyStates
        <4>2. CASE target = "FAILED"
          <5>1. state \notin {"RECERTIFYING", "RESOLVED"}
            BY <3>2, <4>2 DEF CallerInStep, FoundBy, EarlyStates
          <5> QED
            BY <1>1, <1>4, <2>1, <4>2, <5>1 DEF RowInStep, EarlyStates
        <4> QED
          BY <2>8, <4>1, <4>2
      <3>4. ~Concludes(c, i)'
        BY <1>3, <3>1 DEF Concludes, ConclusionSteps, FoundBy
      <3> QED
        BY <1>1, <1>3, <2>1, <3>1, <3>3, <3>4, SoleConclusion, SoleInStep
    <2>9. CASE target = "BLOCKED"
      <3>1. After(target) = "idle"
        BY <2>9 DEF After, Terminal
      <3>2. state \in EarlyStates \cup {"AWAITING_APPROVAL", "REMEDIATING"}
        BY <1>1, <2>3, <2>9 DEF States, Terminal, Underway, EarlyStates
      <3>3. RowInStep(i)'
        BY <1>1, <1>4, <2>1, <2>9, <3>2 DEF RowInStep, EarlyStates
      <3>4. ASSUME NEW d \in Callers, Concludes(d, i)'
            PROVE  d # c /\ Concludes(d, i) /\ caller'[d] = caller[d]
        BY <1>3, <3>1, <3>4 DEF Concludes, ConclusionSteps, FoundBy
      <3>5. ASSUME NEW d \in Callers, Concludes(d, i)' PROVE CallerInStep(d, i)'
        <4>1. CallerInStep(d, i) /\ caller'[d] = caller[d] /\ caller[d].step \in ConclusionSteps
          BY <2>1, <3>4, <3>5 DEF InStep, Concludes
        <4>2. caller[d].step \in {"execution", "VERIFYING", "FAILED"}
          BY <3>2, <4>1 DEF CallerInStep, ConclusionSteps, FoundBy, EarlyStates
        <4> QED
          BY <1>4, <2>9, <4>1, <4>2 DEF CallerInStep, FoundBy
      <3> QED
        BY <2>1, <3>3, <3>4, <3>5 DEF InStep
    <2> QED
      BY <1>1, <2>4, <2>5, <2>6, <2>7, <2>8, <2>9 DEF States, Terminal, Underway, EarlyStates
  <1> HIDE DEF target, state
  <1> QED
    BY <1>1, <1>3, <1>4, <1>5, <1>6, OwnIncidentStep

(* update_outcome's read, by the only caller that writes the outcome.      *)
LEMMA RemediationOutcomeRead ==
    ASSUME RemediationInv, CoreInv', NEW c \in Callers, OutcomeRead(c)
    PROVE  RemediationInv'
  <1>0. PICK i \in Incidents : caller[c].on = i
    BY DEF RemediationInv, CoreInv, Busy, OutcomeRead
  <1> DEFINE state == [caller[c] EXCEPT !.read = "READ", !.outcome = incident[i].outcome]
  <1>1. /\ caller \in [Callers -> CallerState]
        /\ caller[c] \in CallerState
        /\ caller[c].step \in {"execution", "verification", "certification"}
        /\ incident[i].outcome \in Outcome
        /\ Go(c, state)
        /\ UNCHANGED <<incident, asset, ran, torn, interrupts>>
    BY <1>0 DEF RemediationInv, CoreInv, TypeOK, OutcomeRead, Row
  <1>2. /\ state \in CallerState
        /\ state.step = caller[c].step
        /\ state.on = i
        /\ state.outcome = incident[i].outcome
        /\ state.read = "READ"
    BY <1>0, <1>1 DEF CallerState
  <1> HIDE DEF state
  <1>3. caller'[c] = state /\ \A d \in Callers : d # c => caller'[d] = caller[d]
    BY <1>1, <1>2, GoState
  <1>4. ReadAllows'
    BY <1>1, <1>2, <1>3, KeptReads DEF RemediationInv, States, Terminal, Underway
  <1>5. torn'[i] \/ InStep(i)'
    <2> SUFFICES ASSUME ~torn'[i] PROVE InStep(i)'
      OBVIOUS
    <2>1. InStep(i)
      BY <1>1 DEF RemediationInv
    <2>2. Concludes(c, i)
      BY <1>0, <1>1 DEF Concludes, ConclusionSteps, FoundBy
    <2>3. RowInStep(i)' /\ CallerInStep(c, i)
      BY <1>1, <2>1, <2>2 DEF InStep, RowInStep
    <2>4. CallerInStep(c, i)'
      BY <1>1, <1>2, <1>3, <2>3 DEF CallerInStep
    <2> QED
      BY <1>1, <1>3, <2>1, <2>2, <2>3, <2>4, SoleConclusion, SoleInStep
  <1> QED
    BY <1>1, <1>2, <1>3, <1>4, <1>5, OwnIncidentStep

(* update_outcome's write: the columns it read are still those of the row. *)
LEMMA RemediationOutcomeWrite ==
    ASSUME RemediationInv, CoreInv', NEW c \in Callers, OutcomeWrite(c)
    PROVE  RemediationInv'
  <1>0. PICK i \in Incidents : caller[c].on = i
    BY DEF RemediationInv, CoreInv, Busy, OutcomeWrite
  <1> DEFINE step == caller[c].step
             outcome == caller[c].outcome
             result == OutcomeStep(i, step, outcome)
  <1>1. /\ caller \in [Callers -> CallerState]
        /\ incident \in [Incidents -> Row]
        /\ incident[i] \in Row
        /\ outcome \in Outcome
        /\ step \in {"execution", "verification", "certification"}
        /\ caller[c].read = "READ"
        /\ incident' = [incident EXCEPT ![i].outcome = result.row]
        /\ Proceed(c, result.next)
        /\ UNCHANGED <<asset, ran, torn, interrupts>>
    BY <1>0 DEF RemediationInv, CoreInv, TypeOK, CallerState, OutcomeWrite
  <1>2. /\ incident'[i] = [incident[i] EXCEPT !.outcome = result.row]
        /\ \A k \in Incidents \ {i} : incident'[k] = incident[k]
    BY <1>1
  <1>3. incident'[i].state = incident[i].state /\ incident'[i].outcome = result.row
    BY <1>1, <1>2 DEF Row
  <1>4. /\ step = "execution" =>
               result = [next |-> "VERIFYING", row |-> [outcome EXCEPT !.execution = TRUE]]
        /\ step = "verification" /\ i \in Sound =>
               result = [next |-> "RECERTIFYING", row |-> [outcome EXCEPT !.verification = "PASS"]]
        /\ step = "verification" /\ i \notin Sound =>
               result = [next |-> "FAILED", row |-> [outcome EXCEPT !.verification = "FAIL"]]
        /\ step = "certification" =>
               result = [next |-> "RESOLVED", row |-> [outcome EXCEPT !.certification = "CERTIFIED"]]
    BY DEF OutcomeStep
  <1>5. result.next \in Steps
    BY <1>1, <1>4 DEF Steps, States, Terminal, Underway
  <1>6. /\ caller'[c].step = result.next
        /\ caller'[c].on = i
        /\ caller'[c].read = "UNREAD"
        /\ \A d \in Callers : d # c => caller'[d] = caller[d]
    BY <1>0, <1>1, <1>5, ProceedState
  <1>7. ReadAllows'
    BY <1>6, KeptReads DEF RemediationInv
  <1>8. torn'[i] \/ InStep(i)'
    <2> SUFFICES ASSUME ~torn'[i] PROVE InStep(i)'
      OBVIOUS
    <2>1. InStep(i)
      BY <1>1 DEF RemediationInv
    <2>2. Concludes(c, i)
      BY <1>0, <1>1 DEF Concludes, ConclusionSteps, FoundBy
    <2>3. RowInStep(i) /\ CallerInStep(c, i)
      BY <2>1, <2>2 DEF InStep
    <2>4. outcome = incident[i].outcome
      BY <1>1, <2>3 DEF CallerInStep
    <2>5. RowInStep(i)' /\ CallerInStep(c, i)'
      <3>1. CASE step = "execution"
        <4>1. /\ result.next = "VERIFYING"
              /\ result.row.execution
              /\ result.row.verification = outcome.verification
              /\ result.row.certification = outcome.certification
          BY <1>1, <1>4, <3>1 DEF Outcome
        <4>2. incident[i].state \in {"REMEDIATING", "BLOCKED"}
          BY <2>3, <3>1 DEF CallerInStep, FoundBy
        <4>3. RowInStep(i)'
          BY <1>1, <1>3, <2>3, <2>4, <4>1, <4>2 DEF RowInStep, EarlyStates
        <4>4. CallerInStep(c, i)'
          BY <1>1, <1>3, <1>6, <4>1, <4>2 DEF CallerInStep, FoundBy
        <4> QED
          BY <4>3, <4>4
      <3>2. CASE step = "verification"
        <4>1. /\ result.next \in {"RECERTIFYING", "FAILED"}
              /\ result.next = "RECERTIFYING" => result.row.verification = "PASS"
              /\ result.row.execution = outcome.execution
              /\ result.row.certification = outcome.certification
          BY <1>1, <1>4, <3>2 DEF Outcome
        <4>2. incident[i].state = "VERIFYING"
          BY <2>3, <3>2 DEF CallerInStep, FoundBy
        <4>3. RowInStep(i)'
          BY <1>1, <1>3, <2>3, <2>4, <4>1, <4>2 DEF RowInStep, EarlyStates
        <4>4. CallerInStep(c, i)'
          BY <1>1, <1>3, <1>6, <4>1, <4>2 DEF CallerInStep, FoundBy
        <4> QED
          BY <4>3, <4>4
      <3>3. CASE step = "certification"
        <4>1. /\ result.next = "RESOLVED"
              /\ result.row.execution = outcome.execution
              /\ result.row.verification = outcome.verification
              /\ result.row.certification = "CERTIFIED"
          BY <1>1, <1>4, <3>3 DEF Outcome
        <4>2. incident[i].state = "RECERTIFYING" /\ \A a \in Assets : asset[i][a] = "CERTIFIED"
          BY <2>3, <3>3 DEF CallerInStep, FoundBy
        <4>3. RowInStep(i)'
          BY <1>1, <1>3, <2>3, <2>4, <4>1, <4>2 DEF RowInStep, EarlyStates
        <4>4. CallerInStep(c, i)'
          BY <1>1, <1>3, <1>6, <4>1, <4>2 DEF CallerInStep, FoundBy
        <4> QED
          BY <4>3, <4>4
      <3> QED
        BY <1>1, <3>1, <3>2, <3>3
    <2> QED
      BY <1>6, <2>1, <2>2, <2>5, SoleConclusion, SoleInStep
  <1> HIDE DEF step, outcome, result
  <1> QED
    BY <1>1, <1>2, <1>6, <1>7, <1>8, OwnIncidentStep

(* The gate's failure is recorded, or the investigation ends.              *)
LEMMA RemediationTriage ==
    ASSUME RemediationInv, CoreInv', NEW c \in Callers, Triage(c)
    PROVE  RemediationInv'
  <1>0. PICK i \in Incidents : caller[c].on = i
    BY DEF RemediationInv, CoreInv, Busy, Triage
  <1>1. /\ caller \in [Callers -> CallerState]
        /\ asset \in [Incidents -> [Assets -> {"NONE", "FAILED", "CERTIFIED"}]]
        /\ caller[c].step \in InvestigationSteps
        /\ incident[i].state \in EarlyStates
        /\ UNCHANGED <<incident, ran, torn, interrupts>>
        /\ asset' = asset \/ asset' = [asset EXCEPT ![i][Affected] = "FAILED"]
    BY <1>0 DEF RemediationInv, CoreInv, TypeOK, InvestigationIsAlone, InvestigationSteps, Triage
  <1>2. PICK step \in {"FAILED", "INVESTIGATING"} : Proceed(c, step)
    BY DEF Triage
  <1>3. /\ caller'[c].step = step
        /\ caller'[c].on = i
        /\ caller'[c].read = "UNREAD"
        /\ \A d \in Callers : d # c => caller'[d] = caller[d]
    <2>1. step \in Steps
      BY DEF Steps, States, Terminal
    <2> QED
      BY <1>0, <1>1, <1>2, <2>1, ProceedState
  <1>4. /\ \A k \in Incidents \ {i} : asset'[k] = asset[k]
        /\ \A a \in Assets : asset'[i][a] \in {asset[i][a], "FAILED"}
    BY <1>1, TargetsAssumption
  <1>5. ReadAllows'
    BY <1>3, KeptReads DEF RemediationInv
  <1>6. torn'[i] \/ InStep(i)'
    <2> SUFFICES ASSUME ~torn'[i] PROVE InStep(i)'
      OBVIOUS
    <2>1. RowInStep(i)
      BY <1>1 DEF RemediationInv, InStep
    <2>2. RowInStep(i)'
      BY <1>1, <1>4, <2>1 DEF RowInStep, EarlyStates
    <2>3. \A d \in Callers : d # c => ~Concludes(d, i)
      BY <1>0, <1>1, InvestigatedAlone DEF RemediationInv
    <2>4. Concludes(c, i)' => CallerInStep(c, i)'
      BY <1>1, <1>3 DEF Concludes, ConclusionSteps, CallerInStep, FoundBy
    <2> QED
      BY <1>3, <2>2, <2>3, <2>4, SoleInStep
  <1> QED
    BY <1>1, <1>3, <1>4, <1>5, <1>6, OwnIncidentStep

(* One asset certified; after the last the certification is recorded.      *)
LEMMA RemediationCertify ==
    ASSUME RemediationInv, CoreInv', NEW c \in Callers, Certify(c)
    PROVE  RemediationInv'
  <1>0. PICK i \in Incidents : caller[c].on = i
    BY DEF RemediationInv, CoreInv, Busy, Certify
  <1>1. /\ caller \in [Callers -> CallerState]
        /\ caller[c] \in CallerState
        /\ asset \in [Incidents -> [Assets -> {"NONE", "FAILED", "CERTIFIED"}]]
        /\ caller[c].step = "certify"
        /\ UNCHANGED <<incident, ran, torn, interrupts>>
    BY DEF RemediationInv, CoreInv, TypeOK, Certify
  <1>2. PICK a \in caller[c].left :
            /\ asset' = [asset EXCEPT ![i][a] = "CERTIFIED"]
            /\ IF caller[c].left = {a}
               THEN Proceed(c, "certification")
               ELSE Go(c, [caller[c] EXCEPT !.left = @ \ {a}])
    BY <1>0 DEF Certify
  <1>3. a \in Assets
    BY <1>1 DEF CallerState
  <1>4. /\ \A k \in Incidents \ {i} : asset'[k] = asset[k]
        /\ asset'[i][a] = "CERTIFIED"
        /\ \A b \in Assets \ {a} : asset'[i][b] = asset[i][b]
    BY <1>1, <1>2, <1>3
  <1>5. /\ caller'[c].on = i
        /\ \A d \in Callers : d # c => caller'[d] = caller[d]
        /\ \/ /\ caller[c].left = {a}
              /\ caller'[c].step = "certification"
              /\ caller'[c].read = "UNREAD"
           \/ /\ caller'[c].step = "certify"
              /\ caller'[c].left = caller[c].left \ {a}
              /\ caller'[c].read = caller[c].read
              /\ caller'[c].outcome = caller[c].outcome
    <2>1. CASE caller[c].left = {a}
      <3>1. Proceed(c, "certification") /\ "certification" \in Steps
        BY <1>2, <2>1 DEF Steps, Writes
      <3> QED
        BY <1>0, <1>1, <2>1, <3>1, ProceedState
    <2>2. CASE caller[c].left # {a}
      <3> DEFINE state == [caller[c] EXCEPT !.left = @ \ {a}]
      <3>1. Go(c, state)
        BY <1>2, <2>2
      <3>2. /\ state \in CallerState
            /\ state.step = "certify"
            /\ state.on = i
            /\ state.left = caller[c].left \ {a}
            /\ state.read = caller[c].read
            /\ state.outcome = caller[c].outcome
        BY <1>0, <1>1 DEF CallerState
      <3> HIDE DEF state
      <3> QED
        BY <1>1, <3>1, <3>2, GoState
    <2> QED
      BY <2>1, <2>2
  <1>6. ReadAllows'
    BY <1>5, KeptReads DEF RemediationInv, States, Terminal, Underway
  <1>7. torn'[i] \/ InStep(i)'
    <2> SUFFICES ASSUME ~torn'[i] PROVE InStep(i)'
      OBVIOUS
    <2>1. InStep(i)
      BY <1>1 DEF RemediationInv
    <2>2. Concludes(c, i)
      BY <1>0, <1>1 DEF Concludes, ConclusionSteps, FoundBy
    <2>3. RowInStep(i) /\ CallerInStep(c, i)
      BY <2>1, <2>2 DEF InStep
    <2>4. incident[i].state = "RECERTIFYING"
      BY <1>1, <2>3 DEF CallerInStep, FoundBy
    <2>5. \A b \in Assets \ (caller[c].left \ {a}) : asset'[i][b] = "CERTIFIED"
      BY <1>1, <1>4, <2>3 DEF CallerInStep
    <2>6. RowInStep(i)'
      BY <1>1, <2>3, <2>4 DEF RowInStep, EarlyStates
    <2>7. CallerInStep(c, i)'
      <3>1. CASE caller'[c].step = "certification"
        <4>1. caller[c].left = {a} /\ caller'[c].read = "UNREAD"
          BY <1>5, <3>1
        <4> QED
          BY <1>1, <2>4, <2>5, <3>1, <4>1 DEF CallerInStep, FoundBy
      <3>2. CASE caller'[c].step = "certify"
        <4>1. /\ caller'[c].left = caller[c].left \ {a}
              /\ caller'[c].read = caller[c].read
              /\ caller'[c].outcome = caller[c].outcome
          BY <1>5, <3>2
        <4> QED
          BY <1>1, <2>3, <2>4, <2>5, <3>2, <4>1 DEF CallerInStep, FoundBy
      <3> QED
        BY <1>5, <3>1, <3>2
    <2> QED
      BY <1>5, <2>1, <2>2, <2>6, <2>7, SoleConclusion, SoleInStep
  <1> QED
    BY <1>1, <1>4, <1>5, <1>6, <1>7, OwnIncidentStep

(* Every action, and every stutter, keeps the remediation in step.         *)
LEMMA RemediationNext == RemediationInv /\ [Next]_vars => RemediationInv'
  <1> SUFFICES ASSUME RemediationInv, [Next]_vars PROVE RemediationInv'
    OBVIOUS
  <1>1. CoreInv'
    BY Step DEF RemediationInv
  <1>2. CASE UNCHANGED vars
    BY <1>1, <1>2 DEF vars, RemediationInv, ReadAllows, InStep, RowInStep, CallerInStep, Concludes
  <1>3. ASSUME NEW c \in Callers, Open(c) PROVE RemediationInv'
    BY <1>1, <1>3, RemediationOpen
  <1>4. ASSUME NEW c \in Callers, BeginApproval(c) \/ BeginRejection(c) \/ BeginExecution(c)
        PROVE  RemediationInv'
    BY <1>1, <1>4, RemediationBegin
  <1>5. ASSUME NEW c \in Callers, Interrupt(c) \/ TransitionRefused(c) PROVE RemediationInv'
    BY <1>1, <1>5, RemediationRest DEF Interrupt, TransitionRefused
  <1>6. ASSUME NEW c \in Callers, Continue(c) PROVE RemediationInv'
    BY <1>1, <1>5, <1>6, RemediationTransitionRead, RemediationTransitionWrite, RemediationTriage,
       RemediationPlan, RemediationOutcomeRead, RemediationOutcomeWrite, RemediationCertify DEF Continue
  <1> QED
    BY <1>2, <1>3, <1>4, <1>5, <1>6 DEF Next

(* The inductive invariant holds of every behaviour.                       *)
THEOREM RemediationInvariant == Spec => []RemediationInv
  <1> QED
    BY RemediationInit, RemediationNext, PTL DEF Spec

(* execute_approved and transition: of the execute requests that pass the  *)
(* first check one starts the remediation, unless a state was overwritten. *)
THEOREM RemediatesOnce == Spec => []RemediatesOnceUnlessTorn
  <1>1. RemediationInv => RemediatesOnceUnlessTorn
    BY DEF RemediationInv, CoreInv, TypeOK, InStep, RowInStep, RemediatesOnceUnlessTorn
  <1> QED
    BY <1>1, RemediationInvariant, PTL

(* reject: nothing of a rejected incident is verified or certified, unless *)
(* a state was overwritten unread.                                         *)
THEOREM RejectedUncertified == Spec => []RejectedIsUncertifiedUnlessTorn
  <1>1. RemediationInv => RejectedIsUncertifiedUnlessTorn
    BY DEF RemediationInv, InStep, RowInStep, RejectedIsUncertifiedUnlessTorn
  <1> QED
    BY <1>1, RemediationInvariant, PTL

(* execute_approved, interruptions included: RESOLVED means executed,      *)
(* verified and every target certified, unless a state was overwritten.    *)
THEOREM ResolvedRecertified == Spec => []ResolvedIsRecertifiedUnlessTorn
  <1>1. ASSUME RemediationInv PROVE ResolvedIsRecertifiedUnlessTorn
    <2> SUFFICES ASSUME NEW i \in Incidents, incident[i].state = "RESOLVED", ~torn[i]
                 PROVE  /\ incident[i].outcome = [execution |-> TRUE, verification |-> "PASS",
                                                  certification |-> "CERTIFIED"]
                        /\ \A a \in Assets : asset[i][a] = "CERTIFIED"
      BY DEF ResolvedIsRecertifiedUnlessTorn
    <2>1. RowInStep(i) /\ incident[i].outcome \in Outcome
      BY <1>1 DEF RemediationInv, CoreInv, TypeOK, Row, InStep
    <2>2. /\ incident[i].outcome.execution
          /\ incident[i].outcome.verification = "PASS"
          /\ incident[i].outcome.certification = "CERTIFIED"
          /\ \A a \in Assets : asset[i][a] = "CERTIFIED"
      BY <2>1 DEF RowInStep
    <2>3. incident[i].outcome.execution = TRUE
      BY ONLY <2>1, <2>2, Zenon DEF Outcome
    <2> QED
      BY <2>1, <2>2, <2>3 DEF Outcome
  <1> QED
    BY <1>1, RemediationInvariant, PTL
=============================================================================
