------------------------- MODULE IncidentRemediation -------------------------
(***************************************************************************)
(* The incident control plane of agents/supervisor.py over the store of    *)
(* agents/store.py: investigation, human approval or rejection, and the    *)
(* execution, verification and recertification of an approved remediation. *)
(*                                                                         *)
(* A caller is a thread that serves one request at a time (the routes of   *)
(* api/app.py run in a thread pool over one shared store; the CLI and      *)
(* agent_recovery_execute open a store of their own on the same file).     *)
(* transition() and update_outcome() read the incident without the lock    *)
(* and write under it, so each is a read step and a write step.            *)
(*                                                                         *)
(* An investigation is the only writer of its incident until the incident  *)
(* awaits approval, and the outcome columns it fills are not modelled.     *)
(***************************************************************************)
EXTENDS Naturals

CONSTANTS
    Incidents,
    Assets,       \* certification targets of the selective recovery plan
    Affected,     \* the scenario's affected asset, the first target
    Callers,
    Sound,        \* incidents whose scenario passes its recheck (after_fix)
    MaxInterrupts \* bound: callers that die or raise in the middle of a request

ASSUME TargetsAssumption == Affected \in Assets
ASSUME SoundAssumption == Sound \subseteq Incidents
ASSUME InterruptsAssumption == MaxInterrupts \in Nat

VARIABLES
    incident,   \* incidents and remediation_plans
    asset,      \* asset_certifications: the latest status of each asset
    caller,     \* the request each caller is serving
    ran,        \* history: remediations started
    torn,       \* history: incidents whose state was overwritten unread
    interrupts  \* bound used so far

vars == <<incident, asset, caller, ran, torn, interrupts>>

-----------------------------------------------------------------------------

Terminal == {"RESOLVED", "BLOCKED", "FAILED"}

Underway == {"REMEDIATING", "VERIFYING", "RECERTIFYING"}

States == Terminal \cup Underway \cup
    {"DETECTED", "INVESTIGATING", "EVIDENCE_COLLECTION", "RCA", "IMPACT_ANALYSIS",
     "REMEDIATION_PROPOSED", "AWAITING_APPROVAL"}

(* The state the happy path goes to next.                                  *)
Forward ==
    [DETECTED |-> "INVESTIGATING", INVESTIGATING |-> "EVIDENCE_COLLECTION",
     EVIDENCE_COLLECTION |-> "RCA", RCA |-> "IMPACT_ANALYSIS",
     IMPACT_ANALYSIS |-> "REMEDIATION_PROPOSED", REMEDIATION_PROPOSED |-> "AWAITING_APPROVAL",
     AWAITING_APPROVAL |-> "REMEDIATING", REMEDIATING |-> "VERIFYING",
     VERIFYING |-> "RECERTIFYING", RECERTIFYING |-> "RESOLVED"]

(* Variants of the table: no way out of RECERTIFYING, a state that may be  *)
(* entered again, and BLOCKED reachable from everywhere.                   *)
AllowedNoWayOut(s) ==
    IF s \in Terminal \cup {"RECERTIFYING"} THEN {} ELSE {Forward[s], "FAILED", "BLOCKED"}

AllowedAgain(s) == IF s \in Terminal THEN {} ELSE {s, Forward[s], "FAILED", "BLOCKED"}

AllowedBlockedLate(s) == IF s \in Terminal THEN {} ELSE {Forward[s], "FAILED", "BLOCKED"}

(* _ALLOWED.                                                               *)
Allowed(s) ==
    IF s \in Terminal THEN {}
    ELSE {Forward[s], "FAILED"}
            \cup (IF s \in {"VERIFYING", "RECERTIFYING"} THEN {} ELSE {"BLOCKED"})

Outcome == [execution : BOOLEAN, verification : {"NONE", "PASS", "FAIL"},
            certification : {"FAILED", "CERTIFIED"}]

NoOutcome == [execution |-> FALSE, verification |-> "NONE", certification |-> "FAILED"]

Row == [state : States \cup {"ABSENT"}, plan : {"NONE", "PROPOSED", "APPROVED"},
        approved : BOOLEAN, outcome : Outcome]

NoRow == [state |-> "ABSENT", plan |-> "NONE", approved |-> FALSE, outcome |-> NoOutcome]

(* What a caller does next: enter a state, or one of the other writes.     *)
Writes == {"triage", "propose", "approve", "execution", "verification", "certify", "certification"}
Steps == States \cup Writes \cup {"idle", "execute"}

(* A caller's step, its incident, whether it goes on to execute once it    *)
(* has approved, the state and outcome its last read returned ("UNREAD"    *)
(* before the read), and the assets it has still to certify.               *)
CallerState == [step : Steps, on : Incidents \cup {"none"}, onward : BOOLEAN,
                read : States \cup {"UNREAD", "READ"}, outcome : Outcome, left : SUBSET Assets]

Idle == [step |-> "idle", on |-> "none", onward |-> FALSE,
         read |-> "UNREAD", outcome |-> NoOutcome, left |-> {}]

Go(c, state) == caller' = [caller EXCEPT ![c] = state]

(* The caller's next step, with nothing read for it yet.                   *)
Proceed(c, step) ==
    Go(c, [Idle EXCEPT !.step = step, !.on = caller[c].on, !.onward = caller[c].onward])

Serve(c, i, step, onward) ==
    Go(c, [Idle EXCEPT !.step = step, !.on = i, !.onward = onward])

Init ==
    /\ incident = [i \in Incidents |-> NoRow]
    /\ asset = [i \in Incidents |-> [a \in Assets |-> "NONE"]]
    /\ caller = [c \in Callers |-> Idle]
    /\ ran = [i \in Incidents |-> 0]
    /\ torn = [i \in Incidents |-> FALSE]
    /\ interrupts = 0

-----------------------------------------------------------------------------
(* transition(): the check against the state read, then the write.         *)

TransitionRead(c) ==
    LET state == incident[caller[c].on].state IN
    /\ caller[c].step \in States
    /\ caller[c].read = "UNREAD"
    /\ caller[c].step \in Allowed(state)
    /\ Go(c, [caller[c] EXCEPT !.read = state])
    /\ UNCHANGED <<incident, asset, ran, torn, interrupts>>

(* ValueError: the request ends where it is.                               *)
TransitionRefused(c) ==
    /\ caller[c].step \in States
    /\ caller[c].read = "UNREAD"
    /\ caller[c].step \notin Allowed(incident[caller[c].on].state)
    /\ Go(c, Idle)
    /\ UNCHANGED <<incident, asset, ran, torn, interrupts>>

(* Variant: recertification that certifies no asset.                       *)
AfterUncertified(state) ==
    CASE state \in Terminal \cup {"AWAITING_APPROVAL"} -> "idle"
      [] state = "REMEDIATION_PROPOSED" -> "propose"
      [] state = "REMEDIATING" -> "execution"
      [] state = "VERIFYING" -> "verification"
      [] state = "RECERTIFYING" -> "certification"
      [] OTHER -> Forward[state]

(* What the supervisor does once it has entered a state.                   *)
After(state) ==
    CASE state \in Terminal \cup {"AWAITING_APPROVAL"} -> "idle"
      [] state = "REMEDIATION_PROPOSED" -> "propose"
      [] state = "REMEDIATING" -> "execution"
      [] state = "VERIFYING" -> "verification"
      [] state = "RECERTIFYING" -> "certify"
      [] OTHER -> Forward[state]

TransitionWrite(c) ==
    LET i == caller[c].on
        target == caller[c].step
    IN
    /\ target \in States
    /\ caller[c].read # "UNREAD"
    /\ incident' = [incident EXCEPT ![i].state = target]
    /\ torn' = [torn EXCEPT ![i] = @ \/ caller[c].read # incident[i].state]
    /\ ran' = [ran EXCEPT ![i] = @ + (IF target = "REMEDIATING" THEN 1 ELSE 0)]
    /\ CASE After(target) = "idle" -> Go(c, Idle)
         [] After(target) = "certify" ->
               Go(c, [Idle EXCEPT !.step = "certify", !.on = i, !.left = Assets])
         [] OTHER -> Proceed(c, After(target))
    /\ UNCHANGED <<asset, interrupts>>

-----------------------------------------------------------------------------
(* investigate().                                                          *)

Open(c) ==
    /\ caller[c] = Idle
    /\ \E i \in Incidents :
          /\ incident[i].state = "ABSENT"
          /\ incident' = [incident EXCEPT ![i].state = "DETECTED"]
          /\ Serve(c, i, "triage", FALSE)
    /\ UNCHANGED <<asset, ran, torn, interrupts>>

(* The quality agent proves no anomaly, or the gate's failure is recorded. *)
Triage(c) ==
    /\ caller[c].step = "triage"
    /\ \/ /\ Proceed(c, "FAILED")
          /\ UNCHANGED asset
       \/ /\ Proceed(c, "INVESTIGATING")
          /\ asset' = [asset EXCEPT ![caller[c].on][Affected] = "FAILED"]
    /\ UNCHANGED <<incident, ran, torn, interrupts>>

(* save_remediation.                                                       *)
Propose(c) ==
    /\ caller[c].step = "propose"
    /\ incident' = [incident EXCEPT ![caller[c].on].plan = "PROPOSED"]
    /\ Proceed(c, "AWAITING_APPROVAL")
    /\ UNCHANGED <<asset, ran, torn, interrupts>>

-----------------------------------------------------------------------------
(* Approval, rejection and execution.  A request the first check refuses   *)
(* changes nothing.                                                        *)

Approvable(i) == incident[i].plan # "NONE" /\ incident[i].state = "AWAITING_APPROVAL"

(* approve, or approve_and_execute, or agent_recovery_execute on an        *)
(* incident it found not approved: the last two go on to execute.          *)
BeginApproval(c) ==
    /\ caller[c] = Idle
    /\ \E i \in Incidents, onward \in BOOLEAN :
          Approvable(i) /\ Serve(c, i, "approve", onward)
    /\ UNCHANGED <<incident, asset, ran, torn, interrupts>>

(* The two UPDATEs of store.approve name the plan and the incident only.   *)
ApproveWrite(c) ==
    /\ caller[c].step = "approve"
    /\ incident' = [incident EXCEPT ![caller[c].on].plan = "APPROVED",
                                    ![caller[c].on].approved = TRUE]
    /\ IF caller[c].onward THEN Proceed(c, "execute") ELSE Go(c, Idle)
    /\ UNCHANGED <<asset, ran, torn, interrupts>>

BeginRejection(c) ==
    /\ caller[c] = Idle
    /\ \E i \in Incidents :
          /\ incident[i].state = "AWAITING_APPROVAL"
          /\ Serve(c, i, "BLOCKED", FALSE)
    /\ UNCHANGED <<incident, asset, ran, torn, interrupts>>

(* Variant: an execution that asks for the state only.                     *)
ExecutableUnapproved(i) == incident[i].state = "AWAITING_APPROVAL"

Executable(i) == incident[i].state = "AWAITING_APPROVAL" /\ incident[i].approved

BeginExecution(c) ==
    /\ caller[c] = Idle
    /\ \E i \in Incidents : Executable(i) /\ Serve(c, i, "REMEDIATING", FALSE)
    /\ UNCHANGED <<incident, asset, ran, torn, interrupts>>

(* The same check after an approval of its own.                            *)
GoOnToExecute(c) ==
    /\ caller[c].step = "execute"
    /\ IF Executable(caller[c].on) THEN Proceed(c, "REMEDIATING") ELSE Go(c, Idle)
    /\ UNCHANGED <<incident, asset, ran, torn, interrupts>>

(* Variant: a failed verification that does not stop the recovery.         *)
OutcomeStepBlind(i, step, outcome) ==
    CASE step = "execution" -> [next |-> "VERIFYING", row |-> [outcome EXCEPT !.execution = TRUE]]
      [] step = "verification" ->
            [next |-> "RECERTIFYING",
             row |-> [outcome EXCEPT !.verification = IF i \in Sound THEN "PASS" ELSE "FAIL"]]
      [] step = "certification" ->
            [next |-> "RESOLVED", row |-> [outcome EXCEPT !.certification = "CERTIFIED"]]

(* What execute_approved passes to update_outcome, and what follows.       *)
OutcomeStep(i, step, outcome) ==
    CASE step = "execution" -> [next |-> "VERIFYING", row |-> [outcome EXCEPT !.execution = TRUE]]
      [] step = "verification" /\ i \in Sound ->
            [next |-> "RECERTIFYING", row |-> [outcome EXCEPT !.verification = "PASS"]]
      [] step = "verification" /\ i \notin Sound ->
            [next |-> "FAILED", row |-> [outcome EXCEPT !.verification = "FAIL"]]
      [] step = "certification" ->
            [next |-> "RESOLVED", row |-> [outcome EXCEPT !.certification = "CERTIFIED"]]

(* update_outcome reads every outcome column ...                           *)
OutcomeRead(c) ==
    /\ caller[c].step \in {"execution", "verification", "certification"}
    /\ caller[c].read = "UNREAD"
    /\ Go(c, [caller[c] EXCEPT !.read = "READ", !.outcome = incident[caller[c].on].outcome])
    /\ UNCHANGED <<incident, asset, ran, torn, interrupts>>

(* ... and writes every one back.                                          *)
OutcomeWrite(c) ==
    LET i == caller[c].on
        result == OutcomeStep(i, caller[c].step, caller[c].outcome)
    IN
    /\ caller[c].step \in {"execution", "verification", "certification"}
    /\ caller[c].read = "READ"
    /\ incident' = [incident EXCEPT ![i].outcome = result.row]
    /\ Proceed(c, result.next)
    /\ UNCHANGED <<asset, ran, torn, interrupts>>

(* save_certification, one asset after the other, the affected one first.  *)
Certify(c) ==
    /\ caller[c].step = "certify"
    /\ \E a \in caller[c].left :
          /\ Affected \in caller[c].left => a = Affected
          /\ asset' = [asset EXCEPT ![caller[c].on][a] = "CERTIFIED"]
          /\ IF caller[c].left = {a}
             THEN Proceed(c, "certification")
             ELSE Go(c, [caller[c] EXCEPT !.left = @ \ {a}])
    /\ UNCHANGED <<incident, ran, torn, interrupts>>

-----------------------------------------------------------------------------

(* The process dies, or an agent or the store raises: nothing is undone    *)
(* and nothing later takes the request up again.                           *)
Interrupt(c) ==
    /\ caller[c] # Idle
    /\ interrupts < MaxInterrupts
    /\ interrupts' = interrupts + 1
    /\ Go(c, Idle)
    /\ UNCHANGED <<incident, asset, ran, torn>>

(* A caller goes on with the request it serves.                            *)
Continue(c) ==
    \/ TransitionRead(c) \/ TransitionRefused(c) \/ TransitionWrite(c)
    \/ Triage(c) \/ Propose(c) \/ ApproveWrite(c) \/ GoOnToExecute(c)
    \/ OutcomeRead(c) \/ OutcomeWrite(c) \/ Certify(c)

Next ==
    \E c \in Callers : \/ Open(c) \/ BeginApproval(c) \/ BeginRejection(c) \/ BeginExecution(c)
                       \/ Continue(c) \/ Interrupt(c)

Spec == Init /\ [][Next]_vars

(* A request once begun runs on; nobody is obliged to begin one.           *)
LiveSpec == Spec /\ \A c \in Callers : WF_vars(Continue(c))

-----------------------------------------------------------------------------
(* Properties.                                                             *)

TypeOK ==
    /\ incident \in [Incidents -> Row]
    /\ asset \in [Incidents -> [Assets -> {"NONE", "FAILED", "CERTIFIED"}]]
    /\ caller \in [Callers -> CallerState]
    /\ ran \in [Incidents -> Nat]
    /\ torn \in [Incidents -> BOOLEAN]
    /\ interrupts \in 0..MaxInterrupts

(* Whatever requests overlap, a remediation is executed, verified or       *)
(* certified only under a persisted approval of its plan.                  *)
ExecutionIsApproved ==
    \A i \in Incidents :
        (incident[i].state \in Underway \cup {"RESOLVED"} \/ incident[i].outcome.execution \/ ran[i] > 0)
            => incident[i].approved /\ incident[i].plan = "APPROVED"

(* Whatever requests overlap, no asset of an incident whose recheck fails  *)
(* is certified, and such an incident is not resolved.                     *)
OnlyVerifiedIsCertified ==
    \A i \in Incidents \ Sound :
        /\ incident[i].state # "RESOLVED"
        /\ incident[i].outcome.certification = "FAILED"
        /\ \A a \in Assets : asset[i][a] # "CERTIFIED"

(* Two execute requests may both pass the first check; transition's own    *)
(* check lets one of them start, unless a state was overwritten unread.    *)
RemediatesOnceUnlessTorn ==
    \A i \in Incidents : ran[i] > 1 => torn[i]

(* Nothing of a rejected incident is verified or certified, unless a state *)
(* was overwritten unread.  It may have been executed: a reject whose      *)
(* first check is stale still finds REMEDIATING -> BLOCKED allowed.        *)
RejectedIsUncertifiedUnlessTorn ==
    \A i \in Incidents :
        (incident[i].state = "BLOCKED" /\ ~torn[i])
            => /\ incident[i].outcome.verification = "NONE"
               /\ \A a \in Assets : asset[i][a] # "CERTIFIED"

(* RESOLVED means executed once, verified, and every target certified,     *)
(* interruptions included, unless a state was overwritten unread.          *)
ResolvedIsRecertifiedUnlessTorn ==
    \A i \in Incidents :
        (incident[i].state = "RESOLVED" /\ ~torn[i])
            => /\ incident[i].outcome = [execution |-> TRUE, verification |-> "PASS",
                                         certification |-> "CERTIFIED"]
               /\ \A a \in Assets : asset[i][a] = "CERTIFIED"

(* Every remediation started concludes even when requests overwrite each   *)
(* other's states, unless a process was interrupted: the last writer can   *)
(* always go on, but nothing takes up what a dead process left.            *)
RemediationConcludes ==
    \A i \in Incidents :
        incident[i].state \in Underway
            ~> (incident[i].state \in Terminal \/ interrupts > 0)

(* docs/agent-runtime.md: BLOCKED and FAILED are terminal.  The code       *)
(* breaks this: an execute that has read AWAITING_APPROVAL overwrites the  *)
(* BLOCKED of a reject.                                                    *)
BlockedIsTerminal ==
    [][\A i \in Incidents :
          incident[i].state \in {"BLOCKED", "FAILED"} => incident'[i].state = incident[i].state]_vars
=============================================================================
