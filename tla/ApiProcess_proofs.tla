-------------------------- MODULE ApiProcess_proofs --------------------------
(***************************************************************************)
(* What the API process promises of its approvals and of the background    *)
(* jobs submitted under them, for any number of calls, jobs and approvals: *)
(* each half is proved on its own, and the process implements both.        *)
(***************************************************************************)
EXTENDS ApiProcess, TLAPS

-----------------------------------------------------------------------------
(* The gate.                                                               *)

(* A call that passed the gate, until it is answered under a used approval.*)
Passed == {c \in Calls : gate[c] \in {"cleared", "ran", "done"}}

(* An approval under which a call passed has a row, used once it is done.  *)
RowsUnderCalls ==
    \A c \in Passed :
        /\ under[c] \in Approvals
        /\ approval[under[c]] # NoRow
        /\ gate[c] = "done" => approval[under[c]].used

(* Calls that passed under one approval were underway at once.             *)
SharersOverlap ==
    \A c, d \in Passed : c # d /\ under[c] = under[d] => {c, d} \in overlaps

(* The inductive invariant of the approval gate.                           *)
GateInv == GateTypeOK /\ RowsUnderCalls /\ SharersOverlap

(* Rows are records of their own kind.                                     *)
LEMMA RowKinds == NoRow \notin Rows
BY DEF NoRow, Rows

(* A call passes.                                                          *)
LEMMA ResolveKeepsGate ==
    ASSUME GateInv, NEW c \in Calls, Resolve(c)
    PROVE  GateInv'
<1> USE DEF GateInv, GateTypeOK
<1>1. PICK a \in Approvals, scope \in Scopes :
          \/ /\ Authorizes(a, scope)
             /\ gate' = [gate EXCEPT ![c] = "cleared"]
             /\ under' = [under EXCEPT ![c] = a]
             /\ overlaps' = overlaps \cup {{c, d} : d \in Underway(a)}
          \/ /\ gate' = [gate EXCEPT ![c] = "refused"]
             /\ UNCHANGED <<under, overlaps>>
    BY DEF Resolve
<1>2. UNCHANGED <<approval, instant, gateCrashes, gateFaults>>
    BY DEF Resolve
<1>3. CASE gate' = [gate EXCEPT ![c] = "refused"] /\ UNCHANGED <<under, overlaps>>
    <2>1. GateTypeOK'
        BY <1>2, <1>3 DEF GateStates
    <2>2. Passed' \subseteq Passed /\ \A d \in Passed' : gate'[d] = gate[d]
        BY <1>3 DEF Passed
    <2> QED
        BY <1>2, <1>3, <2>1, <2>2 DEF RowsUnderCalls, SharersOverlap
<1>4. CASE /\ Authorizes(a, scope)
           /\ gate' = [gate EXCEPT ![c] = "cleared"]
           /\ under' = [under EXCEPT ![c] = a]
           /\ overlaps' = overlaps \cup {{c, d} : d \in Underway(a)}
    <2>1. GateTypeOK'
        BY <1>2, <1>4 DEF GateStates, Underway
    <2>2. gate'[c] = "cleared" /\ under'[c] = a
          /\ \A d \in Passed' \ {c} : d \in Passed /\ gate'[d] = gate[d] /\ under'[d] = under[d]
        BY <1>4 DEF Passed
    <2>3. approval[a] # NoRow /\ ~approval[a].used
        BY <1>4 DEF Authorizes
    <2>4. RowsUnderCalls'
        <3> SUFFICES ASSUME NEW d \in Passed'
                     PROVE  /\ under'[d] \in Approvals
                            /\ approval'[under'[d]] # NoRow
                            /\ gate'[d] = "done" => approval'[under'[d]].used
            BY DEF RowsUnderCalls
        <3>1. CASE d = c
            BY <1>2, <2>2, <2>3, <3>1
        <3>2. CASE d # c
            BY <1>2, <2>2, <3>2 DEF RowsUnderCalls
        <3> QED
            BY <3>1, <3>2
    <2>5. \A d \in Passed : under[d] = a => d \in Underway(a)
        BY <2>3 DEF RowsUnderCalls, Passed, Underway
    <2>6. \A d \in Passed : under[d] = a => {c, d} \in overlaps'
        BY <1>4, <2>5
    <2>7. overlaps \subseteq overlaps'
        BY <1>4
    <2>8. SharersOverlap'
        <3> SUFFICES ASSUME NEW d \in Passed', NEW e \in Passed', d # e, under'[d] = under'[e]
                     PROVE  {d, e} \in overlaps'
            BY DEF SharersOverlap
        <3>1. CASE d = c
            BY <2>2, <2>6, <3>1
        <3>2. CASE e = c
            <4>1. {c, d} \in overlaps'
                BY <2>2, <2>6, <3>2
            <4> QED
                BY <3>2, <4>1
        <3>3. CASE d # c /\ e # c
            BY <2>2, <2>7, <3>3 DEF SharersOverlap
        <3> QED
            BY <3>1, <3>2, <3>3
    <2> QED
        BY <2>1, <2>4, <2>8
<1> QED
    BY <1>1, <1>3, <1>4

(* The invocation and the approval are answered for.                       *)
LEMMA AnsweringKeepsGate ==
    ASSUME GateInv, NEW c \in Calls,
           Invoke(c) \/ InvokeRaises(c) \/ Consume(c) \/ ConsumeFails(c)
    PROVE  GateInv'
<1> USE DEF GateInv, GateTypeOK
<1>1. CASE Consume(c)
    <2>1. c \in Passed /\ under[c] \in Approvals /\ approval[under[c]] \in Rows
        BY <1>1 DEF Consume, RowsUnderCalls, Passed
    <2>2. UNCHANGED <<instant, under, overlaps, gateCrashes, gateFaults>>
          /\ gate' = [gate EXCEPT ![c] = "done"]
          /\ approval' = [approval EXCEPT ![under[c]].used = TRUE]
        BY <1>1 DEF Consume
    <2>3. [approval[under[c]] EXCEPT !.used = TRUE] \in Rows
        BY <2>1 DEF Rows
    <2>4. GateTypeOK'
        BY <2>1, <2>2, <2>3 DEF GateStates
    <2>5. Passed' = Passed
        BY <1>1, <2>2 DEF Consume, Passed
    <2>6. \A d \in Passed : gate'[d] = "done" => d = c \/ gate[d] = "done"
        BY <2>2 DEF Passed
    <2>7. approval'[under[c]].used /\ approval'[under[c]] # NoRow
        BY <2>1, <2>2, <2>3, RowKinds DEF Rows
    <2>8. \A a \in Approvals \ {under[c]} : approval'[a] = approval[a]
        BY <2>2
    <2>9. RowsUnderCalls'
        BY <2>2, <2>5, <2>6, <2>7, <2>8 DEF RowsUnderCalls
    <2> QED
        BY <2>2, <2>4, <2>5, <2>9 DEF SharersOverlap
<1>2. CASE Invoke(c) \/ InvokeRaises(c) \/ ConsumeFails(c)
    <2>1. UNCHANGED <<approval, instant, under, overlaps, gateCrashes>>
          /\ gateFaults' \in 0..MaxGateFaults
          /\ \E end \in {"ran", "failed", "lost"} : gate' = [gate EXCEPT ![c] = end]
        BY <1>2, GateBoundsAssumption DEF Invoke, InvokeRaises, ConsumeFails
    <2>2. GateTypeOK'
        BY <2>1 DEF GateStates
    <2>3. Passed' \subseteq Passed /\ \A d \in Passed' : gate'[d] = "done" => gate[d] = "done"
        BY <1>2 DEF Passed, Invoke, InvokeRaises, ConsumeFails
    <2> QED
        BY <2>1, <2>2, <2>3 DEF RowsUnderCalls, SharersOverlap
<1> QED
    BY <1>1, <1>2

(* Types, rows and overlaps, in every state of the gate.                   *)
THEOREM GateInvariant == GateSpec => []GateInv
<1>1. GateInit => GateInv
    BY GateBoundsAssumption
       DEF GateInit, GateInv, GateTypeOK, GateStates, RowsUnderCalls, SharersOverlap, Passed
<1>2. GateInv /\ [GateNext]_gateVars => GateInv'
    <2> SUFFICES ASSUME GateInv, [GateNext]_gateVars PROVE GateInv'
        OBVIOUS
    <2> USE DEF GateInv, GateTypeOK
    <2>1. ASSUME NEW a \in Approvals, Approve(a) PROVE GateInv'
        <3>1. PICK row \in Rows : approval' = [approval EXCEPT ![a] = row]
            <4>1. PICK scope \in Scopes, expires \in instant + 1..MaxInstant :
                      approval' = [approval EXCEPT ![a] =
                                      [scope |-> scope, expires |-> expires, used |-> FALSE]]
                BY <2>1 DEF Approve
            <4>2. [scope |-> scope, expires |-> expires, used |-> FALSE] \in Rows
                BY GateBoundsAssumption DEF Rows
            <4> QED
                BY <4>1, <4>2
        <3>2. UNCHANGED <<instant, gate, under, overlaps, gateCrashes, gateFaults>>
              /\ approval[a] = NoRow
            BY <2>1 DEF Approve
        <3>3. GateTypeOK' /\ Passed' = Passed
            BY <3>1, <3>2 DEF Passed
        <3> QED
            BY <3>1, <3>2, <3>3 DEF RowsUnderCalls, SharersOverlap
    <2>2. ASSUME NEW c \in Calls, Resolve(c) PROVE GateInv'
        BY <2>2, ResolveKeepsGate
    <2>3. ASSUME NEW c \in Calls, Invoke(c) \/ InvokeRaises(c) \/ Consume(c) \/ ConsumeFails(c)
          PROVE  GateInv'
        BY <2>3, AnsweringKeepsGate
    <2>4. CASE Tick
        BY <2>4, GateBoundsAssumption DEF Tick, RowsUnderCalls, SharersOverlap, Passed
    <2>5. CASE GateCrash
        <3>1. Passed' \subseteq Passed /\ \A d \in Passed' : gate'[d] = "done" /\ gate[d] = "done"
            BY <2>5 DEF GateCrash, Passed
        <3>2. GateTypeOK'
            BY <2>5, GateBoundsAssumption DEF GateCrash, GateStates
        <3> QED
            BY <2>5, <3>1, <3>2 DEF GateCrash, RowsUnderCalls, SharersOverlap
    <2>6. CASE UNCHANGED gateVars
        BY <2>6 DEF gateVars, RowsUnderCalls, SharersOverlap, Passed
    <2> QED
        BY <2>1, <2>2, <2>3, <2>4, <2>5, <2>6 DEF GateNext, GateStep
<1> QED
    BY <1>1, <1>2, PTL DEF GateSpec

(* Two calls answered under one approval were underway at once (api/app.py,*)
(* _resolve_server_approval and _invoke_tool_payload).                     *)
THEOREM SingleUse == GateSpec => []SingleUseUnlessOverlap
<1>1. GateInv => SingleUseUnlessOverlap
    BY DEF GateInv, SharersOverlap, SingleUseUnlessOverlap, Passed
<1> QED
    BY <1>1, GateInvariant, PTL

-----------------------------------------------------------------------------
(* The jobs.                                                               *)

(* A job whose future waits, or is not there yet, was not called.          *)
WaitingIsQueued ==
    \A j \in Jobs :
        /\ handler[j] \in {"idle", "making", "holding", "inserted"} =>
               future[j] = "NONE" /\ j \notin called
        /\ handler[j] = "inserted" => jobRow[j] = "QUEUED"
        /\ future[j] = "PENDING" => jobRow[j] = "QUEUED" /\ j \notin called

(* A lookup that has cancelled a future is known to have stopped its job.  *)
CancelledIsStopped ==
    \A l \in Lookups : handler[l] = "cancelled" => cancelling[l] \in stopped

(* A cancelled job: its future, its request and its row.                   *)
StoppedStays ==
    \A j \in Jobs :
        /\ future[j] = "CANCELLED" => j \in stopped
        /\ j \in stopped =>
               /\ future[j] \in {"CANCELLED", "NONE"}
               /\ handler[j] \in {"answered", "over"}
               /\ j \notin called
               /\ jobRow[j] \in {"QUEUED", "CANCELLED"}

(* The inductive invariant of the jobs.                                    *)
JobInv == JobTypeOK /\ WaitingIsQueued /\ CancelledIsStopped /\ StoppedStays

(* Requests that list, show or cancel jobs are not those that submit them. *)
LEMMA LookupsAreOthers == \A j \in Jobs, l \in Lookups : j # l
BY JobsAssumption DEF Threads

(* _job_engine, and a failure in it or right after it, by any request.     *)
LEMMA RequestKeepsJobs ==
    ASSUME JobInv, NEW t \in Threads, FindEngine(t) \/ MakeEngine(t) \/ RequestFails(t)
    PROVE  JobInv'
<1> USE DEF JobInv, JobTypeOK, WaitingIsQueued, CancelledIsStopped, StoppedStays, jobHistory
<1>1. UNCHANGED <<jobRow, future, cancelling, called, stopped, refused, jobCrashes>>
    BY DEF FindEngine, MakeEngine, RequestFails
<1>2. PICK to \in {"making", "holding", "over"} : handler' = [handler EXCEPT ![t] = to]
    BY DEF FindEngine, MakeEngine, RequestFails
<1>3. handler[t] \in {"idle", "making", "holding"}
    BY DEF FindEngine, MakeEngine, RequestFails
<1>4. JobTypeOK'
    <2>1. MadeBeside(t) \subseteq Threads
        BY DEF MadeBeside
    <2>2. raced' \subseteq Threads /\ engine' \in [Threads -> Threads \cup {"NONE"}]
          /\ registry' \in Threads \cup {"NONE"} /\ jobFaults' \in 0..MaxJobFaults
        BY <2>1, JobBoundsAssumption DEF FindEngine, MakeEngine, RequestFails, JobFault
    <2>3. handler' \in [Threads -> SubmitStates \cup LookupStates]
          /\ (\A j \in Jobs : handler'[j] \in SubmitStates)
          /\ (\A l \in Lookups : handler'[l] \in LookupStates)
        BY <1>2 DEF SubmitStates, LookupStates, Threads
    <2> QED
        BY <1>1, <2>2, <2>3
<1>5. \A u \in Threads \ {t} : handler'[u] = handler[u]
    BY <1>2
<1>6. handler'[t] \in {"making", "holding", "over"}
    BY <1>2
<1>7. t \in Jobs => future[t] = "NONE" /\ t \notin called /\ t \notin stopped
    BY <1>3
<1> QED
    BY <1>1, <1>4, <1>5, <1>6, <1>7 DEF Threads

(* The steps of submit().                                                  *)
LEMMA SubmitKeepsJobs ==
    ASSUME JobInv, NEW j \in Jobs, InsertRow(j) \/ Enqueue(j) \/ EnterFuture(j)
    PROVE  JobInv'
<1> USE LookupsAreOthers DEF JobInv, JobTypeOK, WaitingIsQueued, CancelledIsStopped, StoppedStays, jobHistory,
                             Threads
<1>1. CASE InsertRow(j)
    BY <1>1 DEF InsertRow, SubmitStates, RowStates
<1>2. CASE Enqueue(j)
    BY <1>2 DEF Enqueue, SubmitStates, FutureStates
<1>3. CASE EnterFuture(j)
    BY <1>3 DEF EnterFuture, SubmitStates
<1> QED
    BY <1>1, <1>2, <1>3

(* The steps of a pool thread.                                             *)
LEMMA RunKeepsJobs ==
    ASSUME JobInv, NEW j \in Jobs, Background(j)
    PROVE  JobInv'
<1> USE DEF JobInv, JobTypeOK, WaitingIsQueued, CancelledIsStopped, StoppedStays, JobFault,
            RunnerMoves, FutureStates, Running
<1>1. CASE Take(j)
    BY <1>1 DEF Take
<1>2. CASE MarkRunning(j)
    BY <1>2 DEF MarkRunning, RowStates
<1>3. CASE CallTool(j)
    BY <1>3 DEF CallTool
<1>4. CASE RecordSuccess(j) \/ RecordFailure(j)
    BY <1>4 DEF RecordSuccess, RecordFailure, RowStates
<1>5. CASE RecordRaises(j)
    BY <1>5 DEF RecordRaises
<1>6. CASE MarkFails(j) \/ RecordFails(j)
    BY <1>6, JobBoundsAssumption DEF MarkFails, RecordFails
<1> QED
    BY <1>1, <1>2, <1>3, <1>4, <1>5, <1>6 DEF Background, Run

(* The steps of job_list, job_show and job_cancel on their engine.         *)
LEMMA LookupKeepsJobs ==
    ASSUME JobInv, NEW l \in Lookups,
           \/ Show(l) \/ RecordCancelled(l) \/ RecordCancelledFails(l)
           \/ \E j \in Jobs : CancelFuture(l, j) \/ RefuseCancel(l, j)
    PROVE  JobInv'
<1> USE LookupsAreOthers DEF JobInv, JobTypeOK, WaitingIsQueued, CancelledIsStopped, StoppedStays,
                             jobHistory, Threads
<1>1. ASSUME NEW j \in Jobs, CancelFuture(l, j) PROVE JobInv'
    BY <1>1 DEF CancelFuture, Cancellable, FutureStates, LookupStates
<1>2. ASSUME NEW j \in Jobs, RefuseCancel(l, j) PROVE JobInv'
    BY <1>2 DEF RefuseCancel, LookupStates
<1>3. CASE RecordCancelled(l)
    <2>1. cancelling[l] \in stopped /\ cancelling[l] \in Jobs
        BY <1>3 DEF RecordCancelled
    <2> QED
        BY <1>3, <2>1 DEF RecordCancelled, RowStates, LookupStates
<1>4. CASE RecordCancelledFails(l)
    BY <1>4, JobBoundsAssumption DEF RecordCancelledFails, JobFault, LookupStates
<1>5. CASE Show(l)
    BY <1>5 DEF Show, LookupStates
<1> QED
    BY <1>1, <1>2, <1>3, <1>4, <1>5

(* Rows, futures and cancellations, in every state of the jobs.            *)
THEOREM JobInvariant == JobSpec => []JobInv
<1>1. JobInit => JobInv
    BY JobBoundsAssumption
       DEF JobInit, JobInv, JobTypeOK, WaitingIsQueued, CancelledIsStopped, StoppedStays, RowStates,
           FutureStates, SubmitStates, LookupStates, Threads
<1>2. JobInv /\ [JobNext]_jobVars => JobInv'
    <2> SUFFICES ASSUME JobInv, [JobNext]_jobVars PROVE JobInv'
        OBVIOUS
    <2>1. ASSUME NEW j \in Jobs, Submit(j) \/ RequestFails(j) \/ Background(j) PROVE JobInv'
        BY <2>1, RequestKeepsJobs, SubmitKeepsJobs, RunKeepsJobs DEF Submit, Threads
    <2>2. ASSUME NEW l \in Lookups, Lookup(l) PROVE JobInv'
        BY <2>2, RequestKeepsJobs, LookupKeepsJobs DEF Lookup, Threads
    <2>3. CASE JobCrash
        BY <2>3, JobBoundsAssumption
           DEF JobCrash, JobInv, JobTypeOK, WaitingIsQueued, CancelledIsStopped, StoppedStays,
               jobHistory, FutureStates, SubmitStates, LookupStates, Threads
    <2>4. CASE UNCHANGED jobVars
        BY <2>4 DEF jobVars, JobInv, JobTypeOK, WaitingIsQueued, CancelledIsStopped, StoppedStays
    <2> QED
        BY <2>1, <2>2, <2>3, <2>4 DEF JobNext
<1> QED
    BY <1>1, <1>2, PTL DEF JobSpec

(* A job whose cancellation was answered True is never called, before or   *)
(* after a restart (jobs/engine.py, cancel and runner).                    *)
THEOREM CancelledNeverRuns == JobSpec => []StoppedNeverRuns
<1>1. JobInv => StoppedNeverRuns
    BY DEF JobInv, JobTypeOK, StoppedStays, StoppedNeverRuns
<1> QED
    BY <1>1, JobInvariant, PTL

(* Engines made side by side are known to be: of the requests that find no *)
(* engine all but a lone one, with what is in the registry while one is    *)
(* still making its own.                                                   *)
MakersAreRaced ==
    /\ \A t, u \in Threads : handler[t] = "making" /\ handler[u] = "making" /\ t # u => t \in raced
    /\ \A t \in Threads : handler[t] = "making" /\ registry # "NONE" => {t, registry} \subseteq raced

(* A request that has its engine has that of the registry, or both are     *)
(* raced.                                                                  *)
HeldEngines ==
    \A t \in Threads :
        handler[t] \notin {"idle", "making", "over"} =>
            registry # "NONE" /\ (engine[t] = registry \/ {engine[t], registry} \subseteq raced)

(* A job that was refused its cancellation after it was answered: its      *)
(* engine is one that was made beside another.                             *)
RefusedWithEngine ==
    \A r \in refused :
        r[2] = "enqueued" \/ (handler[r[1]] \in {"answered", "over"} /\ engine[r[1]] \in raced)

(* A row comes after the engine, and a waiting future after the row.       *)
RowsHaveEngines ==
    \A j \in Jobs :
        /\ jobRow[j] # "NONE" => handler[j] \notin {"idle", "making", "holding"}
        /\ future[j] = "PENDING" => handler[j] \in {"enqueued", "answered"}

(* What is known of the engines of the process.                            *)
EngineInv == MakersAreRaced /\ HeldEngines /\ RefusedWithEngine /\ RowsHaveEngines

(* What making an engine beside others adds to the raced ones.             *)
LEMMA MadeBesideOthers ==
    ASSUME NEW t \in Threads
    PROVE  /\ raced \subseteq MadeBeside(t)
           /\ \A u \in Threads \ {t} :
                 handler[u] = "making" => t \in MadeBeside(t) /\ u \in MadeBeside(t)
BY DEF MadeBeside

(* While an engine looked up is being made, another may be registered: the *)
(* engines of both are raced.                                              *)
LEMMA RequestKeepsEngines ==
    ASSUME JobInv, EngineInv, NEW t \in Threads, FindEngine(t) \/ MakeEngine(t) \/ RequestFails(t)
    PROVE  EngineInv'
<1> USE DEF JobInv, JobTypeOK, EngineInv, MakersAreRaced, HeldEngines, RefusedWithEngine, RowsHaveEngines
<1>1. CASE FindEngine(t)
    <2>1. handler[t] = "idle" /\ UNCHANGED <<registry, refused, jobRow, future>>
        BY <1>1 DEF FindEngine
    <2>2. CASE registry = "NONE" /\ handler' = [handler EXCEPT ![t] = "making"]
        <3>1. raced' = MadeBeside(t) /\ UNCHANGED engine
            BY <1>1, <2>2, JobsAssumption DEF FindEngine
        <3>2. raced \subseteq raced' /\ \A u \in Threads \ {t} : handler[u] = "making" => {t, u} \subseteq raced'
            BY <3>1, MadeBesideOthers
        <3>3. MakersAreRaced'
            BY <2>1, <2>2, <3>2
        <3>4. HeldEngines'
            BY <2>1, <2>2, <3>1, <3>2
        <3>5. RefusedWithEngine' /\ RowsHaveEngines'
            BY <2>1, <2>2, <3>1, <3>2 DEF Threads
        <3> QED
            BY <3>3, <3>4, <3>5
    <2>3. CASE /\ registry # "NONE"
               /\ handler' = [handler EXCEPT ![t] = "holding"]
               /\ engine' = [engine EXCEPT ![t] = registry]
               /\ UNCHANGED raced
        BY <2>1, <2>3 DEF Threads
    <2> QED
        BY <1>1, <2>2, <2>3 DEF FindEngine
<1>2. CASE MakeEngine(t)
    <2>1. t # "NONE"
        BY JobsAssumption
    <2>2. /\ handler[t] = "making"
          /\ handler' = [handler EXCEPT ![t] = "holding"]
          /\ engine' = [engine EXCEPT ![t] = t]
          /\ registry' = t
          /\ UNCHANGED <<raced, refused, jobRow, future>>
        BY <1>2 DEF MakeEngine, jobHistory
    <2>3. MakersAreRaced'
        BY <2>1, <2>2
    <2>4. HeldEngines'
        BY <2>1, <2>2
    <2>5. RefusedWithEngine' /\ RowsHaveEngines'
        BY <2>2 DEF Threads
    <2> QED
        BY <2>3, <2>4, <2>5
<1>3. CASE RequestFails(t)
    <2>1. /\ handler[t] \in {"making", "holding"}
          /\ handler' = [handler EXCEPT ![t] = "over"]
          /\ UNCHANGED <<registry, engine, raced, refused, jobRow, future>>
        BY <1>3 DEF RequestFails, jobHistory
    <2> QED
        BY <2>1 DEF Threads
<1> QED
    BY <1>1, <1>2, <1>3

(* The steps of submit().                                                  *)
LEMMA SubmitKeepsEngines ==
    ASSUME JobInv, EngineInv, NEW j \in Jobs, InsertRow(j) \/ Enqueue(j) \/ EnterFuture(j)
    PROVE  EngineInv'
BY DEF JobInv, JobTypeOK, EngineInv, MakersAreRaced, HeldEngines, RefusedWithEngine, RowsHaveEngines,
       InsertRow, Enqueue, EnterFuture, jobHistory, Threads, WaitingIsQueued

(* The steps of a pool thread.                                             *)
LEMMA RunKeepsEngines ==
    ASSUME JobInv, EngineInv, NEW j \in Jobs, Background(j)
    PROVE  EngineInv'
<1> USE DEF JobInv, JobTypeOK, EngineInv, MakersAreRaced, HeldEngines, RefusedWithEngine,
            RowsHaveEngines, Background, Run, Take, MarkRunning, CallTool, RecordSuccess,
            RecordRaises, RecordFailure, MarkFails, RecordFails, RunnerMoves
<1>1. UNCHANGED <<handler, engine, registry, refused, raced>>
    OBVIOUS
<1>2. /\ \A k \in Jobs \ {j} : jobRow'[k] = jobRow[k] /\ future'[k] = future[k]
      /\ future[j] # "NONE" /\ future'[j] # "PENDING"
    OBVIOUS
<1>3. RowsHaveEngines'
    BY <1>1, <1>2 DEF WaitingIsQueued
<1> QED
    BY <1>1, <1>3

(* The steps of job_list, job_show and job_cancel on their engine.  A      *)
(* refusal of an answered, waiting job tells of two engines, one of which  *)
(* at least is not in the registry.                                        *)
LEMMA LookupKeepsEngines ==
    ASSUME JobInv, EngineInv, NEW l \in Lookups,
           \/ Show(l) \/ RecordCancelled(l) \/ RecordCancelledFails(l)
           \/ \E j \in Jobs : CancelFuture(l, j) \/ RefuseCancel(l, j)
    PROVE  EngineInv'
<1> USE LookupsAreOthers DEF JobInv, JobTypeOK, EngineInv, MakersAreRaced, HeldEngines,
                             RefusedWithEngine, RowsHaveEngines, Threads
<1>1. ASSUME NEW j \in Jobs, RefuseCancel(l, j) PROVE EngineInv'
    <2>1. /\ handler[l] = "holding"
          /\ handler' = [handler EXCEPT ![l] = "over"]
          /\ UNCHANGED <<jobRow, future, engine, registry, raced>>
        BY <1>1 DEF RefuseCancel
    <2>2. \A r \in refused' \ refused :
              r = <<j, handler[j]>> /\ future[j] = "PENDING" /\ ~Cancellable(l, j)
        BY <1>1 DEF RefuseCancel
    <2>3. CASE future[j] = "PENDING" /\ ~Cancellable(l, j) /\ handler[j] = "answered"
        <3>1. engine[j] # engine[l]
            BY <2>3 DEF Cancellable
        <3>2. engine[j] \in raced
            BY <2>1, <2>3, <3>1
        <3> QED
            BY <2>1, <2>2, <2>3, <3>2
    <2>4. CASE ~(future[j] = "PENDING" /\ ~Cancellable(l, j) /\ handler[j] = "answered")
        BY <2>1, <2>2, <2>4
    <2> QED
        BY <2>3, <2>4
<1>2. ASSUME NEW j \in Jobs, CancelFuture(l, j) PROVE EngineInv'
    BY <1>2 DEF CancelFuture, Cancellable
<1>3. CASE RecordCancelled(l)
    <2>1. cancelling[l] \in Jobs /\ handler[cancelling[l]] \in {"answered", "over"}
        BY <1>3 DEF RecordCancelled, CancelledIsStopped, StoppedStays
    <2> QED
        BY <1>3, <2>1 DEF RecordCancelled, jobHistory
<1>4. CASE RecordCancelledFails(l) \/ Show(l)
    BY <1>4 DEF RecordCancelledFails, Show, jobHistory
<1> QED
    BY <1>1, <1>2, <1>3, <1>4

(* A waiting job is refused its cancellation only while its own request    *)
(* has not answered, or when its engine was made beside another, by a      *)
(* submission, a list or a cancellation (tools/builtin.py, _job_engine;    *)
(* jobs/engine.py, submit and cancel).                                     *)
THEOREM CancellationRefusedForCause == JobSpec => []RefusedForCause
<1>1. JobInit => EngineInv
    BY DEF JobInit, EngineInv, MakersAreRaced, HeldEngines, RefusedWithEngine, RowsHaveEngines, Threads
<1>2. JobInv /\ EngineInv /\ [JobNext]_jobVars => EngineInv'
    <2> SUFFICES ASSUME JobInv, EngineInv, [JobNext]_jobVars PROVE EngineInv'
        OBVIOUS
    <2>1. ASSUME NEW j \in Jobs, Submit(j) \/ RequestFails(j) \/ Background(j) PROVE EngineInv'
        BY <2>1, RequestKeepsEngines, SubmitKeepsEngines, RunKeepsEngines DEF Submit, Threads
    <2>2. ASSUME NEW l \in Lookups, Lookup(l) PROVE EngineInv'
        BY <2>2, RequestKeepsEngines, LookupKeepsEngines DEF Lookup, Threads
    <2>3. CASE JobCrash
        BY <2>3 DEF JobCrash, JobInv, JobTypeOK, EngineInv, MakersAreRaced, HeldEngines,
                    RefusedWithEngine, RowsHaveEngines, jobHistory, Threads
    <2>4. CASE UNCHANGED jobVars
        BY <2>4 DEF jobVars, EngineInv, MakersAreRaced, HeldEngines, RefusedWithEngine, RowsHaveEngines
    <2> QED
        BY <2>1, <2>2, <2>3, <2>4 DEF JobNext
<1>3. EngineInv => RefusedForCause
    BY DEF EngineInv, RefusedWithEngine, RefusedForCause
<1> QED
    BY <1>1, <1>2, <1>3, JobInvariant, PTL DEF JobSpec

-----------------------------------------------------------------------------
(* The composition.                                                        *)

(* The API process implements its gate: whatever the handler of job_submit *)
(* and the pool do between the steps of a call is a stutter of the gate.   *)
THEOREM ProcessImplementsGate == ApiSpec => GateSpec
<1>1. [ApiNext]_apiVars => [GateNext]_gateVars
    BY CallsAreJobs
       DEF ApiNext, apiVars, GateNext, ApiStep, Handle, Answer, HandlerRaises, Refuse, ApiCrash
<1> QED
    BY <1>1, PTL DEF ApiSpec, ApiInit, GateSpec

(* The API process implements its background jobs: a call submits its job  *)
(* only once it is cleared, and a crash takes request threads and pools.   *)
THEOREM ProcessImplementsJobs == ApiSpec => JobSpec
<1>1. [ApiNext]_apiVars => [JobNext]_jobVars
    BY DEF ApiNext, apiVars, JobNext, ApiStep, Handle, Answer, HandlerRaises, Refuse, ApiCrash,
           Submit
<1> QED
    BY <1>1, PTL DEF ApiSpec, ApiInit, JobSpec

(* What gate and jobs promise holds of the process.                        *)
THEOREM ProcessKeepsPromises ==
    ApiSpec => [](SingleUseUnlessOverlap /\ StoppedNeverRuns /\ RefusedForCause)
BY ProcessImplementsGate, ProcessImplementsJobs, SingleUse, CancelledNeverRuns,
   CancellationRefusedForCause, PTL

(* A job has a row only when its call passed the gate, under an approval   *)
(* that an administrator has given.                                        *)
JobsAreApproved ==
    \A j \in Jobs :
        jobRow[j] # "NONE" =>
            /\ gate[j] \notin {"idle", "refused"}
            /\ under[j] \in Approvals
            /\ approval[under[j]] # NoRow

(* Neither the request thread nor the row of a job is ahead of its call.   *)
CallsComeFirst ==
    \A j \in Jobs :
        /\ jobRow[j] # "NONE" => handler[j] # "idle"
        /\ handler[j] # "idle" => gate[j] \notin {"idle", "refused"}
        /\ gate[j] \notin {"idle", "refused"} =>
               under[j] \in Approvals /\ approval[under[j]] # NoRow

(* A step of the gate beside the jobs.                                     *)
LEMMA GateStepKeepsCalls ==
    ASSUME GateInv, CallsComeFirst, GateStep, UNCHANGED jobVars
    PROVE  CallsComeFirst'
<1> USE CallsAreJobs DEF CallsComeFirst, jobVars, GateInv, GateTypeOK
<1>1. ASSUME NEW a \in Approvals, Approve(a) PROVE CallsComeFirst'
    BY <1>1 DEF Approve, NoRow
<1>2. ASSUME NEW c \in Calls, Resolve(c) PROVE CallsComeFirst'
    BY <1>2 DEF Resolve, Authorizes
<1>3. ASSUME NEW c \in Calls, Consume(c) PROVE CallsComeFirst'
    <2>1. under[c] \in Approvals /\ approval[under[c]] \in Rows
        BY <1>3 DEF Consume, RowsUnderCalls, Passed
    <2>2. /\ UNCHANGED under /\ gate' = [gate EXCEPT ![c] = "done"] /\ gate[c] = "ran"
          /\ approval' = [approval EXCEPT ![under[c]].used = TRUE]
        BY <1>3 DEF Consume
    <2>3. [approval[under[c]] EXCEPT !.used = TRUE] \in Rows
        BY <2>1 DEF Rows
    <2>4. approval'[under[c]] # NoRow
        BY <2>1, <2>2, <2>3, RowKinds
    <2>5. \A a \in Approvals \ {under[c]} : approval'[a] = approval[a]
        BY <2>2
    <2>6. \A j \in Jobs : gate'[j] \in {"idle", "refused"} <=> gate[j] \in {"idle", "refused"}
        BY <2>2
    <2> QED
        BY <2>2, <2>4, <2>5, <2>6
<1>4. ASSUME NEW c \in Calls, ConsumeFails(c) PROVE CallsComeFirst'
    BY <1>4 DEF ConsumeFails
<1>5. CASE Tick
    BY <1>5 DEF Tick
<1> QED
    BY <1>1, <1>2, <1>3, <1>4, <1>5 DEF GateStep

(* A step of the request thread of a call, or its end.                     *)
LEMMA CallKeepsCalls ==
    ASSUME GateInv, JobInv, CallsComeFirst, NEW j \in Jobs,
           ApiStep(j) \/ HandlerRaises(j) \/ Refuse(j)
    PROVE  CallsComeFirst'
<1> USE CallsAreJobs DEF CallsComeFirst, GateInv, GateTypeOK, JobInv, JobTypeOK
<1>1. CASE Handle(j)
    BY <1>1 DEF Handle, FindEngine, MakeEngine, InsertRow, Enqueue, gateVars, Threads
<1>2. CASE Answer(j)
    BY <1>2 DEF Answer, EnterFuture, Invoke
<1>3. CASE HandlerRaises(j)
    BY <1>3 DEF HandlerRaises, RequestFails, InvokeRaises
<1>4. CASE Refuse(j)
    BY <1>4 DEF Refuse, InvokeRaises, jobVars
<1> QED
    BY <1>1, <1>2, <1>3, <1>4 DEF ApiStep

(* A step of a pool thread.                                                *)
LEMMA BackgroundKeepsCalls ==
    ASSUME JobInv, CallsComeFirst, NEW j \in Jobs, Background(j), UNCHANGED gateVars
    PROVE  CallsComeFirst'
<1> USE DEF CallsComeFirst, JobInv, JobTypeOK, gateVars, Background, Run, Take, MarkRunning,
            CallTool, RecordSuccess, RecordRaises, RecordFailure, MarkFails, RecordFails, RunnerMoves
<1>1. UNCHANGED handler
    OBVIOUS
<1>2. \A k \in Jobs \ {j} : jobRow'[k] = jobRow[k]
    OBVIOUS
<1>3. future[j] # "NONE"
    OBVIOUS
<1>4. handler[j] # "idle"
    BY <1>3 DEF WaitingIsQueued
<1> QED
    BY <1>1, <1>2, <1>4

(* A step of a request that lists, shows or cancels jobs.                  *)
LEMMA LookupKeepsCalls ==
    ASSUME JobInv, CallsComeFirst, NEW l \in Lookups, Lookup(l), UNCHANGED gateVars
    PROVE  CallsComeFirst'
<1> USE LookupsAreOthers DEF CallsComeFirst, JobInv, JobTypeOK, gateVars, Threads
<1>1. \A j \in Jobs : handler'[j] = handler[j]
    BY DEF Lookup, FindEngine, MakeEngine, RequestFails, Show, CancelFuture, RefuseCancel,
           RecordCancelled, RecordCancelledFails
<1>2. \A j \in Jobs : jobRow'[j] = jobRow[j] \/ handler[j] # "idle"
    <2>1. CASE RecordCancelled(l)
        BY <2>1 DEF RecordCancelled, CancelledIsStopped, StoppedStays
    <2>2. CASE ~RecordCancelled(l)
        BY <2>2 DEF Lookup, FindEngine, MakeEngine, RequestFails, Show, CancelFuture, RefuseCancel,
                    RecordCancelledFails
    <2> QED
        BY <2>1, <2>2
<1> QED
    BY <1>1, <1>2

(* No job is submitted by a call that the gate did not clear (api/app.py,  *)
(* _resolve_server_approval and _invoke_tool_payload).                     *)
THEOREM JobsUnderApproval == ApiSpec => []JobsAreApproved
<1>1. ApiInit => CallsComeFirst
    BY CallsAreJobs DEF ApiInit, GateInit, JobInit, CallsComeFirst, Threads
<1>2. GateInv /\ JobInv /\ CallsComeFirst /\ [ApiNext]_apiVars => CallsComeFirst'
    <2> SUFFICES ASSUME GateInv, JobInv, CallsComeFirst, [ApiNext]_apiVars PROVE CallsComeFirst'
        OBVIOUS
    <2>1. CASE GateStep /\ UNCHANGED jobVars
        BY <2>1, GateStepKeepsCalls
    <2>2. ASSUME NEW j \in Jobs, ApiStep(j) \/ HandlerRaises(j) \/ Refuse(j) PROVE CallsComeFirst'
        BY <2>2, CallKeepsCalls
    <2>3. ASSUME NEW j \in Jobs, Background(j), UNCHANGED gateVars PROVE CallsComeFirst'
        BY <2>3, BackgroundKeepsCalls
    <2>4. ASSUME NEW l \in Lookups, Lookup(l), UNCHANGED gateVars PROVE CallsComeFirst'
        BY <2>4, LookupKeepsCalls
    <2>5. CASE ApiCrash
        BY <2>5, CallsAreJobs
           DEF ApiCrash, GateCrash, JobCrash, CallsComeFirst, GateInv, GateTypeOK, JobInv, JobTypeOK,
               Threads
    <2>6. CASE UNCHANGED apiVars
        BY <2>6 DEF apiVars, gateVars, jobVars, CallsComeFirst
    <2> QED
        BY <2>1, <2>2, <2>3, <2>4, <2>5, <2>6 DEF ApiNext
<1>3. CallsComeFirst => JobsAreApproved
    BY DEF CallsComeFirst, JobsAreApproved
<1>4. ApiSpec => []GateInv /\ []JobInv
    BY ProcessImplementsGate, ProcessImplementsJobs, GateInvariant, JobInvariant, PTL
<1> QED
    BY <1>1, <1>2, <1>3, <1>4, PTL DEF ApiSpec
=============================================================================
