---------------------------- MODULE BackgroundJobs ----------------------------
(***************************************************************************)
(* The background jobs of jobs/engine.py and the handlers job_submit,      *)
(* job_list, job_show and job_cancel of tools/builtin.py.  A request       *)
(* thread writes a row and hands a closure to a thread pool; a pool thread *)
(* moves the row to RUNNING, calls the tool, and writes the verdict; other *)
(* request threads may cancel the future in the meantime.  Rows survive a  *)
(* crash of the process, futures do not, and nothing reads old rows at     *)
(* startup.                                                                *)
(*                                                                         *)
(* Every handler begins with _job_engine, which looks an engine up and, in *)
(* a step of its own, makes and registers one where it found none.  Each   *)
(* job is submitted by a request thread of its own, each listing, showing  *)
(* or cancellation is a request thread in Lookups, and an engine is named  *)
(* by the thread that made it.  All of them name one job_database.  The    *)
(* statements the engine runs under its lock, with their commit, are one   *)
(* step.  Which waiting job a free pool thread takes is left open.         *)
(***************************************************************************)
EXTENDS Naturals, FiniteSets

CONSTANTS
    Jobs,
    Lookups,       \* the requests that list, show or cancel jobs
    Workers,       \* max_workers of an engine
    MaxJobCrashes, \* bound: crashes of the process
    MaxJobFaults   \* bound: statements that fail (a locked or full database)

Threads == Jobs \cup Lookups

ASSUME JobsAssumption ==
    IsFiniteSet(Jobs) /\ Jobs \cap Lookups = {} /\ "NONE" \notin Threads
ASSUME JobBoundsAssumption ==
    Workers \in Nat \ {0} /\ MaxJobCrashes \in Nat /\ MaxJobFaults \in Nat

VARIABLES
    jobRow,     \* background_jobs: the status of the row of each job
    future,     \* the future of each job, with the steps of its runner
    handler,    \* where the handler of each request thread stands
    cancelling, \* the job whose future each lookup has just cancelled
    engine,     \* the engine each request thread holds
    registry,   \* _JOB_ENGINES: the engine that later requests find
    called,     \* history: the jobs whose tool was called
    stopped,    \* history: the jobs whose cancellation was answered True
    refused,    \* history: waiting jobs whose cancellation was answered
                \* False, with where their own handler stood
    raced,      \* history: requests that found no engine beside another
    jobCrashes, jobFaults \* bounds used so far

jobVars == <<jobRow, future, handler, cancelling, engine, registry,
             called, stopped, refused, raced, jobCrashes, jobFaults>>

jobHistory == <<called, stopped, refused, raced>>

-----------------------------------------------------------------------------

RowStates == {"NONE", "QUEUED", "RUNNING", "SUCCESS", "FAILED", "CANCELLED"}

Settled == {"SUCCESS", "FAILED", "CANCELLED"}

(* A RUNNING future: taken by a thread, with its row marked, with the call *)
(* returned, or with an exception on its way to the row.                   *)
Running == {"taken", "marked", "returned", "raised"}

FutureStates == {"NONE", "PENDING", "FINISHED", "CANCELLED"} \cup Running

SubmitStates == {"idle", "making", "holding", "inserted", "enqueued", "answered", "over"}

LookupStates == {"idle", "making", "holding", "cancelled", "over"}

JobInit ==
    /\ jobRow = [j \in Jobs |-> "NONE"]
    /\ future = [j \in Jobs |-> "NONE"]
    /\ handler = [t \in Threads |-> "idle"]
    /\ cancelling = [l \in Lookups |-> "NONE"]
    /\ engine = [t \in Threads |-> "NONE"]
    /\ registry = "NONE"
    /\ called = {}
    /\ stopped = {}
    /\ refused = {}
    /\ raced = {}
    /\ jobCrashes = 0
    /\ jobFaults = 0

JobFault ==
    /\ jobFaults < MaxJobFaults
    /\ jobFaults' = jobFaults + 1

-----------------------------------------------------------------------------
(* _job_engine, at the start of every handler.                             *)

(* raced, when a request finds no engine.                                  *)
MadeBeside(t) ==
    LET others == {u \in Threads \ {t} : handler[u] = "making"}
    IN  IF others = {} THEN raced ELSE raced \cup others \cup {t}

(* Variant: an engine of its own for every request.                        *)
FindEngineNever(t) ==
    /\ handler[t] = "idle"
    /\ handler' = [handler EXCEPT ![t] = "making"]
    /\ UNCHANGED <<jobRow, future, cancelling, engine, registry, jobHistory, jobCrashes,
                   jobFaults>>

FindEngine(t) ==
    /\ handler[t] = "idle"
    /\ \/ /\ registry = "NONE"
          /\ handler' = [handler EXCEPT ![t] = "making"]
          /\ raced' = MadeBeside(t)
          /\ UNCHANGED engine
       \/ /\ registry # "NONE"
          /\ handler' = [handler EXCEPT ![t] = "holding"]
          /\ engine' = [engine EXCEPT ![t] = registry]
          /\ UNCHANGED raced
    /\ UNCHANGED <<jobRow, future, cancelling, registry, called, stopped, refused, jobCrashes,
                   jobFaults>>

MakeEngine(t) ==
    /\ handler[t] = "making"
    /\ handler' = [handler EXCEPT ![t] = "holding"]
    /\ engine' = [engine EXCEPT ![t] = t]
    /\ registry' = t
    /\ UNCHANGED <<jobRow, future, cancelling, jobHistory, jobCrashes, jobFaults>>

(* The constructor opens the database, and the statement after it reads    *)
(* or writes it.                                                           *)
RequestFails(t) ==
    /\ handler[t] \in {"making", "holding"}
    /\ JobFault
    /\ handler' = [handler EXCEPT ![t] = "over"]
    /\ UNCHANGED <<jobRow, future, cancelling, engine, registry, jobHistory, jobCrashes>>

-----------------------------------------------------------------------------
(* The request thread of job_submit: _job_engine, then submit().           *)

InsertRow(j) ==
    /\ handler[j] = "holding"
    /\ jobRow' = [jobRow EXCEPT ![j] = "QUEUED"]
    /\ handler' = [handler EXCEPT ![j] = "inserted"]
    /\ UNCHANGED <<future, cancelling, engine, registry, jobHistory, jobCrashes, jobFaults>>

Enqueue(j) ==
    /\ handler[j] = "inserted"
    /\ future' = [future EXCEPT ![j] = "PENDING"]
    /\ handler' = [handler EXCEPT ![j] = "enqueued"]
    /\ UNCHANGED <<jobRow, cancelling, engine, registry, jobHistory, jobCrashes, jobFaults>>

(* The entry in _futures, without which cancel() finds nothing.            *)
EnterFuture(j) ==
    /\ handler[j] = "enqueued"
    /\ handler' = [handler EXCEPT ![j] = "answered"]
    /\ UNCHANGED <<jobRow, future, cancelling, engine, registry, jobHistory, jobCrashes,
                   jobFaults>>

Submit(j) ==
    FindEngine(j) \/ MakeEngine(j) \/ InsertRow(j) \/ Enqueue(j) \/ EnterFuture(j)

-----------------------------------------------------------------------------
(* A pool thread: runner().                                                *)

BusyThreads(e) == {k \in Jobs : engine[k] = e /\ future[k] \in Running}

RunnerMoves(j, from, to) ==
    /\ future[j] = from
    /\ future' = [future EXCEPT ![j] = to]
    /\ UNCHANGED <<handler, cancelling, engine, registry, stopped, refused, raced, jobCrashes>>

Take(j) ==
    /\ Cardinality(BusyThreads(engine[j])) < Workers
    /\ RunnerMoves(j, "PENDING", "taken")
    /\ UNCHANGED <<jobRow, called, jobFaults>>

MarkRunning(j) ==
    /\ RunnerMoves(j, "taken", "marked")
    /\ jobRow' = [jobRow EXCEPT ![j] = "RUNNING"]
    /\ UNCHANGED <<called, jobFaults>>

(* The first UPDATE is outside the try: its failure leaves the row as it is. *)
MarkFails(j) ==
    /\ RunnerMoves(j, "taken", "FINISHED")
    /\ JobFault
    /\ UNCHANGED <<jobRow, called>>

CallTool(j) ==
    /\ \E end \in {"returned", "raised"} : RunnerMoves(j, "marked", end)
    /\ called' = called \cup {j}
    /\ UNCHANGED <<jobRow, jobFaults>>

RecordSuccess(j) ==
    /\ RunnerMoves(j, "returned", "FINISHED")
    /\ jobRow' = [jobRow EXCEPT ![j] = "SUCCESS"]
    /\ UNCHANGED <<called, jobFaults>>

(* Variant: outside the try.                                               *)
RecordRaisesUncaught(j) ==
    /\ RunnerMoves(j, "returned", "FINISHED")
    /\ UNCHANGED <<jobRow, called, jobFaults>>

(* The result does not serialize, or its UPDATE fails.                     *)
RecordRaises(j) ==
    /\ RunnerMoves(j, "returned", "raised")
    /\ UNCHANGED <<jobRow, called, jobFaults>>

RecordFailure(j) ==
    /\ RunnerMoves(j, "raised", "FINISHED")
    /\ jobRow' = [jobRow EXCEPT ![j] = "FAILED"]
    /\ UNCHANGED <<called, jobFaults>>

RecordFails(j) ==
    /\ RunnerMoves(j, "raised", "FINISHED")
    /\ JobFault
    /\ UNCHANGED <<jobRow, called>>

Run(j) ==
    \/ Take(j) \/ MarkRunning(j) \/ CallTool(j)
    \/ RecordSuccess(j) \/ RecordRaises(j) \/ RecordFailure(j)

-----------------------------------------------------------------------------
(* The request threads of job_list, job_show and job_cancel.  Any caller   *)
(* who sees the rows may cancel one, and Future.cancel answers True also   *)
(* for a future that is cancelled already.                                 *)

(* Variant: the entry is taken for a cancelled one.                        *)
CancellableOnceEntered(l, j) == handler[j] = "answered" /\ engine[j] = engine[l]

Cancellable(l, j) ==
    /\ handler[j] = "answered"
    /\ engine[j] = engine[l]
    /\ future[j] \in {"PENDING", "CANCELLED"}

CancelFuture(l, j) ==
    /\ handler[l] = "holding"
    /\ Cancellable(l, j)
    /\ future' = [future EXCEPT ![j] = IF @ = "PENDING" THEN "CANCELLED" ELSE @]
    /\ handler' = [handler EXCEPT ![l] = "cancelled"]
    /\ cancelling' = [cancelling EXCEPT ![l] = j]
    /\ stopped' = stopped \cup {j}
    /\ UNCHANGED <<jobRow, engine, registry, called, refused, raced, jobCrashes, jobFaults>>

(* False: the engine held has no such future, or cannot cancel it.         *)
RefuseCancel(l, j) ==
    /\ handler[l] = "holding"
    /\ jobRow[j] # "NONE"
    /\ ~Cancellable(l, j)
    /\ handler' = [handler EXCEPT ![l] = "over"]
    /\ refused' = IF future[j] = "PENDING" THEN refused \cup {<<j, handler[j]>>} ELSE refused
    /\ UNCHANGED <<jobRow, future, cancelling, engine, registry, called, stopped, raced,
                   jobCrashes, jobFaults>>

RecordCancelled(l) ==
    /\ handler[l] = "cancelled"
    /\ jobRow' = [jobRow EXCEPT ![cancelling[l]] = "CANCELLED"]
    /\ handler' = [handler EXCEPT ![l] = "over"]
    /\ cancelling' = [cancelling EXCEPT ![l] = "NONE"]
    /\ UNCHANGED <<future, engine, registry, jobHistory, jobCrashes, jobFaults>>

RecordCancelledFails(l) ==
    /\ handler[l] = "cancelled"
    /\ JobFault
    /\ handler' = [handler EXCEPT ![l] = "over"]
    /\ cancelling' = [cancelling EXCEPT ![l] = "NONE"]
    /\ UNCHANGED <<jobRow, future, engine, registry, jobHistory, jobCrashes>>

(* job_list and job_show, which only read, or an unknown id.               *)
Show(l) ==
    /\ handler[l] = "holding"
    /\ handler' = [handler EXCEPT ![l] = "over"]
    /\ UNCHANGED <<jobRow, future, cancelling, engine, registry, jobHistory, jobCrashes,
                   jobFaults>>

Lookup(l) ==
    \/ FindEngine(l) \/ MakeEngine(l) \/ RequestFails(l) \/ Show(l)
    \/ \E j \in Jobs : CancelFuture(l, j) \/ RefuseCancel(l, j)
    \/ RecordCancelled(l) \/ RecordCancelledFails(l)

-----------------------------------------------------------------------------

(* The process dies with its threads, futures and engines.                 *)
JobCrash ==
    /\ jobCrashes < MaxJobCrashes
    /\ jobCrashes' = jobCrashes + 1
    /\ future' = [j \in Jobs |-> "NONE"]
    /\ handler' = [t \in Threads |-> IF handler[t] = "idle" THEN "idle" ELSE "over"]
    /\ cancelling' = [l \in Lookups |-> "NONE"]
    /\ registry' = "NONE"
    /\ UNCHANGED <<jobRow, engine, jobHistory, jobFaults>>

(* What goes on without a request thread.                                  *)
Background(j) == Run(j) \/ MarkFails(j) \/ RecordFails(j)

JobNext ==
    \/ \E j \in Jobs : Submit(j) \/ RequestFails(j) \/ Background(j)
    \/ \E l \in Lookups : Lookup(l)
    \/ JobCrash

JobSpec == JobInit /\ [][JobNext]_jobVars

JobFairness ==
    /\ \A j \in Jobs :
           /\ WF_jobVars(handler[j] # "idle" /\ Submit(j))
           /\ WF_jobVars(Run(j))
    /\ \A l \in Lookups : WF_jobVars(RecordCancelled(l))

-----------------------------------------------------------------------------

JobTypeOK ==
    /\ jobRow \in [Jobs -> RowStates]
    /\ future \in [Jobs -> FutureStates]
    /\ handler \in [Threads -> SubmitStates \cup LookupStates]
    /\ \A j \in Jobs : handler[j] \in SubmitStates
    /\ \A l \in Lookups : handler[l] \in LookupStates
    /\ cancelling \in [Lookups -> Jobs \cup {"NONE"}]
    /\ engine \in [Threads -> Threads \cup {"NONE"}]
    /\ registry \in Threads \cup {"NONE"}
    /\ called \subseteq Jobs
    /\ stopped \subseteq Jobs
    /\ refused \subseteq Jobs \X SubmitStates
    /\ raced \subseteq Threads
    /\ jobCrashes \in 0..MaxJobCrashes
    /\ jobFaults \in 0..MaxJobFaults

(* A cancellation answered True is kept: the tool is not called, then or   *)
(* later, and the row never tells of a run (engine.py, cancel and runner). *)
StoppedNeverRuns ==
    \A j \in stopped : j \notin called /\ jobRow[j] \in {"QUEUED", "CANCELLED"}

(* A job that waits in a pool is refused its cancellation for one of two   *)
(* causes: its own handler has not entered the future yet and so has not   *)
(* answered, or its engine was made by a request that found none beside    *)
(* another that found none, be that one a submission, a list or a          *)
(* cancellation: _job_engine leaves one of the two out of the registry.    *)
RefusedForCause ==
    \A r \in refused : r[2] = "enqueued" \/ engine[r[1]] \in raced

(* Every job whose row BackgroundJobEngine.submit has written              *)
(* (jobs/engine.py) is settled by its runner or by cancel in the end,      *)
(* unless the process or a statement fails.                                *)
JobsSettle ==
    \A j \in Jobs :
        jobRow[j] = "QUEUED" ~> (jobRow[j] \in Settled \/ jobCrashes > 0 \/ jobFaults > 0)
=============================================================================
