------------------------------- MODULE Ingestion -------------------------------
(***************************************************************************)
(* An incremental ingestion DAG of the hospitality platform: the tasks of  *)
(* airflow/dags/common.py with the extraction of source_extractors.py, as  *)
(* generated_ingestion_dags.py chains them.  A run extracts the records of *)
(* each entity stamped after its watermark, refuses empty extracts, puts   *)
(* each extract into a stage and copies it into the RAW table with         *)
(* ON_ERROR = CONTINUE, moves the watermark to the latest stamp it finds   *)
(* there, and gates on the number of rows.  Each task may be interrupted   *)
(* at any step, by an exception or with its worker, and is tried again     *)
(* from its start a few times; one run of the DAG is active at a time.     *)
(*                                                                         *)
(* The source is the database of an application: a transaction stamps its  *)
(* record (source_updated_at) and commits later.  Each version of a row is *)
(* a record of its own, and a query sees the latest one committed.         *)
(*                                                                         *)
(* The stage: COPY takes every file whose path begins with the entity's    *)
(* name, those of other entities too, but for files RAW was loaded from    *)
(* already; a file that is put again may or may not count as a new one.    *)
(* Rows of RAW are a set: loading a file again adds nothing.               *)
(***************************************************************************)
EXTENDS Naturals, FiniteSets, FiniteSetsExt

CONSTANTS
    Entities, \* how many entities the job has
    Records,
    entityOf, \* the entity of each record
    newer,    \* the later versions of the row of which a record is one
    takes,    \* the entities whose names begin with that of each entity
    rendered, \* the instant that MAX(SOURCE_UPDATED_AT)::varchar stands for
    Doubtful, \* the records that COPY may reject
    Retries,  \* default_args["retries"]
    MaxClock, \* bound: the last instant of the source
    MaxRuns,  \* bound: runs of the DAG
    MaxInterruptions \* bound: tries that something else ends

ASSUME SourceAssumption ==
    /\ IsFiniteSet(Records)
    /\ Entities \in Nat \ {0}
    /\ entityOf \in [Records -> 1..Entities]
    /\ Doubtful \subseteq Records
ASSUME VersionsAssumption ==
    /\ newer \in [Records -> SUBSET Records]
    /\ \A r \in Records : r \notin newer[r]
    /\ \A r \in Records : \A s \in newer[r] : entityOf[s] = entityOf[r] /\ newer[s] \subseteq newer[r]
ASSUME NamesAssumption ==
    /\ takes \in [1..Entities -> SUBSET (1..Entities)]
    /\ \A e \in 1..Entities : e \in takes[e]
ASSUME RenderingAssumption ==
    /\ rendered \in [0..MaxClock -> 0..MaxClock]
    /\ \A t \in 0..MaxClock : rendered[t] <= t
ASSUME IngestionBoundsAssumption ==
    /\ Retries \in Nat /\ MaxClock \in Nat \ {0} /\ MaxRuns \in Nat
    /\ MaxInterruptions \in Nat

VARIABLES
    sourceClock, \* now, at the source
    stamp,       \* source_updated_at of each record, 0 for one not written
    unloadable,  \* the records written that COPY rejects
    committed,   \* the records a query sees
    dagRun,      \* the number of the latest run, which stands for its batch id
    task,        \* the task of that run
    tries,       \* failed tries of the task
    landed,      \* the landing directory of the batch exists
    extracts,    \* the artifact of each entity
    stage,       \* its file in the stage: none, put, or put and loaded
    progress,    \* where the loop of the task over the entities stands
    mark,        \* the Airflow Variable watermark__<source>__<entity>, 0 for none
    auditMark,   \* AUDIT.TABLE_WATERMARKS
    raw,         \* RAW_INGESTION_EVENTS: records with SOURCE_TABLE and batch
    batchControl,\* AUDIT.BATCH_CONTROL
    due,         \* history: what was committed when the run began
    extractedAt, \* history: the instant of the latest extraction of each entity
    late,        \* history: records in an open transaction, or stamped, at one
    overrun,     \* history: instants between the extraction of an entity and
                 \* the watermark that its load has set
    interrupted, \* history: a task of the run was interrupted
    interruptions \* bound used so far

ingestionVars == <<sourceClock, stamp, unloadable, committed, dagRun, task, tries, landed, extracts,
                   stage, progress, mark, auditMark, raw, batchControl, due, extractedAt, late, overrun,
                   interrupted, interruptions>>

interruptionVars == <<interrupted, interruptions>>
sourceVars == <<sourceClock, stamp, unloadable, committed>>
tableVars == <<mark, auditMark, raw, batchControl>>
historyVars == <<due, extractedAt, late, overrun>>

-----------------------------------------------------------------------------

Instants == 0..MaxClock

BatchIds == 1..MaxRuns

(* The states in which a task begins, those on its way, and ends of a run. *)
Begins == {"extract", "validate", "load", "quality"}
Ends == {"idle", "success", "failed"}
TaskStates == Begins \cup {"extracting", "copying"} \cup Ends

(* Variant: a load that was interrupted counts as done.                    *)
BeginOfNext(t) ==
    CASE t = "extracting" -> "extract" [] t = "copying" -> "quality" [] OTHER -> t

BeginOf(t) ==
    CASE t = "extracting" -> "extract" [] t = "copying" -> "load" [] OTHER -> t

RecordsOf(e) == {r \in Records : entityOf[r] = e}

LoadedNow(e) == {r \in Records : <<r, e, dagRun>> \in raw}

Latest(records) == Max({stamp[r] : r \in records})

Untouched == [e \in 1..Entities |-> "todo"]

(* The loops take the entities in their order.                             *)
IsNext(e, state) == progress[e] = state /\ \A d \in 1..e - 1 : progress[d] = "done"

All(state) == \A e \in 1..Entities : progress[e] = state

IngestionInit ==
    /\ sourceClock = 1
    /\ stamp = [r \in Records |-> 0]
    /\ unloadable = {}
    /\ committed = {}
    /\ dagRun = 0
    /\ task = "idle"
    /\ tries = 0
    /\ landed = FALSE
    /\ extracts = [e \in 1..Entities |-> {}]
    /\ stage = [e \in 1..Entities |-> "none"]
    /\ progress = Untouched
    /\ mark = [e \in 1..Entities |-> 0]
    /\ auditMark = [e \in 1..Entities |-> 0]
    /\ raw = {}
    /\ batchControl = [b \in BatchIds |-> "NONE"]
    /\ due = {}
    /\ extractedAt = [e \in 1..Entities |-> 0]
    /\ late = {}
    /\ overrun = {}
    /\ interrupted = FALSE
    /\ interruptions = 0

-----------------------------------------------------------------------------
(* The source.                                                             *)

SourceTicks ==
    /\ sourceClock < MaxClock
    /\ sourceClock' = sourceClock + 1
    /\ UNCHANGED <<stamp, unloadable, committed, dagRun, task, tries, landed, extracts, stage,
                   progress, tableVars, historyVars, interruptionVars>>

Write(r) ==
    /\ stamp[r] = 0
    /\ stamp' = [stamp EXCEPT ![r] = sourceClock]
    /\ \E bad \in SUBSET ({r} \cap Doubtful) : unloadable' = unloadable \cup bad
    /\ late' = IF extractedAt[entityOf[r]] = sourceClock THEN late \cup {r} ELSE late
    /\ UNCHANGED <<sourceClock, committed, dagRun, task, tries, landed, extracts, stage, progress,
                   tableVars, due, extractedAt, overrun, interruptionVars>>

Commit(r) ==
    /\ stamp[r] # 0
    /\ r \notin committed
    /\ \A q \in Records : r \in newer[q] => q \in committed
    /\ committed' = committed \cup {r}
    /\ UNCHANGED <<sourceClock, stamp, unloadable, dagRun, task, tries, landed, extracts, stage,
                   progress, tableVars, historyVars, interruptionVars>>

-----------------------------------------------------------------------------
(* The scheduler.                                                          *)

(* max_active_runs = 1; create_batch_id names a new batch, and with it     *)
(* directories of its own for the extracts and in the stage.               *)
BeginRun ==
    /\ task \in Ends
    /\ dagRun < MaxRuns
    /\ dagRun' = dagRun + 1
    /\ task' = "extract"
    /\ tries' = 0
    /\ landed' = FALSE
    /\ extracts' = [e \in 1..Entities |-> {}]
    /\ stage' = [e \in 1..Entities |-> "none"]
    /\ due' = committed
    /\ progress' = Untouched
    /\ interrupted' = FALSE
    /\ UNCHANGED <<sourceVars, tableVars, extractedAt, late, overrun, interruptions>>

(* A try of the task is over without success.                              *)
Retry ==
    /\ task \notin Ends
    /\ \/ /\ tries < Retries
          /\ tries' = tries + 1
          /\ task' = BeginOf(task)
       \/ /\ tries = Retries
          /\ task' = "failed"
          /\ UNCHANGED tries
    /\ progress' = Untouched
    /\ UNCHANGED <<sourceVars, dagRun, landed, extracts, stage, tableVars, historyVars>>

Interrupt ==
    /\ Retry
    /\ interruptions < MaxInterruptions
    /\ interruptions' = interruptions + 1
    /\ interrupted' = TRUE

Succeed(next) ==
    /\ task' = next
    /\ tries' = 0
    /\ progress' = Untouched
    /\ UNCHANGED <<sourceVars, dagRun, landed, extracts, stage, historyVars, interruptionVars>>

-----------------------------------------------------------------------------
(* discover_or_extract, in database mode.                                  *)

MakeDirectory ==
    /\ task = "extract"
    /\ ~landed
    /\ landed' = TRUE
    /\ task' = "extracting"
    /\ UNCHANGED <<sourceVars, dagRun, tries, extracts, stage, progress, tableVars, historyVars,
                   interruptionVars>>

(* Variant: a query as of the start of the run.                            *)
VisibleAtStart(e) ==
    {r \in RecordsOf(e) \cap due : newer[r] \cap due = {} /\ (mark[e] = 0 \/ stamp[r] > mark[e])}

(* A query sees one version of a row.                                      *)
Superseded(r) == \E s \in newer[r] : s \in committed

Visible(e) ==
    {r \in RecordsOf(e) \cap committed : ~Superseded(r) /\ (mark[e] = 0 \/ stamp[r] > mark[e])}

ExtractEntity(e) ==
    /\ task = "extracting"
    /\ IsNext(e, "todo")
    /\ progress' = [progress EXCEPT ![e] = "done"]
    /\ extracts' = [extracts EXCEPT ![e] = Visible(e)]
    /\ extractedAt' = [extractedAt EXCEPT ![e] = sourceClock]
    /\ late' = late \cup {r \in RecordsOf(e) \ committed : stamp[r] # 0}
    /\ UNCHANGED <<sourceVars, dagRun, task, tries, landed, stage, tableVars, due, overrun,
                   interruptionVars>>

EndExtract ==
    /\ task = "extracting"
    /\ All("done")
    /\ Succeed("validate")
    /\ UNCHANGED tableVars

(* validate_artifacts: every artifact has a row.                           *)
ValidateArtifacts ==
    /\ task = "validate"
    /\ \A e \in 1..Entities : extracts[e] # {}
    /\ Succeed("load")
    /\ UNCHANGED tableVars

-----------------------------------------------------------------------------
(* load_to_snowflake: a MERGE into BATCH_CONTROL, a loop over the          *)
(* artifacts, and the UPDATE of BATCH_CONTROL.  The rows of LOAD_HISTORY   *)
(* are left out.                                                           *)

BeginLoad ==
    /\ task = "load"
    /\ task' = "copying"
    /\ batchControl' = [batchControl EXCEPT ![dagRun] = IF @ = "NONE" THEN "RUNNING" ELSE @]
    /\ UNCHANGED <<sourceVars, dagRun, tries, landed, extracts, stage, progress, mark, auditMark, raw,
                   historyVars, interruptionVars>>

LoadMoves(e, from, to) ==
    /\ task = "copying"
    /\ IsNext(e, from)
    /\ progress' = [progress EXCEPT ![e] = to]
    /\ UNCHANGED <<sourceVars, dagRun, task, tries, landed, extracts, batchControl, due, extractedAt,
                   late, interruptionVars>>

(* PUT with OVERWRITE: to the load history the file may be as before.      *)
PutEntity(e) ==
    /\ LoadMoves(e, "todo", "staged")
    /\ \E file \in {"fresh"} \cup ({"loaded"} \cap {stage[e]}) : stage' = [stage EXCEPT ![e] = file]
    /\ UNCHANGED <<mark, auditMark, raw, overrun>>

(* The files COPY loads: the stage prefix ends with the entity's name.     *)
Taken(e) == {d \in takes[e] : stage[d] = "fresh"}

(* Each of their rows is filed under the entity of the statement.          *)
CopyEntity(e) ==
    /\ LoadMoves(e, "staged", "copied")
    /\ LET rows == UNION {extracts[d] : d \in Taken(e)}
       IN  raw' = raw \cup {<<r, e, dagRun>> : r \in rows \ unloadable}
    /\ stage' = [d \in 1..Entities |-> IF d \in Taken(e) THEN "loaded" ELSE stage[d]]
    /\ UNCHANGED <<mark, auditMark, overrun>>

(* MAX(SOURCE_UPDATED_AT) of the batch, for an entity with rows in it,     *)
(* rendered in the output format of the session.                           *)
Reached(e) == rendered[Latest(LoadedNow(e))]

SetVariable(e) ==
    /\ LoadMoves(e, "copied", "marked")
    /\ LoadedNow(e) # {}
    /\ mark' = [mark EXCEPT ![e] = Reached(e)]
    /\ overrun' = overrun \cup {<<e, t>> : t \in extractedAt[e] + 1..Reached(e)}
    /\ UNCHANGED <<auditMark, raw, stage>>

MergeWatermark(e) ==
    /\ LoadMoves(e, "marked", "done")
    /\ auditMark' = [auditMark EXCEPT ![e] = Reached(e)]
    /\ UNCHANGED <<mark, raw, stage, overrun>>

SkipWatermark(e) ==
    /\ LoadMoves(e, "copied", "done")
    /\ LoadedNow(e) = {}
    /\ UNCHANGED <<mark, auditMark, raw, stage, overrun>>

EndLoad ==
    /\ task = "copying"
    /\ All("done")
    /\ batchControl' = [batchControl EXCEPT ![dagRun] = "SUCCESS"]
    /\ Succeed("quality")
    /\ UNCHANGED <<mark, auditMark, raw>>

(* record_quality.                                                         *)
PassQuality ==
    /\ task = "quality"
    /\ \E e \in 1..Entities : LoadedNow(e) # {}
    /\ Succeed("success")
    /\ UNCHANGED tableVars

(* What a task raises by itself: a directory that exists, an empty         *)
(* artifact, a batch without a row.                                        *)
Raise ==
    /\ \/ task = "extract" /\ landed
       \/ task = "validate" /\ \E e \in 1..Entities : extracts[e] = {}
       \/ task = "quality" /\ \A e \in 1..Entities : LoadedNow(e) = {}
    /\ Retry
    /\ UNCHANGED interruptionVars

-----------------------------------------------------------------------------

Task ==
    \/ MakeDirectory \/ EndExtract \/ ValidateArtifacts \/ BeginLoad \/ EndLoad \/ PassQuality \/ Raise
    \/ \E e \in 1..Entities :
          \/ ExtractEntity(e) \/ PutEntity(e) \/ CopyEntity(e)
          \/ SetVariable(e) \/ MergeWatermark(e) \/ SkipWatermark(e)

IngestionNext ==
    \/ SourceTicks
    \/ \E r \in Records : Write(r) \/ Commit(r)
    \/ BeginRun
    \/ Interrupt
    \/ Task

IngestionSpec == IngestionInit /\ [][IngestionNext]_ingestionVars

-----------------------------------------------------------------------------

IngestionTypeOK ==
    /\ sourceClock \in Instants
    /\ stamp \in [Records -> Instants]
    /\ unloadable \subseteq Doubtful
    /\ committed \subseteq Records
    /\ dagRun \in 0..MaxRuns
    /\ task \in TaskStates
    /\ tries \in 0..Retries
    /\ landed \in BOOLEAN
    /\ extracts \in [1..Entities -> SUBSET Records]
    /\ stage \in [1..Entities -> {"none", "fresh", "loaded"}]
    /\ progress \in [1..Entities -> {"todo", "staged", "copied", "marked", "done"}]
    /\ mark \in [1..Entities -> Instants]
    /\ auditMark \in [1..Entities -> Instants]
    /\ raw \subseteq Records \X (1..Entities) \X BatchIds
    /\ batchControl \in [BatchIds -> {"NONE", "RUNNING", "SUCCESS"}]
    /\ due \subseteq Records
    /\ extractedAt \in [1..Entities -> Instants]
    /\ late \subseteq Records
    /\ overrun \subseteq (1..Entities) \X Instants
    /\ interrupted \in BOOLEAN
    /\ interruptions \in 0..MaxInterruptions

(* In RAW under the name of its entity, in whatever batch.                 *)
InRaw(r) == \E b \in BatchIds : <<r, entityOf[r], b>> \in raw

(* In RAW under the name of another entity.                                *)
Misfiled(r) == \E e \in 1..Entities \ {entityOf[r]}, b \in BatchIds : <<r, e, b>> \in raw

(* A record is where it belongs, or there is a cause that it is not: COPY  *)
(* rejects it; its transaction was open, or not begun in that very         *)
(* instant, when an extraction read the source; or an interrupted load was *)
(* repeated and took the staged files of two entities for one, and so      *)
(* filed it under the other's name, or moved the watermark by the other's  *)
(* records to an instant after the extraction.                             *)
Accounted(r) ==
    \/ InRaw(r) \/ r \in unloadable \/ r \in late
    \/ interruptions > 0 /\ (Misfiled(r) \/ <<entityOf[r], stamp[r]>> \in overrun)

(* A row has a committed version, this one or a later one, that is.        *)
CaughtUp(r) == \E s \in {r} \cup newer[r] : s \in committed /\ Accounted(s)

(* The current version of a row, at or below the watermark that            *)
(* load_to_snowflake keeps for its entity (airflow/dags/common.py), will   *)
(* not be extracted by a later run: it is accounted for.                   *)
PassedOverForCause ==
    \A r \in committed : stamp[r] <= mark[entityOf[r]] => Superseded(r) \/ Accounted(r)

(* Whatever interruptions came before, a run that succeeds has caught up   *)
(* with every row that was committed when it began.                        *)
RunCatchesUp == task = "success" => \A r \in due : CaughtUp(r)

(* A run none of whose tasks was interrupted fails only when an entity had *)
(* nothing new that COPY accepts, which stops the other entities too       *)
(* (common.py, validate_artifacts).                                        *)
FailsForCause ==
    task = "failed" /\ ~interrupted =>
        \E e \in 1..Entities : \A r \in due \cap RecordsOf(e) : CaughtUp(r)

(* A run succeeds when it has caught up and fails for a cause              *)
(* (generated_ingestion_dags.py, the chain of tasks and its retries).      *)
RunsEndForCause == RunCatchesUp /\ FailsForCause
=============================================================================
