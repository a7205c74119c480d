---------------------------- MODULE Data_proofs -----------------------------
(***************************************************************************)
(* What moving data and comparing it guarantee, for any number of records, *)
(* keys, runs and partitions: the ingestion DAG with its watermarks, and   *)
(* the hash diff of two tables in two warehouses.                          *)
(***************************************************************************)
EXTENDS Ingestion, WarehouseDiff, Integers, FiniteSetTheorems, WellFoundedInduction, TLAPS

-----------------------------------------------------------------------------
(***************************************************************************)
(* The ingestion DAG of the hospitality platform (airflow/dags/common.py). *)
(***************************************************************************)

(* The entities of the job, by number.                                     *)
EntityIds == 1..Entities

(* The extract task of the run has passed an entity.                       *)
Extracted(e) ==
    \/ task = "extracting" /\ progress[e] = "done"
    \/ task \in {"validate", "load", "copying", "quality", "success"}

(* The COPY statement of the load task has passed an entity.               *)
Copied(e) ==
    \/ task = "copying" /\ progress[e] \notin {"todo", "staged"}
    \/ task \in {"quality", "success"}

(* A record is in RAW, under whatever name, in the batch of the run.       *)
Filed(r) == \E f \in EntityIds : <<r, f, dagRun>> \in raw

(* Of the watermarks: committed or not, what they pass over is accounted   *)
(* for, or another version of its row is to be.                            *)
MarksHold ==
    \A r \in Records :
        stamp[r] # 0 /\ stamp[r] <= mark[entityOf[r]] => Accounted(r) \/ Superseded(r)

(* No watermark, extract or record is from the future.                     *)
ClocksAgree ==
    /\ sourceClock >= 1
    /\ \A e \in EntityIds : mark[e] <= sourceClock /\ extractedAt[e] <= sourceClock
    /\ \A r \in Records : stamp[r] <= sourceClock

(* Where the watermark is beyond the extraction, the history has it.       *)
OverrunHolds ==
    \A e \in EntityIds, t \in Nat : extractedAt[e] < t /\ t <= mark[e] => <<e, t>> \in overrun

(* A watermark beyond its extraction and a row under a name that is not    *)
(* its own come from an interruption.                                      *)
CausesHold ==
    /\ interrupted => interruptions > 0
    /\ overrun # {} => interruptions > 0
    /\ \A r \in Records, f \in EntityIds, b \in BatchIds :
          <<r, f, b>> \in raw /\ f # entityOf[r] => interruptions > 0

(* A committed record has its time stamp, versions are committed in their  *)
(* order, and one of those committed is the current one.                   *)
CommittedAreWritten ==
    /\ due \subseteq committed
    /\ \A r \in committed : stamp[r] # 0
    /\ \A q \in Records : \A r \in newer[q] \cap committed : q \in committed
    /\ \A r \in committed : \E s \in {r} \cup newer[r] : s \in committed /\ ~Superseded(s)

(* An extract has all that was stamped up to its instant, and a version of *)
(* each row that was due.                                                  *)
ExtractCovers(e) ==
    Extracted(e) =>
        \A r \in RecordsOf(e) :
            /\ stamp[r] # 0 /\ stamp[r] <= extractedAt[e]
                  => r \in extracts[e] \/ Accounted(r) \/ Superseded(r)
            /\ r \in due => \E s \in {r} \cup newer[r] :
                                s \in committed /\ (s \in extracts[e] \/ Accounted(s))

(* An extract holds records of its entity written by the time it was       *)
(* taken.                                                                  *)
ExtractHolds(e) ==
    \A r \in extracts[e] : r \in RecordsOf(e) /\ stamp[r] # 0 /\ stamp[r] <= extractedAt[e]

(* There is no file before the load; what a loaded file holds is in RAW or *)
(* cannot be loaded; and the COPY of an entity leaves its file loaded.     *)
StageHolds(e) ==
    /\ stage[e] # "none" => task \notin {"extract", "extracting", "validate"}
    /\ stage[e] = "loaded" => \A r \in extracts[e] : r \in unloadable \/ Filed(r)
    /\ task = "copying" /\ progress[e] = "staged" => stage[e] # "none"
    /\ Copied(e) => stage[e] = "loaded"

(* Without an interruption only the file that was just put is to be loaded. *)
FreshHolds ==
    \A e \in EntityIds :
        stage[e] = "fresh" /\ ~interrupted => task = "copying" /\ progress[e] = "staged"

(* The rows of the batch of this run are from its extracts.                *)
RawHolds ==
    \A r \in Records, f \in EntityIds, b \in BatchIds :
        <<r, f, b>> \in raw =>
            /\ b <= dagRun
            /\ b = dagRun => /\ r \in extracts[entityOf[r]]
                             /\ task \notin {"extract", "extracting", "validate"}

(* What the running task says of the run's progress and of its directory.  *)
TaskHolds ==
    /\ dagRun = 0 => task = "idle"
    /\ task = "extract" /\ ~interrupted => ~landed
    /\ task \notin {"extracting", "copying"} => progress = Untouched
    /\ task = "extracting" => \A e \in EntityIds : progress[e] \in {"todo", "done"}
    /\ task = "copying" => \A e \in EntityIds : progress[e] = "marked" => LoadedNow(e) # {}
    /\ \A e \in EntityIds : progress[e] # "todo" => \A d \in 1..e - 1 : progress[d] = "done"

(* The inductive invariant of the pipeline.                                *)
IngestionInv ==
    /\ IngestionTypeOK
    /\ MarksHold /\ ClocksAgree /\ OverrunHolds /\ CausesHold /\ CommittedAreWritten
    /\ FreshHolds /\ RawHolds /\ TaskHolds
    /\ \A e \in EntityIds : ExtractCovers(e) /\ ExtractHolds(e) /\ StageHolds(e)
    /\ FailsForCause

-----------------------------------------------------------------------------

(* The latest of some records is one of them.                              *)
LEMMA LatestIsOne ==
    ASSUME IngestionTypeOK, NEW records \in SUBSET Records, records # {}
    PROVE  /\ \E r \in records : Latest(records) = stamp[r]
           /\ \A r \in records : stamp[r] <= Latest(records)
           /\ Latest(records) \in Instants
<1> DEFINE S == {stamp[r] : r \in records}
           R == OpToRel(<, Nat)
           left == {MaxClock - i : i \in S}
<1>1. S \subseteq Instants /\ S # {} /\ MaxClock \in Nat
    BY IngestionBoundsAssumption DEF IngestionTypeOK
<1>2. left \subseteq Nat /\ left # {}
    <2>1. ASSUME NEW i \in S
          PROVE  MaxClock - i \in Nat
        <3>1. i \in 0..MaxClock
            BY <1>1 DEF Instants
        <3> QED
            BY <1>1, <3>1
    <2> QED
        BY <1>1, <2>1
<1>3. IsWellFoundedOn(R, Nat)
    BY NatLessThanWellFounded
<1>4. PICK x \in left : \A y \in left : ~(<<y, x>> \in R)
    BY <1>2, <1>3, WFMin
<1>5. PICK i \in S : x = MaxClock - i
    OBVIOUS
<1>6. \A j \in S : j <= i
    <2> TAKE j \in S
    <2>1. MaxClock - j \in left /\ ~(MaxClock - j < x)
        BY <1>2, <1>4 DEF OpToRel
    <2> QED
        BY <1>1, <1>5, <2>1 DEF Instants
<1>7. Max(S) \in S /\ \A j \in S : Max(S) >= j
    <2>1. \E k \in S : \A j \in S : k >= j
        BY <1>1, <1>6 DEF Instants
    <2> QED
        BY <2>1 DEF Max
<1>8. Latest(records) = Max(S)
    BY DEF Latest
<1> QED
    BY <1>1, <1>7, <1>8 DEF Instants

(* The types of the state's parts.                                         *)
LEMMA IngestionTypes ==
    ASSUME IngestionTypeOK
    PROVE  /\ sourceClock \in Nat /\ dagRun \in Nat /\ tries \in Nat /\ Retries \in Nat
           /\ interruptions \in Nat /\ interrupted \in BOOLEAN
           /\ \A r \in Records : stamp[r] \in Nat /\ entityOf[r] \in EntityIds
           /\ \A e \in EntityIds : /\ mark[e] \in Nat /\ extractedAt[e] \in Nat
                                   /\ extracts[e] \subseteq Records
                                   /\ \A r \in RecordsOf(e) : r \in Records /\ entityOf[r] = e
           /\ \A b \in BatchIds : b \in Nat
           /\ raw \subseteq Records \X EntityIds \X BatchIds
BY SourceAssumption, IngestionBoundsAssumption
   DEF IngestionTypeOK, Instants, EntityIds, RecordsOf, BatchIds

(* The later versions of a row are of its entity, and theirs are its own.  *)
LEMMA VersionsAre ==
    ASSUME NEW r \in Records
    PROVE  /\ newer[r] \subseteq Records /\ r \notin newer[r]
           /\ \A s \in newer[r] : entityOf[s] = entityOf[r] /\ newer[s] \subseteq newer[r]
BY VersionsAssumption

(* What is accounted for stays so.                                         *)
LEMMA AccountedForGood ==
    ASSUME raw \subseteq raw', unloadable \subseteq unloadable', late \subseteq late',
           overrun \subseteq overrun', interruptions > 0 => interruptions' > 0,
           NEW r \in Records, stamp'[r] = stamp[r], Accounted(r)
    PROVE  Accounted(r)'
<1>1. CASE InRaw(r)
    BY <1>1 DEF Accounted, InRaw
<1>2. CASE r \in unloadable \/ r \in late
    BY <1>2 DEF Accounted
<1>3. CASE interruptions > 0 /\ Misfiled(r)
    <2>1. Misfiled(r)'
        BY <1>3 DEF Misfiled
    <2> QED
        BY <1>3, <2>1 DEF Accounted
<1>4. CASE interruptions > 0 /\ <<entityOf[r], stamp[r]>> \in overrun
    BY <1>4 DEF Accounted
<1> QED
    BY <1>1, <1>2, <1>3, <1>4 DEF Accounted

(* What RAW has of a record is where it belongs, or came to another name   *)
(* by an interruption.                                                     *)
LEMMA FiledIsAccounted ==
    ASSUME IngestionTypeOK, CausesHold, dagRun # 0, NEW r \in Records, r \in unloadable \/ Filed(r)
    PROVE  Accounted(r)
<1>1. dagRun \in BatchIds
    BY IngestionBoundsAssumption DEF IngestionTypeOK, BatchIds
<1>2. CASE r \in unloadable
    BY <1>2 DEF Accounted
<1>3. CASE Filed(r)
    <2>1. PICK f \in EntityIds : <<r, f, dagRun>> \in raw
        BY <1>3 DEF Filed
    <2>2. CASE f = entityOf[r]
        BY <1>1, <2>1, <2>2 DEF Accounted, InRaw
    <2>3. CASE f # entityOf[r]
        <3>1. interruptions > 0
            BY <1>1, <2>1, <2>3 DEF CausesHold
        <3>2. Misfiled(r)
            BY <1>1, <2>1, <2>3 DEF Misfiled, EntityIds
        <3> QED
            BY <3>1, <3>2 DEF Accounted
    <2> QED
        BY <2>2, <2>3
<1> QED
    BY <1>2, <1>3

(* A failed run keeps its cause.                                           *)
LEMMA CauseStays ==
    ASSUME committed \subseteq committed', due' = due, committed \subseteq Records,
           \A r \in committed : Accounted(r) => Accounted(r)',
           task' = "failed" => task = "failed" /\ interrupted' = interrupted,
           FailsForCause
    PROVE  FailsForCause'
<1> SUFFICES ASSUME task = "failed", ~interrupted
             PROVE  FailsForCause'
    BY DEF FailsForCause
<1>1. PICK e \in 1..Entities : \A r \in due \cap RecordsOf(e) : CaughtUp(r)
    BY DEF FailsForCause
<1>2. \A r \in due \cap RecordsOf(e) : CaughtUp(r)'
    BY <1>1 DEF CaughtUp
<1> QED
    BY <1>2 DEF FailsForCause, RecordsOf

(* An extract keeps what it covers while it is not taken again.            *)
LEMMA CoversStays ==
    ASSUME NEW e \in EntityIds, ExtractCovers(e), Extracted(e)' => Extracted(e),
           committed \subseteq committed', committed \subseteq Records, due' = due,
           extracts'[e] = extracts[e], extractedAt'[e] = extractedAt[e],
           \A r \in committed : Accounted(r) => Accounted(r)',
           \A r \in RecordsOf(e) :
               stamp'[r] # 0 /\ stamp'[r] <= extractedAt[e] =>
                  \/ stamp'[r] = stamp[r] /\ (Accounted(r) => Accounted(r)')
                  \/ Accounted(r)'
    PROVE  ExtractCovers(e)'
<1> SUFFICES ASSUME Extracted(e), NEW r \in RecordsOf(e)
             PROVE  /\ stamp'[r] # 0 /\ stamp'[r] <= extractedAt[e]
                          => r \in extracts[e] \/ Accounted(r)' \/ Superseded(r)'
                    /\ r \in due => \E s \in {r} \cup newer[r] :
                                        s \in committed' /\ (s \in extracts[e] \/ Accounted(s)')
    BY DEF ExtractCovers, RecordsOf
<1>1. ASSUME stamp'[r] # 0, stamp'[r] <= extractedAt[e], ~Accounted(r)'
      PROVE  r \in extracts[e] \/ Superseded(r)'
    <2>1. r \in extracts[e] \/ Superseded(r)
        BY <1>1 DEF ExtractCovers
    <2>2. Superseded(r) => Superseded(r)'
        BY DEF Superseded
    <2> QED
        BY <2>1, <2>2
<1>2. r \in due => \E s \in {r} \cup newer[r] :
                       s \in committed' /\ (s \in extracts[e] \/ Accounted(s)')
    BY DEF ExtractCovers
<1> QED
    BY <1>1, <1>2

-----------------------------------------------------------------------------

(* A step that moves a task on and touches no data.                        *)
LEMMA TaskMoveKeeps ==
    ASSUME IngestionInv, IngestionTypeOK', TaskHolds', FailsForCause', FreshHolds',
           UNCHANGED <<sourceVars, dagRun, extracts, stage, mark, raw, historyVars>>,
           interrupted' => interruptions' > 0, interruptions > 0 => interruptions' > 0,
           \A e \in EntityIds : /\ Extracted(e)' => Extracted(e)
                                /\ Copied(e)' => Copied(e)
                                /\ task' = "copying" => progress'[e] # "staged",
           task' \in {"extract", "extracting", "validate"} =>
              task \in {"extract", "extracting", "validate"}
    PROVE  IngestionInv'
<1>1. /\ sourceClock' = sourceClock /\ stamp' = stamp /\ unloadable' = unloadable
      /\ committed' = committed /\ dagRun' = dagRun /\ extracts' = extracts /\ stage' = stage
      /\ mark' = mark /\ raw' = raw /\ due' = due /\ extractedAt' = extractedAt /\ late' = late
      /\ overrun' = overrun /\ committed \subseteq Records
    BY DEF sourceVars, historyVars, IngestionInv, IngestionTypeOK
<1>2. \A r \in Records : Accounted(r) => Accounted(r)'
    BY <1>1, AccountedForGood
<1>3. \A r \in Records : Superseded(r)' <=> Superseded(r)
    BY <1>1 DEF Superseded
<1>4. MarksHold'
    BY <1>1, <1>2, <1>3 DEF IngestionInv, MarksHold
<1>5. ClocksAgree' /\ OverrunHolds' /\ CausesHold'
    BY <1>1 DEF IngestionInv, ClocksAgree, OverrunHolds, CausesHold
<1>6. CommittedAreWritten'
    BY <1>1 DEF IngestionInv, CommittedAreWritten, Superseded
<1>7. RawHolds'
    BY <1>1 DEF IngestionInv, RawHolds
<1>8. ASSUME NEW e \in EntityIds
      PROVE  ExtractCovers(e)' /\ ExtractHolds(e)' /\ StageHolds(e)'
    <2>1. ExtractCovers(e) /\ ExtractHolds(e) /\ StageHolds(e)
        BY DEF IngestionInv
    <2>2. ExtractCovers(e)'
        BY <1>1, <1>2, <2>1, CoversStays DEF RecordsOf
    <2>3. ExtractHolds(e)' /\ StageHolds(e)'
        BY <1>1, <2>1 DEF ExtractHolds, StageHolds, Filed, RecordsOf
    <2> QED
        BY <2>2, <2>3
<1> QED
    BY <1>4, <1>5, <1>6, <1>7, <1>8 DEF IngestionInv

(* What no entity done means.                                              *)
LEMMA UntouchedIs ==
    /\ \A e \in EntityIds : Untouched[e] = "todo"
    /\ Untouched \in [1..Entities -> {"todo", "staged", "copied", "marked", "done"}]
BY DEF Untouched, EntityIds

(* Making the directory of the batch keeps the invariant.                  *)
LEMMA MakeDirectoryKeeps ==
    ASSUME IngestionInv, MakeDirectory
    PROVE  IngestionInv'
<1>1. IngestionTypeOK'
    BY DEF IngestionInv, MakeDirectory, IngestionTypeOK, TaskStates, sourceVars, tableVars, historyVars,
           interruptionVars
<1>2. /\ progress' = Untouched /\ progress = Untouched /\ task' = "extracting"
      /\ task = "extract" /\ dagRun' = dagRun /\ dagRun # 0 /\ stage' = stage
      /\ UNCHANGED interruptionVars
    BY DEF IngestionInv, MakeDirectory, TaskHolds
<1>3. TaskHolds'
    BY <1>2, UntouchedIs DEF TaskHolds
<1>4. FailsForCause' /\ FreshHolds'
    BY <1>2 DEF FailsForCause, FreshHolds, IngestionInv, interruptionVars
<1>5. \A e \in EntityIds : ~Extracted(e)' /\ ~Copied(e)'
    BY <1>2, UntouchedIs DEF Extracted, Copied
<1>6. (interrupted' => interruptions' > 0) /\ (interruptions > 0 => interruptions' > 0)
    BY <1>2 DEF IngestionInv, CausesHold, interruptionVars
<1> QED
    BY <1>1, <1>2, <1>3, <1>4, <1>5, <1>6, TaskMoveKeeps DEF MakeDirectory, tableVars

(* A task that has succeeded.                                              *)
LEMMA SucceedKeeps ==
    ASSUME IngestionInv, NEW next \in {"validate", "load", "quality", "success"}, Succeed(next),
           batchControl' \in [BatchIds -> {"NONE", "RUNNING", "SUCCESS"}],
           UNCHANGED <<mark, auditMark, raw>>, dagRun # 0,
           \A e \in EntityIds : Extracted(e) /\ ~(task = "copying" /\ progress[e] = "staged"),
           next \in {"quality", "success"} => \A e \in EntityIds : Copied(e),
           next = "validate" => task \in {"extract", "extracting", "validate"}
    PROVE  IngestionInv'
<1>1. /\ task' = next /\ tries' = 0 /\ progress' = Untouched
      /\ UNCHANGED <<sourceVars, dagRun, landed, extracts, stage, historyVars, interruptionVars>>
    BY DEF Succeed
<1>2. IngestionTypeOK'
    BY <1>1, UntouchedIs, IngestionBoundsAssumption DEF IngestionInv, IngestionTypeOK, TaskStates, Begins, Ends,
       sourceVars, historyVars, interruptionVars
<1>3. TaskHolds' /\ FailsForCause'
    BY <1>1, UntouchedIs DEF TaskHolds, FailsForCause
<1>4. \A e \in EntityIds : (Extracted(e)' => Extracted(e)) /\ (Copied(e)' => Copied(e))
    BY <1>1 DEF Copied
<1>5. FreshHolds'
    BY <1>1 DEF FreshHolds, IngestionInv, interruptionVars
<1>6. (interrupted' => interruptions' > 0) /\ (interruptions > 0 => interruptions' > 0)
    BY <1>1 DEF IngestionInv, CausesHold, interruptionVars
<1> QED
    BY <1>1, <1>2, <1>3, <1>4, <1>5, <1>6, TaskMoveKeeps

(* The ends of the tasks keep it.                                          *)
LEMMA EndsKeep ==
    ASSUME IngestionInv, EndExtract \/ ValidateArtifacts \/ EndLoad \/ PassQuality
    PROVE  IngestionInv'
<1>1. dagRun # 0
    BY DEF IngestionInv, TaskHolds, EndExtract, ValidateArtifacts, EndLoad, PassQuality
<1>2. batchControl \in [BatchIds -> {"NONE", "RUNNING", "SUCCESS"}]
    BY DEF IngestionInv, IngestionTypeOK
<1>3. CASE EndExtract
    <2>1. task = "extracting" /\ \A e \in EntityIds : Extracted(e)
        BY <1>3 DEF EndExtract, All, EntityIds, Extracted
    <2> QED
        BY <1>1, <1>2, <1>3, <2>1, SucceedKeeps DEF EndExtract, tableVars
<1>4. CASE ValidateArtifacts
    BY <1>1, <1>2, <1>4, SucceedKeeps DEF ValidateArtifacts, tableVars, Extracted
<1>5. CASE EndLoad
    <2>1. \A e \in EntityIds : Extracted(e) /\ Copied(e) /\ progress[e] # "staged"
        BY <1>5 DEF EndLoad, All, EntityIds, Extracted, Copied
    <2>2. batchControl' \in [BatchIds -> {"NONE", "RUNNING", "SUCCESS"}]
        BY <1>2, <1>5 DEF EndLoad
    <2> QED
        BY <1>1, <1>5, <2>1, <2>2, SucceedKeeps DEF EndLoad
<1>6. CASE PassQuality
    BY <1>1, <1>2, <1>6, SucceedKeeps DEF PassQuality, tableVars, Extracted, Copied
<1> QED
    BY <1>3, <1>4, <1>5, <1>6

(* Beginning the load keeps it.                                            *)
LEMMA BeginLoadKeeps ==
    ASSUME IngestionInv, BeginLoad
    PROVE  IngestionInv'
<1>1. /\ task = "load" /\ task' = "copying" /\ progress' = progress /\ progress = Untouched
      /\ dagRun' = dagRun /\ dagRun # 0 /\ stage' = stage /\ UNCHANGED interruptionVars
    BY DEF IngestionInv, TaskHolds, BeginLoad
<1>2. IngestionTypeOK'
    <2>1. batchControl' \in [BatchIds -> {"NONE", "RUNNING", "SUCCESS"}]
        BY DEF IngestionInv, IngestionTypeOK, BeginLoad
    <2> QED
        BY <2>1 DEF IngestionInv, IngestionTypeOK, BeginLoad, TaskStates, sourceVars, historyVars, interruptionVars
<1>3. TaskHolds' /\ FailsForCause'
    BY <1>1, UntouchedIs DEF TaskHolds, FailsForCause
<1>4. \A e \in EntityIds : Extracted(e) /\ ~Copied(e)' /\ progress'[e] # "staged"
    BY <1>1, UntouchedIs DEF Extracted, Copied
<1>5. FreshHolds'
    BY <1>1 DEF FreshHolds, IngestionInv, interruptionVars
<1>6. (interrupted' => interruptions' > 0) /\ (interruptions > 0 => interruptions' > 0)
    BY <1>1 DEF IngestionInv, CausesHold, interruptionVars
<1> QED
    BY <1>1, <1>2, <1>3, <1>4, <1>5, <1>6, TaskMoveKeeps DEF BeginLoad

(* A try that is over, by itself or not.                                   *)
LEMMA RetryKeeps ==
    ASSUME IngestionInv, Interrupt \/ Raise
    PROVE  IngestionInv'
<1>1. /\ Retry /\ task \notin Ends /\ progress' = Untouched
      /\ UNCHANGED <<sourceVars, dagRun, landed, extracts, stage, tableVars, historyVars>>
      /\ \/ tries < Retries /\ tries' = tries + 1 /\ task' = BeginOf(task)
         \/ tries = Retries /\ tries' = tries /\ task' = "failed"
    BY DEF Interrupt, Raise, Retry
<1>2. /\ interrupted' \in BOOLEAN /\ interruptions' \in 0..MaxInterruptions
      /\ interrupted' = interrupted \/ interrupted' = TRUE
      /\ interrupted' => interruptions' > 0
      /\ interruptions > 0 => interruptions' > 0
    <2>1. interrupted \in BOOLEAN /\ interruptions \in 0..MaxInterruptions /\ MaxInterruptions \in Nat
        BY IngestionBoundsAssumption DEF IngestionInv, IngestionTypeOK
    <2>2. CASE Interrupt
        <3>1. interruptions' \in 0..MaxInterruptions /\ interruptions' > 0
            BY <2>1, <2>2 DEF Interrupt
        <3> QED
            BY <2>2, <3>1 DEF Interrupt
    <2>3. CASE Raise
        BY <2>1, <2>3 DEF Raise, interruptionVars, IngestionInv, CausesHold
    <2> QED
        BY <2>2, <2>3
<1>3. /\ task \in Begins \cup {"extracting", "copying"} /\ task' \in Begins \cup {"failed"}
      /\ (task' = "extract" => task \in {"extract", "extracting"})
      /\ (task' = "validate" => task = "validate")
      /\ (task' = "load" => task \in {"load", "copying"}) /\ (task' = "quality" => task = "quality")
    BY <1>1 DEF IngestionInv, IngestionTypeOK, TaskStates, Begins, Ends, BeginOf
<1>4. IngestionTypeOK'
    <2>1. tries' \in 0..Retries
        BY <1>1, IngestionBoundsAssumption DEF IngestionInv, IngestionTypeOK
    <2> QED
        BY <1>1, <1>2, <1>3, <2>1, UntouchedIs
           DEF IngestionInv, IngestionTypeOK, TaskStates, Begins, Ends, sourceVars, tableVars, historyVars
<1>5. dagRun # 0
    BY <1>1 DEF IngestionInv, TaskHolds, Ends
<1>6. TaskHolds'
    <2>1. task' = "extract" => interrupted' = TRUE
        <3>1. CASE Interrupt
            BY <3>1 DEF Interrupt
        <3>2. CASE Raise
            <4>1. task' = "extract" => task = "extract" /\ landed
                BY <1>3, <3>2 DEF Raise
            <4>2. task' = "extract" => interrupted
                BY <4>1 DEF IngestionInv, TaskHolds
            <4>3. interrupted \in BOOLEAN
                BY DEF IngestionInv, IngestionTypeOK
            <4> QED
                BY <1>2, <4>2, <4>3
        <3> QED
            BY <3>1, <3>2
    <2> QED
        BY <1>1, <1>3, <1>5, <2>1, UntouchedIs DEF TaskHolds, Begins
<1>7. FailsForCause'
    <2> SUFFICES ASSUME task' = "failed", interrupted' # TRUE
                 PROVE  \E e \in EntityIds : \A r \in due \cap RecordsOf(e) : CaughtUp(r)'
        BY <1>1, <1>2 DEF FailsForCause, historyVars, EntityIds, RecordsOf
    <2>1. Raise
        BY DEF Interrupt
    <2>2. ~(task = "extract" /\ landed)
        BY <1>2, <2>1 DEF IngestionInv, TaskHolds, IngestionTypeOK, Raise, interruptionVars
    <2>3. \A r \in Records : Accounted(r) => Accounted(r)'
        BY <1>1, <1>2, AccountedForGood DEF sourceVars, tableVars, historyVars
    <2>4. committed' = committed /\ committed \subseteq Records
        BY <1>1 DEF IngestionInv, IngestionTypeOK, sourceVars
    <2>5. SUFFICES ASSUME TRUE
                   PROVE  \E e \in EntityIds : /\ ExtractCovers(e) /\ Extracted(e)
                                               /\ \A r \in extracts[e] : Accounted(r)
        <3>1. PICK e \in EntityIds : /\ ExtractCovers(e) /\ Extracted(e)
                                     /\ \A r \in extracts[e] : Accounted(r)
            BY <2>5
        <3>2. ASSUME NEW r \in due \cap RecordsOf(e)
              PROVE  CaughtUp(r)'
            <4>1. PICK s \in {r} \cup newer[r] : s \in committed /\ (s \in extracts[e] \/ Accounted(s))
                BY <3>1 DEF ExtractCovers
            <4>2. s \in committed' /\ Accounted(s)'
                BY <2>3, <2>4, <3>1, <4>1
            <4> QED
                BY <4>2 DEF CaughtUp
        <3> QED
            BY <3>2
    <2>6. CASE task = "validate" /\ \E e \in 1..Entities : extracts[e] = {}
        <3>1. PICK e \in EntityIds : extracts[e] = {}
            BY <2>6 DEF EntityIds
        <3>2. ExtractCovers(e) /\ Extracted(e)
            BY <2>6 DEF IngestionInv, Extracted
        <3> QED
            BY <3>1, <3>2
    <2>7. CASE task = "quality" /\ \A e \in 1..Entities : LoadedNow(e) = {}
        <3>1. PICK e \in EntityIds : TRUE
            BY SourceAssumption DEF EntityIds
        <3>2. /\ ExtractCovers(e) /\ Extracted(e) /\ StageHolds(e) /\ Copied(e) /\ IngestionTypeOK
              /\ extracts[e] \subseteq Records
            BY <2>7, IngestionTypes DEF IngestionInv, Extracted, Copied
        <3>3. \A r \in extracts[e] : r \in unloadable \/ Filed(r)
            BY <3>2 DEF StageHolds
        <3>4. \A r \in extracts[e] : r \in unloadable
            BY <2>7, <3>2, <3>3 DEF Filed, LoadedNow, EntityIds
        <3> QED
            BY <3>2, <3>4 DEF Accounted
    <2> QED
        BY <2>1, <2>2, <2>6, <2>7 DEF Raise
<1>8. \A e \in EntityIds : (Extracted(e)' => Extracted(e)) /\ (Copied(e)' => Copied(e))
    BY <1>3 DEF Extracted, Copied, Begins
<1>9. task' \in {"extract", "extracting", "validate"} => task \in {"extract", "extracting", "validate"}
    BY <1>3 DEF Begins
<1>10. FreshHolds'
    <2>1. CASE Interrupt
        BY <2>1 DEF Interrupt, FreshHolds
    <2>2. CASE Raise
        BY <1>1, <2>2 DEF Raise, FreshHolds, IngestionInv, interruptionVars
    <2> QED
        BY <2>1, <2>2
<1>11. task' # "copying"
    BY <1>3 DEF Begins
<1> QED
    BY <1>1, <1>2, <1>4, <1>6, <1>7, <1>8, <1>9, <1>10, <1>11, TaskMoveKeeps DEF tableVars

(* Beginning a run keeps it.                                               *)
LEMMA BeginRunKeeps ==
    ASSUME IngestionInv, BeginRun
    PROVE  IngestionInv'
<1>1. /\ dagRun < MaxRuns /\ dagRun' = dagRun + 1 /\ task' = "extract" /\ tries' = 0 /\ landed' = FALSE
      /\ extracts' = [e \in 1..Entities |-> {}] /\ stage' = [e \in 1..Entities |-> "none"]
      /\ due' = committed /\ progress' = Untouched /\ interrupted' = FALSE
      /\ UNCHANGED <<sourceVars, tableVars, extractedAt, late, overrun, interruptions>>
    BY DEF BeginRun
<1>2. dagRun \in Nat /\ MaxRuns \in Nat /\ dagRun' \in 0..MaxRuns /\ dagRun' # 0
    BY <1>1, IngestionBoundsAssumption DEF IngestionInv, IngestionTypeOK
<1>3. IngestionTypeOK'
    <2>1. /\ tries' \in 0..Retries /\ extracts' \in [1..Entities -> SUBSET Records]
          /\ stage' \in [1..Entities -> {"none", "fresh", "loaded"}]
        BY <1>1, IngestionBoundsAssumption
    <2> QED
        BY <1>1, <1>2, <2>1, UntouchedIs
           DEF IngestionInv, IngestionTypeOK, TaskStates, Begins, sourceVars, tableVars
<1>4. MarksHold' /\ ClocksAgree' /\ OverrunHolds' /\ CausesHold'
    BY <1>1 DEF IngestionInv, MarksHold, ClocksAgree, OverrunHolds, CausesHold, sourceVars, tableVars,
                Accounted, InRaw, Misfiled, Superseded
<1>5. CommittedAreWritten'
    BY <1>1 DEF IngestionInv, CommittedAreWritten, Superseded, sourceVars
<1>6. RawHolds'
    <2> SUFFICES ASSUME NEW r \in Records, NEW f \in EntityIds, NEW b \in BatchIds, <<r, f, b>> \in raw
                 PROVE  b <= dagRun' /\ b # dagRun'
        BY <1>1 DEF RawHolds, tableVars
    <2>1. b <= dagRun /\ b \in Nat
        BY DEF IngestionInv, RawHolds, BatchIds
    <2> QED
        BY <1>1, <1>2, <2>1
<1>7. TaskHolds' /\ FailsForCause'
    BY <1>1, <1>2, UntouchedIs DEF TaskHolds, FailsForCause
<1>8. \A e \in EntityIds : ExtractCovers(e)' /\ ExtractHolds(e)' /\ StageHolds(e)'
    BY <1>1 DEF ExtractCovers, Extracted, ExtractHolds, StageHolds, Copied, EntityIds
<1>9. FreshHolds'
    BY <1>1 DEF FreshHolds, EntityIds
<1> QED
    BY <1>3, <1>4, <1>5, <1>6, <1>7, <1>8, <1>9 DEF IngestionInv

-----------------------------------------------------------------------------
(* The source.                                                             *)

LEMMA SourceTicksKeeps ==
    ASSUME IngestionInv, SourceTicks
    PROVE  IngestionInv'
<1>1. /\ sourceClock < MaxClock /\ sourceClock' = sourceClock + 1
      /\ UNCHANGED <<stamp, unloadable, committed, dagRun, task, tries, landed, extracts, stage,
                     progress, tableVars, historyVars, interruptionVars>>
    BY DEF SourceTicks
<1>2. IngestionTypeOK'
    <2>1. sourceClock' \in Instants
        BY <1>1, IngestionBoundsAssumption DEF IngestionInv, IngestionTypeOK, Instants
    <2> QED
        BY <1>1, <2>1 DEF IngestionInv, IngestionTypeOK, tableVars, historyVars, interruptionVars
<1>3. ClocksAgree'
    <2>1. IngestionTypeOK
        BY DEF IngestionInv
    <2> QED
        BY <1>1, <2>1, IngestionTypes DEF IngestionInv, ClocksAgree, tableVars, historyVars
<1>4. committed \subseteq Records /\ \A r \in Records : Accounted(r) => Accounted(r)'
    BY <1>1, AccountedForGood DEF IngestionInv, IngestionTypeOK, tableVars, historyVars, interruptionVars
<1>5. MarksHold' /\ CommittedAreWritten'
    BY <1>1, <1>4 DEF IngestionInv, MarksHold, CommittedAreWritten, Superseded, tableVars, historyVars
<1>6. OverrunHolds' /\ CausesHold' /\ FreshHolds' /\ RawHolds' /\ TaskHolds'
    BY <1>1 DEF IngestionInv, OverrunHolds, CausesHold, FreshHolds, RawHolds, TaskHolds, LoadedNow, RecordsOf,
                Untouched, tableVars, historyVars, interruptionVars
<1>7. FailsForCause'
    BY <1>1, <1>4, CauseStays DEF IngestionInv, historyVars, interruptionVars
<1>8. ASSUME NEW e \in EntityIds
      PROVE  ExtractCovers(e)' /\ ExtractHolds(e)' /\ StageHolds(e)'
    <2>1. ExtractCovers(e) /\ ExtractHolds(e) /\ StageHolds(e)
        BY DEF IngestionInv
    <2>2. ExtractCovers(e)'
        <3>1. Extracted(e)' => Extracted(e)
            BY <1>1 DEF Extracted
        <3> QED
            BY <1>1, <1>4, <2>1, <3>1, CoversStays DEF historyVars, RecordsOf
    <2>3. ExtractHolds(e)' /\ StageHolds(e)'
        BY <1>1, <2>1 DEF ExtractHolds, StageHolds, Copied, Filed, RecordsOf, tableVars, historyVars
    <2> QED
        BY <2>2, <2>3
<1> QED
    BY <1>2, <1>3, <1>5, <1>6, <1>7, <1>8 DEF IngestionInv

(* A commit at the source keeps it: the record is due only above every     *)
(* extract that could have seen it, and it is the current version.         *)
LEMMA CommitKeeps ==
    ASSUME IngestionInv, NEW q \in Records, Commit(q)
    PROVE  IngestionInv'
<1>1. /\ stamp[q] # 0 /\ committed' = committed \cup {q} /\ q \notin committed
      /\ \A p \in Records : q \in newer[p] => p \in committed
      /\ UNCHANGED <<sourceClock, stamp, unloadable, dagRun, task, tries, landed, extracts, stage,
                     progress, tableVars, historyVars, interruptionVars>>
    BY DEF Commit
<1>2. IngestionTypeOK' /\ ClocksAgree' /\ committed \subseteq Records
    BY <1>1 DEF IngestionInv, IngestionTypeOK, ClocksAgree, tableVars, historyVars, interruptionVars
<1>3. \A r \in Records : /\ Accounted(r)' <=> Accounted(r)
                         /\ Superseded(r) => Superseded(r)'
    BY <1>1 DEF Accounted, InRaw, Misfiled, Superseded, tableVars, historyVars, interruptionVars
<1>4. MarksHold'
    BY <1>1, <1>3 DEF IngestionInv, MarksHold, tableVars
<1>5. OverrunHolds' /\ CausesHold' /\ FreshHolds' /\ RawHolds' /\ TaskHolds'
    BY <1>1 DEF IngestionInv, OverrunHolds, CausesHold, FreshHolds, RawHolds, TaskHolds, LoadedNow, RecordsOf,
                Untouched, tableVars, historyVars, interruptionVars
<1>6. FailsForCause'
    BY <1>1, <1>2, <1>3, CauseStays DEF IngestionInv, historyVars, interruptionVars
<1>7. CommittedAreWritten'
    <2>1. CommittedAreWritten
        BY DEF IngestionInv
    <2>2. due' \subseteq committed' /\ \A r \in committed' : stamp'[r] # 0
        BY <1>1, <2>1 DEF CommittedAreWritten, historyVars
    <2>3. \A p \in Records : \A r \in newer[p] \cap committed' : p \in committed'
        BY <1>1, <2>1 DEF CommittedAreWritten
    <2>4. ~Superseded(q)'
        <3>1. \A s \in newer[q] : s # q /\ s \notin committed
            BY <1>1, <2>1, VersionsAre DEF CommittedAreWritten
        <3> QED
            BY <1>1, <3>1 DEF Superseded
    <2>5. ASSUME NEW r \in committed'
          PROVE  \E s \in {r} \cup newer[r] : s \in committed' /\ ~Superseded(s)'
        <3>1. CASE r = q
            BY <1>1, <2>4, <3>1
        <3>2. CASE r \in committed
            <4>1. PICK s \in {r} \cup newer[r] : s \in committed /\ ~Superseded(s)
                BY <2>1, <3>2 DEF CommittedAreWritten
            <4>2. CASE q \in newer[s]
                <5>1. q \in newer[r]
                    BY <1>2, <3>2, <4>1, <4>2, VersionsAre
                <5> QED
                    BY <1>1, <2>4, <5>1
            <4>3. CASE q \notin newer[s]
                <5>1. ~Superseded(s)'
                    BY <1>1, <4>1, <4>3 DEF Superseded
                <5> QED
                    BY <1>1, <4>1, <5>1
            <4> QED
                BY <4>2, <4>3
        <3> QED
            BY <1>1, <3>1, <3>2
    <2> QED
        BY <2>2, <2>3, <2>5 DEF CommittedAreWritten
<1>8. ASSUME NEW e \in EntityIds
      PROVE  ExtractCovers(e)' /\ ExtractHolds(e)' /\ StageHolds(e)'
    <2>1. ExtractCovers(e) /\ ExtractHolds(e) /\ StageHolds(e)
        BY DEF IngestionInv
    <2>2. ExtractCovers(e)'
        <3>1. Extracted(e)' => Extracted(e)
            BY <1>1 DEF Extracted
        <3> QED
            BY <1>1, <1>2, <1>3, <2>1, <3>1, CoversStays DEF historyVars, RecordsOf
    <2>3. ExtractHolds(e)' /\ StageHolds(e)'
        BY <1>1, <2>1 DEF ExtractHolds, StageHolds, Copied, Filed, RecordsOf, tableVars, historyVars
    <2> QED
        BY <2>2, <2>3
<1> QED
    BY <1>2, <1>4, <1>5, <1>6, <1>7, <1>8 DEF IngestionInv

(* A record that is written at an instant of an extraction is late; one    *)
(* that is written after it is stamped after it, and not above a watermark *)
(* but where an interruption has moved it.                                 *)
LEMMA WriteKeeps ==
    ASSUME IngestionInv, NEW q \in Records, Write(q)
    PROVE  IngestionInv'
<1>1. /\ stamp[q] = 0 /\ stamp' = [stamp EXCEPT ![q] = sourceClock]
      /\ late' = IF extractedAt[entityOf[q]] = sourceClock THEN late \cup {q} ELSE late
      /\ UNCHANGED <<sourceClock, committed, dagRun, task, tries, landed, extracts, stage, progress,
                     tableVars, due, extractedAt, overrun, interruptionVars>>
    BY DEF Write
<1>2. unloadable \subseteq unloadable' /\ unloadable' \subseteq Doubtful
    BY DEF IngestionInv, IngestionTypeOK, Write
<1>3. /\ IngestionTypeOK /\ raw' = raw /\ late \subseteq late' /\ late' \subseteq Records
      /\ committed \subseteq Records /\ q \notin committed
    BY <1>1 DEF IngestionInv, IngestionTypeOK, tableVars, CommittedAreWritten
<1>4. IngestionTypeOK'
    BY <1>1, <1>2, <1>3 DEF IngestionTypeOK, tableVars, interruptionVars
<1>5. /\ stamp'[q] = sourceClock /\ \A r \in Records \ {q} : stamp'[r] = stamp[r]
      /\ sourceClock >= 1 /\ sourceClock \in Nat
    BY <1>1, <1>3, IngestionTypes DEF IngestionTypeOK, IngestionInv, ClocksAgree
<1>6. ClocksAgree' /\ CommittedAreWritten'
    <2>1. \A r \in Records : stamp'[r] <= sourceClock
        BY <1>5 DEF IngestionInv, ClocksAgree
    <2>2. \A r \in committed : stamp'[r] # 0
        BY <1>3, <1>5 DEF IngestionInv, CommittedAreWritten
    <2> QED
        BY <1>1, <2>1, <2>2 DEF IngestionInv, ClocksAgree, CommittedAreWritten, Superseded, tableVars
<1>7. \A r \in Records \ {q} : Accounted(r) => Accounted(r)'
    <2>1. interruptions > 0 => interruptions' > 0
        BY <1>1 DEF interruptionVars
    <2> QED
        BY <1>1, <1>2, <1>3, <1>5, <2>1, AccountedForGood
(* It is accounted for if it does not come after what was extracted.       *)
<1>8. /\ stamp'[q] <= extractedAt[entityOf[q]] => Accounted(q)'
      /\ stamp'[q] <= mark[entityOf[q]] => Accounted(q)'
    <2>1. /\ mark[entityOf[q]] <= sourceClock /\ extractedAt[entityOf[q]] <= sourceClock
          /\ mark[entityOf[q]] \in Nat /\ extractedAt[entityOf[q]] \in Nat /\ entityOf[q] \in EntityIds
        BY <1>3, IngestionTypes DEF IngestionInv, ClocksAgree
    <2>2. CASE extractedAt[entityOf[q]] = sourceClock
        BY <1>1, <2>2 DEF Accounted
    <2>3. CASE extractedAt[entityOf[q]] # sourceClock /\ mark[entityOf[q]] = sourceClock
        <3>1. extractedAt[entityOf[q]] < sourceClock
            BY <1>5, <2>1, <2>3
        <3>2. <<entityOf[q], sourceClock>> \in overrun
            BY <1>5, <2>1, <2>3, <3>1 DEF IngestionInv, OverrunHolds
        <3>3. interruptions > 0
            BY <3>2 DEF IngestionInv, CausesHold
        <3> QED
            BY <1>1, <1>5, <3>2, <3>3 DEF Accounted, interruptionVars
    <2>4. CASE extractedAt[entityOf[q]] # sourceClock /\ mark[entityOf[q]] # sourceClock
        BY <1>5, <2>1, <2>4
    <2> QED
        BY <2>2, <2>3, <2>4
<1>9. MarksHold'
    <2> SUFFICES ASSUME NEW r \in Records, stamp'[r] # 0, stamp'[r] <= mark[entityOf[r]]
                 PROVE  Accounted(r)' \/ Superseded(r)'
        BY <1>1 DEF MarksHold, tableVars
    <2>1. CASE r = q
        BY <1>8, <2>1
    <2>2. CASE r # q
        <3>1. Accounted(r) \/ Superseded(r)
            BY <1>5, <2>2 DEF IngestionInv, MarksHold
        <3>2. Superseded(r) => Superseded(r)'
            BY <1>1 DEF Superseded
        <3> QED
            BY <1>7, <2>2, <3>1, <3>2
    <2> QED
        BY <2>1, <2>2
<1>10. RawHolds' /\ TaskHolds' /\ OverrunHolds' /\ CausesHold' /\ FreshHolds'
    BY <1>1 DEF IngestionInv, RawHolds, TaskHolds, OverrunHolds, CausesHold, FreshHolds, LoadedNow, RecordsOf,
                Untouched, tableVars, interruptionVars
<1>11. FailsForCause'
    BY <1>1, <1>3, <1>7, CauseStays DEF IngestionInv, interruptionVars
<1>12. ASSUME NEW e \in EntityIds
       PROVE  ExtractCovers(e)' /\ ExtractHolds(e)' /\ StageHolds(e)'
    <2>1. ExtractCovers(e) /\ ExtractHolds(e) /\ StageHolds(e)
        BY DEF IngestionInv
    <2>2. ExtractCovers(e)'
        <3>1. Extracted(e)' => Extracted(e)
            BY <1>1 DEF Extracted
        <3>2. \A r \in RecordsOf(e) : r \in Records /\ entityOf[r] = e
            BY DEF RecordsOf
        <3>3. \A r \in RecordsOf(e) :
                 stamp'[r] # 0 /\ stamp'[r] <= extractedAt[e] =>
                    \/ stamp'[r] = stamp[r] /\ (Accounted(r) => Accounted(r)')
                    \/ Accounted(r)'
            BY <1>5, <1>7, <1>8, <3>2
        <3> QED
            BY <1>1, <1>3, <1>7, <2>1, <3>1, <3>3, CoversStays
    <2>3. ExtractHolds(e)'
        <3>1. q \notin extracts[e]
            BY <1>1, <2>1 DEF ExtractHolds
        <3>2. extracts[e] \subseteq Records
            BY <1>3, IngestionTypes
        <3> QED
            BY <1>1, <1>5, <2>1, <3>1, <3>2 DEF ExtractHolds, RecordsOf
    <2>4. StageHolds(e)'
        BY <1>1, <1>2, <2>1 DEF StageHolds, Copied, Filed, tableVars
    <2> QED
        BY <2>2, <2>3, <2>4
<1> QED
    BY <1>4, <1>6, <1>9, <1>10, <1>11, <1>12 DEF IngestionInv

-----------------------------------------------------------------------------
(* The steps for one entity.                                               *)

(* An extraction takes the current version of each row that is above the   *)
(* watermark; what is written and not committed is late from here on.      *)
LEMMA ExtractEntityKeeps ==
    ASSUME IngestionInv, NEW d \in EntityIds, ExtractEntity(d)
    PROVE  IngestionInv'
<1>1. /\ task = "extracting" /\ progress' = [progress EXCEPT ![d] = "done"]
      /\ IsNext(d, "todo")
      /\ extracts' = [extracts EXCEPT ![d] = Visible(d)]
      /\ extractedAt' = [extractedAt EXCEPT ![d] = sourceClock]
      /\ late' = late \cup {r \in RecordsOf(d) \ committed : stamp[r] # 0}
      /\ UNCHANGED <<sourceVars, dagRun, task, tries, landed, stage, tableVars, due, overrun,
                     interruptionVars>>
    BY DEF ExtractEntity
<1>2. /\ IngestionTypeOK /\ raw' = raw /\ late \subseteq late' /\ late' \subseteq Records
      /\ unloadable' = unloadable /\ stamp' = stamp /\ committed' = committed /\ mark' = mark
      /\ sourceClock' = sourceClock /\ overrun' = overrun /\ stage' = stage
      /\ interrupted' = interrupted /\ interruptions' = interruptions
    BY <1>1 DEF IngestionInv, IngestionTypeOK, tableVars, sourceVars, RecordsOf, interruptionVars
<1>3. Visible(d) \subseteq Records /\ Visible(d) \subseteq RecordsOf(d) /\ committed \subseteq Records
    BY <1>2 DEF Visible, RecordsOf, IngestionTypeOK
<1>4. IngestionTypeOK'
    <2>1. extracts' \in [1..Entities -> SUBSET Records]
        BY <1>1, <1>2, <1>3 DEF IngestionTypeOK
    <2>2. extractedAt' \in [1..Entities -> Instants]
        BY <1>1, <1>2 DEF IngestionTypeOK
    <2>3. progress' \in [1..Entities -> {"todo", "staged", "copied", "marked", "done"}]
        BY <1>1, <1>2 DEF IngestionTypeOK
    <2> QED
        BY <1>1, <1>2, <2>1, <2>2, <2>3 DEF IngestionTypeOK, sourceVars, tableVars, interruptionVars
<1>5. /\ extracts'[d] = Visible(d) /\ extractedAt'[d] = sourceClock /\ progress'[d] = "done"
      /\ \A e \in EntityIds \ {d} : /\ extracts'[e] = extracts[e] /\ extractedAt'[e] = extractedAt[e]
                                   /\ progress'[e] = progress[e]
    BY <1>1, <1>2 DEF IngestionTypeOK, EntityIds
<1>6. /\ \A r \in Records : Accounted(r) => Accounted(r)'
      /\ \A r \in Records : Superseded(r)' <=> Superseded(r)
    BY <1>2, AccountedForGood DEF Superseded
<1>7. MarksHold'
    BY <1>2, <1>6 DEF IngestionInv, MarksHold
<1>8. ClocksAgree' /\ OverrunHolds'
    <2>1. \A e \in EntityIds : /\ mark[e] \in Nat /\ extractedAt[e] \in Nat /\ sourceClock \in Nat
                              /\ mark[e] <= sourceClock /\ extractedAt[e] <= sourceClock
        BY <1>2, IngestionTypes DEF IngestionInv, ClocksAgree
    <2>2. \A e \in EntityIds : extractedAt'[e] <= sourceClock /\ extractedAt[e] <= extractedAt'[e]
                               /\ extractedAt'[e] \in Nat
        BY <1>5, <2>1
    <2>3. ClocksAgree'
        BY <1>2, <2>1, <2>2 DEF IngestionInv, ClocksAgree
    <2>4. OverrunHolds'
        <3> SUFFICES ASSUME NEW e \in EntityIds, NEW t \in Nat, extractedAt'[e] < t, t <= mark[e]
                     PROVE  <<e, t>> \in overrun
            BY <1>2 DEF OverrunHolds
        <3>1. extractedAt[e] < t
            BY <2>1, <2>2
        <3> QED
            BY <3>1 DEF IngestionInv, OverrunHolds
    <2> QED
        BY <2>3, <2>4
<1>9. RawHolds' /\ CausesHold' /\ FreshHolds'
    <2>1. RawHolds'
        BY <1>1, <1>2 DEF IngestionInv, RawHolds
    <2>2. CausesHold'
        BY <1>1, <1>2 DEF IngestionInv, CausesHold
    <2>3. FreshHolds'
        BY <1>1, <1>2 DEF IngestionInv, FreshHolds
    <2> QED
        BY <2>1, <2>2, <2>3
<1>10. CommittedAreWritten'
    BY <1>1, <1>2, <1>3, <1>6 DEF IngestionInv, CommittedAreWritten
<1>11. FailsForCause'
    BY <1>1 DEF FailsForCause
<1>12. TaskHolds'
    <2>1. dagRun' = dagRun /\ task' = task /\ TaskHolds
        BY <1>1 DEF IngestionInv
    <2>2. \A e \in EntityIds : progress'[e] # "todo" => \A c \in 1..e - 1 : progress'[c] = "done"
        <3> SUFFICES ASSUME NEW e \in EntityIds, progress'[e] # "todo", NEW c \in 1..e - 1
                     PROVE  progress'[c] = "done"
            OBVIOUS
        <3>1. c \in EntityIds
            BY SourceAssumption DEF EntityIds
        <3>2. CASE c = d
            BY <1>5, <3>2
        <3>3. CASE c # d /\ e = d
            BY <1>1, <1>5, <3>1, <3>3 DEF IsNext
        <3>4. CASE c # d /\ e # d
            BY <1>5, <2>1, <3>1, <3>4 DEF TaskHolds
        <3> QED
            BY <3>2, <3>3, <3>4
    <2> QED
        BY <1>1, <1>5, <2>1, <2>2 DEF TaskHolds
<1>13. ASSUME NEW e \in EntityIds
       PROVE  ExtractCovers(e)' /\ ExtractHolds(e)' /\ StageHolds(e)'
    <2>1. StageHolds(e)'
        BY <1>1, <1>2 DEF IngestionInv, StageHolds, Copied
    <2>2. CASE e = d
        <3>1. ExtractHolds(d)'
            <4>1. \A r \in RecordsOf(d) \cap committed : stamp[r] # 0 /\ stamp[r] <= sourceClock
                BY DEF IngestionInv, CommittedAreWritten, ClocksAgree, RecordsOf
            <4> QED
                BY <1>2, <1>5, <4>1 DEF ExtractHolds, Visible, RecordsOf
        <3>2. ASSUME NEW r \in RecordsOf(d), stamp[r] # 0
              PROVE  r \in Visible(d) \/ Accounted(r)' \/ Superseded(r)
            <4>1. r \in Records /\ entityOf[r] = d
                BY DEF RecordsOf
            <4>2. CASE r \notin committed
                BY <1>1, <3>2, <4>2 DEF Accounted
            <4>3. CASE r \in committed /\ r \notin Visible(d) /\ ~Superseded(r)
                <5>1. mark[d] # 0 /\ ~(stamp[r] > mark[d])
                    BY <4>3 DEF Visible
                <5>2. stamp[r] <= mark[d]
                    BY <1>2, <4>1, <5>1, IngestionTypes
                <5>3. Accounted(r)
                    BY <3>2, <4>1, <4>3, <5>2 DEF IngestionInv, MarksHold
                <5> QED
                    BY <1>6, <4>1, <5>3
            <4> QED
                BY <4>2, <4>3
        <3>3. ASSUME NEW r \in RecordsOf(d), r \in due
              PROVE  \E s \in {r} \cup newer[r] : s \in committed /\ (s \in Visible(d) \/ Accounted(s)')
            <4>1. r \in Records /\ r \in committed
                BY <3>3 DEF RecordsOf, IngestionInv, CommittedAreWritten
            <4>2. PICK s \in {r} \cup newer[r] : s \in committed /\ ~Superseded(s)
                BY <4>1 DEF IngestionInv, CommittedAreWritten
            <4>3. s \in RecordsOf(d) /\ stamp[s] # 0
                BY <1>3, <4>1, <4>2, VersionsAre DEF RecordsOf, IngestionInv, CommittedAreWritten
            <4> QED
                BY <3>2, <4>2, <4>3
        <3>4. ExtractCovers(d)'
            BY <1>1, <1>2, <1>5, <1>6, <3>2, <3>3 DEF ExtractCovers, RecordsOf
        <3> QED
            BY <2>1, <2>2, <3>1, <3>4
    <2>3. CASE e # d
        <3>1. ExtractCovers(e) /\ ExtractHolds(e)
            BY DEF IngestionInv
        <3>2. Extracted(e)' => Extracted(e)
            BY <1>1, <1>5, <2>3 DEF Extracted
        <3>3. ExtractCovers(e)'
            BY <1>1, <1>2, <1>3, <1>5, <1>6, <2>3, <3>1, <3>2, CoversStays DEF RecordsOf
        <3>4. ExtractHolds(e)'
            BY <1>2, <1>5, <2>3, <3>1 DEF ExtractHolds, RecordsOf
        <3> QED
            BY <2>1, <3>3, <3>4
    <2> QED
        BY <2>2, <2>3
<1> QED
    BY <1>4, <1>7, <1>8, <1>9, <1>10, <1>11, <1>12, <1>13 DEF IngestionInv

(* A step of the load for one entity.                                      *)
LEMMA LoadMoveKeeps ==
    ASSUME IngestionInv, NEW d \in EntityIds, NEW from \in {"todo", "staged", "copied", "marked"},
           NEW to \in {"staged", "copied", "marked", "done"}, LoadMoves(d, from, to),
           raw \subseteq raw', raw' \subseteq Records \X EntityIds \X BatchIds,
           stage' \in [1..Entities -> {"none", "fresh", "loaded"}],
           mark' \in [1..Entities -> Instants], auditMark' \in [1..Entities -> Instants],
           overrun \subseteq overrun', overrun' \subseteq EntityIds \X Instants,
           \A e \in EntityIds : mark'[e] <= sourceClock,
           RawHolds', MarksHold', OverrunHolds', CausesHold', FreshHolds',
           \A e \in EntityIds : StageHolds(e)',
           to = "marked" => LoadedNow(d) # {}
    PROVE  IngestionInv'
<1>1. /\ task = "copying" /\ task' = "copying" /\ progress' = [progress EXCEPT ![d] = to]
      /\ progress[d] = from /\ IsNext(d, from)
      /\ UNCHANGED <<sourceVars, dagRun, tries, landed, extracts, batchControl, due, extractedAt, late,
                     interruptionVars>>
    BY DEF LoadMoves, IsNext
<1>2. IngestionTypeOK /\ committed \subseteq Records
    BY DEF IngestionInv, IngestionTypeOK
<1>3. IngestionTypeOK'
    <2>1. progress' \in [1..Entities -> {"todo", "staged", "copied", "marked", "done"}]
        BY <1>1, <1>2 DEF IngestionTypeOK
    <2> QED
        BY <1>1, <1>2, <2>1 DEF IngestionTypeOK, sourceVars, interruptionVars, EntityIds
<1>4. progress'[d] = to /\ \A e \in EntityIds \ {d} : progress'[e] = progress[e]
    BY <1>1, <1>2 DEF IngestionTypeOK, EntityIds
<1>5. ClocksAgree' /\ CommittedAreWritten'
    BY <1>1 DEF IngestionInv, ClocksAgree, CommittedAreWritten, Superseded, sourceVars
<1>6. TaskHolds' /\ FailsForCause'
    <2>1. \A e \in EntityIds : LoadedNow(e) \subseteq LoadedNow(e)'
        BY <1>1 DEF LoadedNow
    <2>2. \A e \in EntityIds : progress'[e] = "marked" => LoadedNow(e) # {}
        BY <1>1, <1>4 DEF IngestionInv, TaskHolds
    <2>3. dagRun # 0
        BY <1>1 DEF IngestionInv, TaskHolds
    <2>4. \A e \in EntityIds : progress'[e] # "todo" => \A c \in 1..e - 1 : progress'[c] = "done"
        <3> SUFFICES ASSUME NEW e \in EntityIds, progress'[e] # "todo", NEW c \in 1..e - 1
                     PROVE  progress'[c] = "done"
            OBVIOUS
        <3>1. c \in EntityIds /\ c # e
            BY SourceAssumption DEF EntityIds
        <3>2. CASE e = d
            BY <1>1, <1>4, <3>1, <3>2 DEF IsNext
        <3>3. CASE e # d
            <4>1. progress[c] = "done"
                BY <1>4, <3>3 DEF IngestionInv, TaskHolds
            <4>2. c # d
                BY <1>1, <4>1
            <4> QED
                BY <1>4, <3>1, <4>1, <4>2
        <3> QED
            BY <3>2, <3>3
    <2> QED
        BY <1>1, <2>1, <2>2, <2>3, <2>4 DEF TaskHolds, FailsForCause
<1>7. \A r \in Records : Accounted(r) => Accounted(r)'
    BY <1>1, AccountedForGood DEF sourceVars, interruptionVars
<1>8. ASSUME NEW e \in EntityIds
      PROVE  ExtractCovers(e)' /\ ExtractHolds(e)'
    <2>1. ExtractCovers(e) /\ ExtractHolds(e)
        BY DEF IngestionInv
    <2>2. Extracted(e) /\ Extracted(e)'
        BY <1>1 DEF Extracted
    <2>3. ExtractCovers(e)'
        BY <1>1, <1>2, <1>7, <2>1, <2>2, CoversStays DEF RecordsOf, sourceVars
    <2>4. ExtractHolds(e)'
        BY <1>1, <2>1 DEF ExtractHolds, RecordsOf, sourceVars
    <2> QED
        BY <2>3, <2>4
<1> QED
    BY <1>3, <1>5, <1>6, <1>8 DEF IngestionInv

(* What a step of the load leaves as it is.                                *)
LEMMA LoadMoveLeaves ==
    ASSUME IngestionInv, NEW d \in EntityIds, NEW from, NEW to, LoadMoves(d, from, to)
    PROVE  /\ task = "copying" /\ task' = "copying" /\ progress[d] = from
           /\ progress'[d] = to /\ \A e \in EntityIds \ {d} : progress'[e] = progress[e]
           /\ \A c \in 1..d - 1 : progress[c] = "done"
           /\ dagRun' = dagRun /\ dagRun # 0 /\ dagRun \in BatchIds
           /\ extracts' = extracts /\ unloadable' = unloadable /\ late' = late /\ stamp' = stamp
           /\ extractedAt' = extractedAt /\ committed' = committed /\ sourceClock' = sourceClock
           /\ interrupted' = interrupted /\ interruptions' = interruptions
           /\ IngestionTypeOK
           /\ stage \in [1..Entities -> {"none", "fresh", "loaded"}]
           /\ mark \in [1..Entities -> Instants] /\ auditMark \in [1..Entities -> Instants]
           /\ raw \subseteq Records \X EntityIds \X BatchIds /\ overrun \subseteq EntityIds \X Instants
<1>1. /\ task = "copying" /\ task' = task /\ progress' = [progress EXCEPT ![d] = to]
      /\ progress[d] = from /\ \A c \in 1..d - 1 : progress[c] = "done"
      /\ UNCHANGED <<sourceVars, dagRun, extracts, extractedAt, late, interruptionVars>>
    BY DEF LoadMoves, IsNext
<1>2. IngestionTypeOK /\ TaskHolds
    BY DEF IngestionInv
<1>3. dagRun # 0
    BY <1>1, <1>2 DEF TaskHolds
<1>4. dagRun \in BatchIds
    BY <1>2, <1>3, IngestionBoundsAssumption DEF IngestionTypeOK, BatchIds
<1>5. progress'[d] = to /\ \A e \in EntityIds \ {d} : progress'[e] = progress[e]
    BY <1>1, <1>2 DEF IngestionTypeOK, EntityIds
<1> QED
    BY <1>1, <1>2, <1>3, <1>4, <1>5 DEF IngestionTypeOK, sourceVars, interruptionVars, EntityIds

(* Watermarks that stay as they are hold on to what they pass over.        *)
LEMMA SameMarksHold ==
    ASSUME IngestionInv, NEW d \in EntityIds, NEW from, NEW to, LoadMoves(d, from, to),
           mark' = mark, overrun' = overrun, raw \subseteq raw'
    PROVE  /\ MarksHold' /\ OverrunHolds' /\ \A e \in EntityIds : mark'[e] <= sourceClock
           /\ mark' \in [1..Entities -> Instants] /\ overrun' \subseteq EntityIds \X Instants
<1>1. /\ unloadable' = unloadable /\ late' = late /\ stamp' = stamp /\ extractedAt' = extractedAt
      /\ committed' = committed /\ interruptions' = interruptions
      /\ mark \in [1..Entities -> Instants] /\ overrun \subseteq EntityIds \X Instants
    BY LoadMoveLeaves
<1>2. \A r \in Records : Accounted(r) => Accounted(r)'
    BY <1>1, AccountedForGood
<1>3. MarksHold'
    BY <1>1, <1>2 DEF IngestionInv, MarksHold, Superseded
<1>4. OverrunHolds' /\ \A e \in EntityIds : mark'[e] <= sourceClock
    BY <1>1 DEF IngestionInv, OverrunHolds, ClocksAgree
<1> QED
    BY <1>1, <1>3, <1>4

(* Putting a file keeps it: there may be a fresh one now, its own.         *)
LEMMA PutEntityKeeps ==
    ASSUME IngestionInv, NEW d \in EntityIds, PutEntity(d)
    PROVE  IngestionInv'
<1>1. LoadMoves(d, "todo", "staged") /\ mark' = mark /\ auditMark' = auditMark /\ raw' = raw
      /\ overrun' = overrun
    BY DEF PutEntity
<1>2. PICK file \in {"fresh"} \cup ({"loaded"} \cap {stage[d]}) : stage' = [stage EXCEPT ![d] = file]
    BY DEF PutEntity
<1>3. /\ task = "copying" /\ task' = "copying" /\ progress[d] = "todo"
      /\ progress'[d] = "staged" /\ \A e \in EntityIds \ {d} : progress'[e] = progress[e]
      /\ dagRun' = dagRun /\ extracts' = extracts /\ unloadable' = unloadable
      /\ interrupted' = interrupted /\ interruptions' = interruptions
      /\ stage \in [1..Entities -> {"none", "fresh", "loaded"}]
      /\ auditMark \in [1..Entities -> Instants] /\ raw \subseteq Records \X EntityIds \X BatchIds
    BY <1>1, LoadMoveLeaves
<1>4. /\ stage' \in [1..Entities -> {"none", "fresh", "loaded"}]
      /\ stage'[d] = file /\ \A e \in EntityIds \ {d} : stage'[e] = stage[e]
    BY <1>2, <1>3 DEF EntityIds
<1>5. /\ MarksHold' /\ OverrunHolds' /\ \A e \in EntityIds : mark'[e] <= sourceClock
      /\ mark' \in [1..Entities -> Instants] /\ overrun' \subseteq EntityIds \X Instants
    BY <1>1, SameMarksHold
<1>6. RawHolds' /\ CausesHold'
    BY <1>1, <1>3 DEF IngestionInv, RawHolds, CausesHold
<1>7. FreshHolds'
    <2>1. \A e \in EntityIds : stage[e] = "fresh" /\ ~interrupted => progress[e] = "staged"
        BY DEF IngestionInv, FreshHolds
    <2> QED
        BY <1>3, <1>4, <2>1 DEF FreshHolds
<1>8. ASSUME NEW e \in EntityIds
      PROVE  StageHolds(e)'
    <2>1. StageHolds(e)
        BY DEF IngestionInv
    <2>2. CASE e = d
        <3>1. ~Copied(d)' /\ file # "none"
            BY <1>3 DEF Copied
        <3>2. file = "loaded" => stage[d] = "loaded"
            OBVIOUS
        <3> QED
            BY <1>1, <1>3, <1>4, <2>1, <2>2, <3>1, <3>2 DEF StageHolds, Filed
    <2>3. CASE e # d
        BY <1>1, <1>3, <1>4, <2>1, <2>3 DEF StageHolds, Filed, Copied
    <2> QED
        BY <2>2, <2>3
<1> QED
    BY <1>1, <1>3, <1>4, <1>5, <1>6, <1>7, <1>8, LoadMoveKeeps

(* COPY keeps it: it files another entity's rows only after an             *)
(* interruption has left that entity's file to be loaded.                  *)
LEMMA CopyEntityKeeps ==
    ASSUME IngestionInv, NEW d \in EntityIds, CopyEntity(d)
    PROVE  IngestionInv'
<1> DEFINE rows == (UNION {extracts[c] : c \in Taken(d)}) \ unloadable
<1>1. /\ LoadMoves(d, "staged", "copied") /\ mark' = mark /\ auditMark' = auditMark /\ overrun' = overrun
      /\ raw' = raw \cup {<<r, d, dagRun>> : r \in rows}
      /\ stage' = [e \in 1..Entities |-> IF e \in Taken(d) THEN "loaded" ELSE stage[e]]
    BY DEF CopyEntity
<1>2. /\ task = "copying" /\ task' = "copying" /\ progress[d] = "staged"
      /\ progress'[d] = "copied" /\ \A e \in EntityIds \ {d} : progress'[e] = progress[e]
      /\ \A c \in 1..d - 1 : progress[c] = "done"
      /\ dagRun' = dagRun /\ dagRun \in BatchIds /\ extracts' = extracts /\ unloadable' = unloadable
      /\ interrupted' = interrupted /\ interruptions' = interruptions /\ IngestionTypeOK
      /\ stage \in [1..Entities -> {"none", "fresh", "loaded"}]
      /\ auditMark \in [1..Entities -> Instants] /\ raw \subseteq Records \X EntityIds \X BatchIds
    BY <1>1, LoadMoveLeaves
<1>3. /\ Taken(d) \subseteq EntityIds /\ \A c \in Taken(d) : stage[c] = "fresh"
      /\ stage[d] = "fresh" => d \in Taken(d)
    BY NamesAssumption DEF Taken, EntityIds
<1>4. /\ stage' \in [1..Entities -> {"none", "fresh", "loaded"}]
      /\ \A e \in EntityIds : stage'[e] = IF e \in Taken(d) THEN "loaded" ELSE stage[e]
    BY <1>1, <1>2 DEF EntityIds
<1>5. rows \subseteq Records /\ \A r \in rows : \E c \in Taken(d) : r \in extracts[c]
    BY <1>2, <1>3, IngestionTypes
<1>. HIDE DEF rows
<1>6. raw' \subseteq Records \X EntityIds \X BatchIds /\ raw \subseteq raw'
    BY <1>1, <1>2, <1>5
<1>7. \A r \in rows : r \in extracts[entityOf[r]]
    <2> TAKE r \in rows
    <2>1. PICK c \in Taken(d) : r \in extracts[c]
        BY <1>5
    <2>2. entityOf[r] = c
        BY <1>3, <2>1 DEF IngestionInv, ExtractHolds, RecordsOf
    <2> QED
        BY <2>1, <2>2
<1>8. /\ MarksHold' /\ OverrunHolds' /\ \A e \in EntityIds : mark'[e] <= sourceClock
      /\ mark' \in [1..Entities -> Instants] /\ overrun' \subseteq EntityIds \X Instants
    BY <1>1, <1>6, SameMarksHold
<1>9. RawHolds'
    <2> SUFFICES ASSUME NEW r \in Records, NEW f \in EntityIds, NEW b \in BatchIds, <<r, f, b>> \in raw'
                 PROVE  b <= dagRun /\ (b = dagRun => r \in extracts[entityOf[r]])
        BY <1>2 DEF RawHolds
    <2>1. CASE <<r, f, b>> \in raw
        BY <2>1 DEF IngestionInv, RawHolds
    <2>2. CASE r \in rows /\ b = dagRun
        BY <1>2, <1>7, <2>2, IngestionTypes
    <2> QED
        BY <1>1, <2>1, <2>2
(* Without an interruption only its own file is fresh.                     *)
<1>10. ASSUME NEW c \in EntityIds, stage[c] = "fresh", ~interrupted
       PROVE  c = d
    <2>1. progress[c] = "staged"
        BY <1>10 DEF IngestionInv, FreshHolds
    <2>2. CASE c < d
        <3>1. c \in 1..d - 1
            BY <2>2 DEF EntityIds
        <3> QED
            BY <1>2, <2>1, <3>1
    <2>3. CASE d < c
        <3>1. d \in 1..c - 1
            BY <2>3 DEF EntityIds
        <3> QED
            BY <1>2, <2>1, <3>1 DEF IngestionInv, TaskHolds
    <2> QED
        BY <2>2, <2>3 DEF EntityIds
<1>11. CausesHold'
    <2>1. CausesHold
        BY DEF IngestionInv
    <2>2. ASSUME NEW r \in Records, NEW f \in EntityIds, NEW b \in BatchIds, <<r, f, b>> \in raw', f # entityOf[r]
          PROVE  interruptions > 0
        <3>1. CASE <<r, f, b>> \in raw
            BY <2>1, <2>2, <3>1 DEF CausesHold
        <3>2. CASE r \in rows /\ f = d
            <4>1. PICK c \in Taken(d) : r \in extracts[c]
                BY <1>5, <3>2
            <4>2. c \in EntityIds /\ stage[c] = "fresh" /\ entityOf[r] = c
                BY <1>3, <4>1 DEF IngestionInv, ExtractHolds, RecordsOf
            <4>3. interrupted
                BY <1>10, <2>2, <3>2, <4>2
            <4> QED
                BY <2>1, <4>3 DEF CausesHold
        <3> QED
            BY <1>1, <2>2, <3>1, <3>2
    <2> QED
        BY <1>1, <1>2, <2>1, <2>2 DEF CausesHold
<1>12. FreshHolds'
    <2> SUFFICES ASSUME NEW e \in EntityIds, stage'[e] = "fresh", ~interrupted
                 PROVE  FALSE
        BY <1>2 DEF FreshHolds
    <2>1. stage[e] = "fresh" /\ e \notin Taken(d)
        BY <1>4
    <2> QED
        BY <1>3, <1>10, <2>1
<1>13. ASSUME NEW e \in EntityIds
       PROVE  StageHolds(e)'
    <2>1. StageHolds(e) /\ extracts[e] \subseteq Records
        BY <1>2, IngestionTypes DEF IngestionInv
    <2>2. \A r \in Records : Filed(r) => Filed(r)'
        BY <1>2, <1>6 DEF Filed
    <2>3. stage'[e] = "loaded" => \A r \in extracts[e] : r \in unloadable \/ Filed(r)'
        <3>1. CASE e \in Taken(d)
            <4>1. \A r \in extracts[e] : r \in unloadable \/ r \in rows
                BY <3>1 DEF rows
            <4>2. \A r \in rows : Filed(r)'
                BY <1>1, <1>2 DEF Filed
            <4> QED
                BY <4>1, <4>2
        <3>2. CASE e \notin Taken(d)
            BY <1>4, <2>1, <2>2, <3>2 DEF StageHolds
        <3> QED
            BY <3>1, <3>2
    <2>4. progress'[e] = "staged" => stage'[e] # "none"
        BY <1>2, <1>4, <2>1 DEF StageHolds
    <2>5. Copied(e)' => stage'[e] = "loaded"
        <3>1. CASE e = d
            <4>1. stage[d] = "fresh" \/ stage[d] = "loaded"
                BY <1>2, <2>1, <3>1 DEF StageHolds, EntityIds
            <4> QED
                BY <1>3, <1>4, <3>1, <4>1
        <3>2. CASE e # d
            <4>1. Copied(e)' => Copied(e)
                BY <1>2, <3>2 DEF Copied
            <4> QED
                BY <1>4, <2>1, <4>1 DEF StageHolds
        <3> QED
            BY <3>1, <3>2
    <2> QED
        BY <1>2, <2>3, <2>4, <2>5 DEF StageHolds
<1> QED
    BY <1>1, <1>2, <1>4, <1>6, <1>8, <1>9, <1>11, <1>12, <1>13, LoadMoveKeeps

(* What the load of the run reached for an entity is no instant of the     *)
(* future, and beyond the extraction only after an interruption.           *)
LEMMA ReachedIs ==
    ASSUME IngestionInv, task = "copying", NEW d \in EntityIds, LoadedNow(d) # {}, dagRun \in BatchIds
    PROVE  /\ Reached(d) \in Instants /\ Reached(d) <= sourceClock
           /\ Reached(d) > extractedAt[d] => interruptions > 0
<1>1. IngestionTypeOK /\ LoadedNow(d) \in SUBSET Records
    BY DEF IngestionInv, LoadedNow
<1>2. PICK r \in LoadedNow(d) : Latest(LoadedNow(d)) = stamp[r]
    BY <1>1, LatestIsOne
<1>3. /\ stamp[r] \in Instants /\ r \in Records /\ stamp[r] <= sourceClock /\ stamp[r] \in Nat
      /\ sourceClock \in Nat /\ extractedAt[d] \in Nat
    BY <1>1, <1>2, IngestionTypes DEF IngestionTypeOK, IngestionInv, ClocksAgree
<1>4. Reached(d) = rendered[stamp[r]]
    BY <1>2 DEF Reached
<1>5. rendered[stamp[r]] \in Instants /\ rendered[stamp[r]] <= stamp[r] /\ rendered[stamp[r]] \in Nat
    BY <1>3, RenderingAssumption, IngestionBoundsAssumption DEF Instants
<1>6. Reached(d) <= sourceClock
    BY <1>3, <1>4, <1>5
<1>7. ASSUME Reached(d) > extractedAt[d]
      PROVE  interruptions > 0
    <2>1. stamp[r] > extractedAt[d]
        BY <1>3, <1>4, <1>5, <1>7
    <2>2. <<r, d, dagRun>> \in raw
        BY <1>2 DEF LoadedNow
    <2>3. r \in extracts[entityOf[r]]
        BY <1>3, <2>2 DEF IngestionInv, RawHolds
    <2>4. CASE entityOf[r] = d
        <3>1. stamp[r] <= extractedAt[d]
            BY <2>3, <2>4 DEF IngestionInv, ExtractHolds
        <3> QED
            BY <1>3, <2>1, <3>1
    <2>5. CASE entityOf[r] # d
        BY <1>3, <2>2, <2>5 DEF IngestionInv, CausesHold
    <2> QED
        BY <2>4, <2>5
<1> QED
    BY <1>4, <1>5, <1>6, <1>7

(* The watermark does not pass over a record that is not accounted for.    *)
LEMMA SetVariableKeeps ==
    ASSUME IngestionInv, NEW d \in EntityIds, SetVariable(d)
    PROVE  IngestionInv'
<1>1. /\ LoadMoves(d, "copied", "marked") /\ LoadedNow(d) # {}
      /\ mark' = [mark EXCEPT ![d] = Reached(d)] /\ auditMark' = auditMark /\ raw' = raw /\ stage' = stage
      /\ overrun' = overrun \cup {<<d, t>> : t \in extractedAt[d] + 1..Reached(d)}
    BY DEF SetVariable
<1>2. /\ task = "copying" /\ task' = "copying" /\ progress[d] = "copied"
      /\ progress'[d] = "marked" /\ \A e \in EntityIds \ {d} : progress'[e] = progress[e]
      /\ dagRun' = dagRun /\ dagRun # 0 /\ dagRun \in BatchIds /\ extracts' = extracts
      /\ unloadable' = unloadable /\ late' = late /\ stamp' = stamp /\ committed' = committed
      /\ interrupted' = interrupted /\ interruptions' = interruptions /\ IngestionTypeOK
      /\ extractedAt' = extractedAt /\ mark \in [1..Entities -> Instants]
      /\ stage \in [1..Entities -> {"none", "fresh", "loaded"}] /\ overrun \subseteq EntityIds \X Instants
      /\ auditMark \in [1..Entities -> Instants] /\ raw \subseteq Records \X EntityIds \X BatchIds
    BY <1>1, LoadMoveLeaves
<1>3. /\ Reached(d) \in Instants /\ Reached(d) \in Nat /\ Reached(d) <= sourceClock
      /\ Reached(d) > extractedAt[d] => interruptions > 0
    BY <1>1, <1>2, ReachedIs DEF Instants
<1>4. extractedAt[d] \in Nat /\ MaxClock \in Nat
    BY <1>2, IngestionTypes, IngestionBoundsAssumption
<1>5. /\ mark' \in [1..Entities -> Instants] /\ mark'[d] = Reached(d)
      /\ \A e \in EntityIds \ {d} : mark'[e] = mark[e]
    BY <1>1, <1>2, <1>3 DEF EntityIds
<1>6. overrun \subseteq overrun' /\ overrun' \subseteq EntityIds \X Instants
    <2>1. \A t \in extractedAt[d] + 1..Reached(d) : t \in Instants
        BY <1>3, <1>4 DEF Instants
    <2> QED
        BY <1>1, <1>2, <2>1
<1>7. \A r \in Records : Accounted(r) => Accounted(r)'
    BY <1>1, <1>2, <1>6, AccountedForGood
<1>8. MarksHold'
    <2> SUFFICES ASSUME NEW r \in Records, stamp[r] # 0, stamp[r] <= mark'[entityOf[r]], ~Superseded(r)
                 PROVE  Accounted(r)'
        BY <1>2 DEF MarksHold, Superseded
    <2>1. CASE entityOf[r] = d
        <3>1. stamp[r] \in Nat /\ stamp[r] <= Reached(d)
            BY <1>2, <1>5, <2>1, IngestionTypes
        <3>2. CASE stamp[r] <= extractedAt[d]
            <4>1. r \in extracts[d] \/ Accounted(r)
                BY <1>2, <2>1, <3>2 DEF IngestionInv, ExtractCovers, Extracted, RecordsOf
            <4>2. CASE r \in extracts[d]
                <5>1. r \in unloadable \/ Filed(r)
                    BY <1>2, <4>2 DEF IngestionInv, StageHolds, Copied
                <5> QED
                    BY <1>2, <1>7, <5>1, FiledIsAccounted DEF IngestionInv
            <4> QED
                BY <1>7, <4>1, <4>2
        <3>3. CASE ~(stamp[r] <= extractedAt[d])
            <4>1. stamp[r] \in extractedAt[d] + 1..Reached(d) /\ Reached(d) > extractedAt[d]
                BY <1>3, <1>4, <3>1, <3>3
            <4>2. <<d, stamp[r]>> \in overrun'
                BY <1>1, <4>1
            <4>3. interruptions' > 0
                BY <1>2, <1>3, <4>1
            <4> QED
                BY <1>2, <2>1, <4>2, <4>3 DEF Accounted
        <3> QED
            BY <3>2, <3>3
    <2>2. CASE entityOf[r] # d
        <3>1. entityOf[r] \in EntityIds
            BY <1>2, IngestionTypes
        <3>2. Accounted(r)
            BY <1>5, <2>2, <3>1 DEF IngestionInv, MarksHold
        <3> QED
            BY <1>7, <3>2
    <2> QED
        BY <2>1, <2>2
<1>9. OverrunHolds'
    <2> SUFFICES ASSUME NEW e \in EntityIds, NEW t \in Nat, extractedAt[e] < t, t <= mark'[e]
                 PROVE  <<e, t>> \in overrun'
        BY <1>2 DEF OverrunHolds
    <2>1. CASE e = d
        <3>1. t \in extractedAt[d] + 1..Reached(d)
            BY <1>3, <1>4, <1>5, <2>1
        <3> QED
            BY <1>1, <2>1, <3>1
    <2>2. CASE e # d
        BY <1>5, <1>6, <2>2 DEF IngestionInv, OverrunHolds
    <2> QED
        BY <2>1, <2>2
<1>10. CausesHold'
    <2>1. CausesHold
        BY DEF IngestionInv
    <2>2. ASSUME overrun' # {}
          PROVE  interruptions > 0
        <3>1. CASE overrun # {}
            BY <2>1, <3>1 DEF CausesHold
        <3>2. CASE extractedAt[d] + 1..Reached(d) # {}
            <4>1. Reached(d) > extractedAt[d]
                BY <1>3, <1>4, <3>2
            <4> QED
                BY <1>3, <4>1
        <3> QED
            BY <1>1, <2>2, <3>1, <3>2
    <2> QED
        BY <1>1, <1>2, <2>1, <2>2 DEF CausesHold
<1>11. RawHolds' /\ FreshHolds'
    BY <1>1, <1>2 DEF IngestionInv, RawHolds, FreshHolds
<1>12. ASSUME NEW e \in EntityIds
       PROVE  StageHolds(e)'
    <2>1. Copied(e)' => Copied(e)
        BY <1>2 DEF Copied
    <2>2. progress'[e] = "staged" => progress[e] = "staged"
        BY <1>2
    <2> QED
        BY <1>1, <1>2, <2>1, <2>2 DEF IngestionInv, StageHolds, Filed
<1>13. \A e \in EntityIds : mark'[e] <= sourceClock
    BY <1>3, <1>5 DEF IngestionInv, ClocksAgree
<1> QED
    BY <1>1, <1>2, <1>5, <1>6, <1>8, <1>9, <1>10, <1>11, <1>12, <1>13, LoadMoveKeeps

(* Recording the watermark, or leaving it where nothing was loaded, keeps  *)
(* it.                                                                     *)
LEMMA WatermarkStepsKeep ==
    ASSUME IngestionInv, NEW d \in EntityIds, MergeWatermark(d) \/ SkipWatermark(d)
    PROVE  IngestionInv'
<1>1. /\ mark' = mark /\ raw' = raw /\ stage' = stage /\ overrun' = overrun
      /\ LoadMoves(d, "marked", "done") \/ LoadMoves(d, "copied", "done")
    BY DEF MergeWatermark, SkipWatermark
<1>2. /\ task = "copying" /\ task' = "copying" /\ progress[d] \in {"copied", "marked"}
      /\ progress'[d] = "done" /\ \A e \in EntityIds \ {d} : progress'[e] = progress[e]
      /\ dagRun' = dagRun /\ dagRun \in BatchIds /\ extracts' = extracts /\ unloadable' = unloadable
      /\ interrupted' = interrupted /\ interruptions' = interruptions
      /\ stage \in [1..Entities -> {"none", "fresh", "loaded"}]
      /\ auditMark \in [1..Entities -> Instants] /\ raw \subseteq Records \X EntityIds \X BatchIds
    BY <1>1, LoadMoveLeaves
<1>3. /\ MarksHold' /\ OverrunHolds' /\ \A e \in EntityIds : mark'[e] <= sourceClock
      /\ mark' \in [1..Entities -> Instants] /\ overrun' \subseteq EntityIds \X Instants
    BY <1>1, SameMarksHold
<1>4. auditMark' \in [1..Entities -> Instants]
    <2>1. CASE MergeWatermark(d)
        <3>1. auditMark' = [auditMark EXCEPT ![d] = Reached(d)] /\ progress[d] = "marked"
            BY <2>1 DEF MergeWatermark, LoadMoves, IsNext
        <3>2. LoadedNow(d) # {}
            BY <1>2, <3>1 DEF IngestionInv, TaskHolds
        <3>3. Reached(d) \in Instants
            BY <1>2, <3>2, ReachedIs
        <3> QED
            BY <1>2, <3>1, <3>3
    <2>2. CASE SkipWatermark(d)
        BY <1>2, <2>2 DEF SkipWatermark
    <2> QED
        BY <2>1, <2>2
<1>5. RawHolds' /\ FreshHolds' /\ CausesHold'
    BY <1>1, <1>2 DEF IngestionInv, RawHolds, FreshHolds, CausesHold
<1>6. ASSUME NEW e \in EntityIds
      PROVE  StageHolds(e)'
    <2>1. Copied(e)' => Copied(e)
        BY <1>2 DEF Copied
    <2>2. progress'[e] = "staged" => progress[e] = "staged"
        BY <1>2
    <2> QED
        BY <1>1, <1>2, <2>1, <2>2 DEF IngestionInv, StageHolds, Filed
<1> QED
    BY <1>1, <1>2, <1>3, <1>4, <1>5, <1>6, LoadMoveKeeps

(* It holds before the first run.                                          *)
LEMMA IngestionInitially ==
    IngestionInit => IngestionInv
<1> SUFFICES ASSUME IngestionInit
             PROVE  IngestionInv
    OBVIOUS
<1>1. IngestionTypeOK
    <2>1. /\ 0 \in Instants /\ 1 \in Instants /\ 0 \in 0..MaxRuns /\ 0 \in 0..Retries
          /\ 0 \in 0..MaxInterruptions
        BY IngestionBoundsAssumption DEF Instants
    <2> QED
        BY <2>1, UntouchedIs DEF IngestionInit, IngestionTypeOK, TaskStates, Ends
<1>2. MarksHold /\ ClocksAgree /\ OverrunHolds /\ CausesHold /\ CommittedAreWritten
    BY DEF IngestionInit, MarksHold, ClocksAgree, OverrunHolds, CausesHold, CommittedAreWritten, EntityIds
<1>3. FreshHolds /\ RawHolds /\ TaskHolds /\ FailsForCause
    BY UntouchedIs DEF IngestionInit, FreshHolds, RawHolds, TaskHolds, FailsForCause, EntityIds
<1>4. \A e \in EntityIds : ExtractCovers(e) /\ ExtractHolds(e) /\ StageHolds(e)
    BY DEF IngestionInit, ExtractCovers, Extracted, ExtractHolds, StageHolds, Copied, EntityIds
<1> QED
    BY <1>1, <1>2, <1>3, <1>4 DEF IngestionInv

(* The inductive invariant of the ingestion DAG holds in every state, for  *)
(* any number of runs, entities and records, however the entities' names   *)
(* begin and however often a task is interrupted.                          *)
THEOREM IngestionInvariant == IngestionSpec => []IngestionInv
<1>1. IngestionInv /\ IngestionNext => IngestionInv'
    <2> SUFFICES ASSUME IngestionInv, IngestionNext
                 PROVE  IngestionInv'
        OBVIOUS
    <2>1. CASE Task
        BY <2>1, MakeDirectoryKeeps, EndsKeep, BeginLoadKeeps, RetryKeeps, ExtractEntityKeeps, PutEntityKeeps,
           CopyEntityKeeps, SetVariableKeeps, WatermarkStepsKeep DEF Task, EntityIds
    <2> QED
        BY <2>1, SourceTicksKeeps, WriteKeeps, CommitKeeps, BeginRunKeeps, RetryKeeps DEF IngestionNext
<1>2. IngestionInv /\ UNCHANGED ingestionVars => IngestionInv'
    <2> SUFFICES ASSUME IngestionInv, UNCHANGED ingestionVars
                 PROVE  IngestionInv'
        OBVIOUS
    <2>1. IngestionTypeOK'
        BY DEF IngestionInv, ingestionVars, IngestionTypeOK
    <2>2. TaskHolds' /\ FreshHolds'
        BY DEF IngestionInv, ingestionVars, TaskHolds, LoadedNow, FreshHolds
    <2>3. FailsForCause'
        <3>1. \A r \in Records : Accounted(r) => Accounted(r)'
            BY AccountedForGood DEF ingestionVars
        <3>2. committed \subseteq Records
            BY DEF IngestionInv, IngestionTypeOK
        <3> QED
            BY <3>1, <3>2, CauseStays DEF IngestionInv, ingestionVars
    <2>4. /\ MarksHold' /\ ClocksAgree' /\ OverrunHolds' /\ CausesHold' /\ RawHolds'
          /\ CommittedAreWritten'
        BY DEF IngestionInv, ingestionVars, MarksHold, ClocksAgree, OverrunHolds, CausesHold, RawHolds,
               CommittedAreWritten, Accounted, InRaw, Misfiled, Superseded
    <2>5. ASSUME NEW e \in EntityIds
          PROVE  ExtractCovers(e)' /\ ExtractHolds(e)' /\ StageHolds(e)'
        <3>1. ExtractCovers(e) /\ ExtractHolds(e) /\ StageHolds(e)
            BY DEF IngestionInv
        <3>2. ExtractCovers(e)'
            BY <3>1 DEF ingestionVars, ExtractCovers, Extracted, RecordsOf, Accounted, InRaw, Misfiled, Superseded
        <3>3. ExtractHolds(e)' /\ StageHolds(e)'
            BY <3>1 DEF ingestionVars, ExtractHolds, StageHolds, Copied, Filed, RecordsOf
        <3> QED
            BY <3>2, <3>3
    <2> QED
        BY <2>1, <2>2, <2>3, <2>4, <2>5 DEF IngestionInv
<1> QED
    BY <1>1, <1>2, IngestionInitially, PTL DEF IngestionSpec

(* The current version of a row, at or below the watermark of              *)
(* load_to_snowflake (airflow/dags/common.py), is in RAW, with the         *)
(* exceptions that PassedOverForCause names: among them what an            *)
(* interrupted load misfiles or runs over when it is repeated.             *)
THEOREM PassedOverOnlyForCause == IngestionSpec => []PassedOverForCause
<1>1. IngestionInv => PassedOverForCause
    BY DEF IngestionInv, MarksHold, CommittedAreWritten, PassedOverForCause, IngestionTypeOK
<1> QED
    BY <1>1, IngestionInvariant, PTL

(* A run of the DAG succeeds when it has caught up with the rows that were *)
(* committed when it began, and fails for a cause                          *)
(* (generated_ingestion_dags.py, common.py).                               *)
THEOREM RunsEndOnlyForCause == IngestionSpec => []RunsEndForCause
<1>1. IngestionInv => RunsEndForCause
    <2> SUFFICES ASSUME IngestionInv, task = "success", NEW r \in due
                 PROVE  CaughtUp(r)
        BY DEF IngestionInv, RunsEndForCause, RunCatchesUp
    <2>1. IngestionTypeOK /\ r \in Records /\ entityOf[r] \in EntityIds /\ dagRun # 0 /\ CausesHold
        BY IngestionTypes DEF IngestionInv, IngestionTypeOK, TaskHolds
    <2>2. ExtractCovers(entityOf[r]) /\ StageHolds(entityOf[r]) /\ ExtractHolds(entityOf[r])
        BY <2>1 DEF IngestionInv
    <2>3. PICK s \in {r} \cup newer[r] : s \in committed /\ (s \in extracts[entityOf[r]] \/ Accounted(s))
        BY <2>1, <2>2 DEF ExtractCovers, Extracted, RecordsOf
    <2>4. CASE s \in extracts[entityOf[r]]
        <3>1. s \in Records /\ (s \in unloadable \/ Filed(s))
            BY <2>1, <2>2, <2>4, IngestionTypes DEF StageHolds, Copied
        <3> QED
            BY <2>1, <2>3, <3>1, FiledIsAccounted DEF CaughtUp
    <2> QED
        BY <2>3, <2>4 DEF CaughtUp
<1> QED
    BY <1>1, IngestionInvariant, PTL

-----------------------------------------------------------------------------
(***************************************************************************)
(* The hash diff of quality/warehouse_diff.py.                             *)
(***************************************************************************)

(* The partitions of the diff: ranges of keys,                             *)
Ranges == [kind : {"range"}, lower : Nat, upper : Nat, depth : Nat, closed : BOOLEAN]

(* keys whose hash begins with a prefix,                                   *)
Buckets == [kind : {"bucket"}, prefix : Seq(Digits)]

(* and the rows without a key.                                             *)
Partitions == {NullPartition} \cup Ranges \cup Buckets

(* The types of the state, without a bound on it, and what the place in    *)
(* the loop and the strategy say of the partitions.                        *)
DiffTypes ==
    /\ table \in [Sides -> [AllKeys -> RowBags]]
    /\ collation \in [Keys -> Nat]
    /\ ends \in [least : SUBSET Keys, greatest : SUBSET Keys]
    /\ nulls \in BOOLEAN
    /\ stack \in Seq(Partitions)
    /\ part \in Partitions
    /\ diffAt = "done" => stack = <<>>
    /\ diffAt = "split" /\ part.kind = "bucket" => Len(part.prefix) < BucketDepth
    /\ strategy # "HASH_BUCKET" =>
           stack \in Seq(Ranges) /\ part \in {NullPartition} \cup Ranges

(* A partition was taken from the stack and is not yet done with.          *)
AtHand == diffAt \in {"sign", "signed", "fetch", "fetched", "split"}

(* Both sides hold the same at a key.                                      *)
Agreeing(k) == At("source", k) = At("target", k)

(* The diff has reported a key.                                            *)
Reported(k) == k \in missing \cup extra \cup changed

(* A partition on a stack holds a key.                                     *)
Stacked(s, k) == \E i \in 1..Len(s) : k \in KeysOf(s[i])

(* A key is accounted for: the sides agree on it, it is reported, it is in *)
(* a partition still to come, or the diff may miss it.                     *)
Covered(k) ==
    \/ Agreeing(k) \/ Reported(k) \/ Stacked(stack, k)
    \/ AtHand /\ k \in KeysOf(part)
    \/ diffAt \in {"start", "ranged", "raised"}
    \/ Overlooked(k)
    \/ pushdown /\ Ambiguous(k)

(* Each key is between one of the least and one of the greatest keys.      *)
Between(e, k) == \E b \in e.least, c \in e.greatest : Rank(b) <= Rank(k) /\ Rank(k) <= Rank(c)

(* Each key of the source is between the ends that were read, before the   *)
(* first partition is made of them.                                        *)
Bounded(k) ==
    diffAt = "ranged" /\ k \in Present("source")
        => /\ k = NullKey => nulls
           /\ k # NullKey => Between(ends, k)

(* A row of the key has the hash.                                          *)
Borne(k, d) == \E v \in Values : HasRow(k, v) /\ digestOf[<<k, v>>] = d

(* What was read of the source is still so: the rows of each key, or how   *)
(* many rows have a hash that belongs to one key alone.                    *)
FetchedHolds(k) ==
    k \in KeysOf(part) =>
        /\ diffAt = "fetched" => fetched[k] = At("source", k)
        /\ diffAt = "signed" /\ ~Ambiguous(k) =>
               \A d \in Digests : Borne(k, d) => fetched[d] = At("source", k)[d]

(* What is reported of a key is so.                                        *)
Truthful(k) ==
    /\ k \in missing => Missing(k)
    /\ k \in extra => Extra(k)
    /\ k \in changed => Changed(k)

(* The inductive invariant of the diff, of every key that nobody wrote     *)
(* meanwhile.                                                              *)
DiffInv ==
    /\ DiffTypes
    /\ \A k \in AllKeys \ written : Covered(k) /\ Bounded(k) /\ FetchedHolds(k) /\ Truthful(k)

-----------------------------------------------------------------------------

(* A finite set of numbers that is not empty has its least and its         *)
(* greatest member.                                                        *)
LEMMA ExtremesExist ==
    ASSUME NEW S \in SUBSET Nat, IsFiniteSet(S), S # {}
    PROVE  /\ Min(S) \in S /\ \A x \in S : Min(S) <= x
           /\ Max(S) \in S /\ \A x \in S : x <= Max(S)
<1>1. Min(S) \in S /\ \A x \in S : Min(S) <= x
  <2> DEFINE R == OpToRel(<, Nat)
  <2>1. IsWellFoundedOn(R, Nat) BY NatLessThanWellFounded
  <2>2. PICK x \in S : \A y \in S : ~(<<y, x>> \in R) BY <2>1, WFMin
  <2>3. \A y \in S : ~(y < x) BY <2>2 DEF OpToRel
  <2>4. \A y \in S : x <= y BY <2>3
  <2>. QED BY <2>4 DEF Min
<1>2. Max(S) \in S /\ \A x \in S : x <= Max(S)
  <2> DEFINE U(x) == {y \in S : y > x}
             F == {U(x) : x \in S}
             R == StrictSubsetOrdering(S)
  <2>1. IsWellFoundedOn(R, FiniteSubsetsOf(S)) BY FS_StrictSubsetOrderingWellFounded
  <2>2. F \subseteq FiniteSubsetsOf(S) /\ F # {}
    <3>1. ASSUME NEW x \in S PROVE U(x) \in FiniteSubsetsOf(S)
      <4>1. U(x) \subseteq S OBVIOUS
      <4>2. IsFiniteSet(U(x)) BY <4>1, FS_Subset
      <4>. QED BY <4>1, <4>2 DEF FiniteSubsetsOf
    <3>. QED BY <3>1
  <2>3. PICK m \in F : \A t \in F : ~(<<t, m>> \in R) BY <2>1, <2>2, WFMin
  <2>4. PICK x \in S : m = U(x) OBVIOUS
  <2>5. ASSUME NEW y \in S, y > x PROVE FALSE
    <3>0. S \subseteq Nat OBVIOUS
    <3>1. /\ U(y) \subseteq U(x)
          /\ y \in U(x)
          /\ y \notin U(y)
      <4>1. ASSUME NEW z \in U(y) PROVE z \in U(x)
        <5>1. z \in Nat /\ y \in Nat /\ x \in Nat /\ z > y /\ y > x /\ z \in S BY <2>5
        <5>2. z > x BY <5>1
        <5>. QED BY <5>1, <5>2
      <4>2. y \in U(x) BY <2>5
      <4>3. y \notin U(y)
        <5>1. y \in Nat OBVIOUS
        <5>2. ~(y > y) BY <5>1
        <5>. QED BY <5>2
      <4>. QED BY <4>1, <4>2, <4>3
    <3>2. U(y) \in SUBSET S /\ U(x) \in SUBSET S OBVIOUS
    <3>3. <<U(y), U(x)>> \in R BY <3>1, <3>2 DEF StrictSubsetOrdering
    <3>4. U(y) \in F OBVIOUS
    <3>. QED BY <2>3, <2>4, <3>3, <3>4
  <2>6. \A y \in S : x >= y BY <2>5
  <2>7. Max(S) \in S /\ \A y \in S : Max(S) >= y
    BY <2>6 DEF Max
  <2>. QED BY <2>7
<1>. QED BY <1>1, <1>2

(* Keys have a rank, which is the key itself unless keys are strings.      *)
LEMMA Ranks ==
    ASSUME DiffTypes
    PROVE  /\ \A k \in Keys : k \in Nat /\ Rank(k) \in Nat
           /\ strategy # "LEXICOGRAPHIC" => \A k \in Nat : Rank(k) = k
BY DiffKeysAssumption DEF DiffTypes, Rank

(* Nothing about the order or the partitions changes while the diff runs.  *)
LEMMA KeysStay ==
    ASSUME UNCHANGED choiceVars
    PROVE  /\ strategy' = strategy /\ pushdown' = pushdown /\ collation' = collation
           /\ \A k : Rank(k)' = Rank(k)
           /\ \A p : KeysOf(p)' = KeysOf(p)
<1>1. strategy' = strategy /\ pushdown' = pushdown /\ collation' = collation BY DEF choiceVars
<1>2. \A k : Rank(k)' = Rank(k) BY <1>1 DEF Rank
<1>3. \A p : InRange(p)' = InRange(p) BY <1>2 DEF InRange
<1>4. \A p : Bucket(p)' = Bucket(p) BY DEF Bucket
<1>5. \A p : KeysOf(p)' = KeysOf(p) BY <1>3, <1>4 DEF KeysOf
<1>. QED BY <1>1, <1>2, <1>5

(* So what a later partition or stack holds can be told now.               *)
LEMMA HeldStays ==
    ASSUME UNCHANGED choiceVars, NEW k
    PROVE  /\ Stacked(stack, k)' <=> Stacked(stack', k)
           /\ (k \in KeysOf(part))' <=> k \in KeysOf(part')
<1>1. \A p : KeysOf(p)' = KeysOf(p) BY KeysStay
<1>2. \A p : (k \in KeysOf(p))' <=> k \in KeysOf(p) BY <1>1
<1>. QED BY <1>1, <1>2 DEF Stacked

(* The kinds of partition and the keys that each holds.                    *)
LEMMA KeysOfPartitions ==
    /\ NullPartition.kind = "nulls" /\ KeysOf(NullPartition) = {NullKey}
    /\ \A p \in Ranges : /\ p.kind = "range" /\ p.lower \in Nat /\ p.upper \in Nat
                         /\ p.depth \in Nat /\ p.closed \in BOOLEAN
                         /\ KeysOf(p) = InRange(p)
    /\ \A p \in Buckets : /\ p.kind = "bucket" /\ p.prefix \in Seq(Digits)
                          /\ KeysOf(p) = Bucket(p)
    /\ \A p \in Partitions : KeysOf(p) \subseteq AllKeys
<1>1. NullPartition.kind = "nulls" /\ KeysOf(NullPartition) = {NullKey}
  BY DEF NullPartition, KeysOf
<1>2. ASSUME NEW p \in Ranges
      PROVE  /\ p.kind = "range" /\ p.lower \in Nat /\ p.upper \in Nat
             /\ p.depth \in Nat /\ p.closed \in BOOLEAN
             /\ KeysOf(p) = InRange(p)
  <2>1. p.kind = "range" /\ p.lower \in Nat /\ p.upper \in Nat /\ p.depth \in Nat /\ p.closed \in BOOLEAN
    BY DEF Ranges
  <2>. QED BY <2>1 DEF KeysOf
<1>3. ASSUME NEW p \in Buckets
      PROVE  p.kind = "bucket" /\ p.prefix \in Seq(Digits) /\ KeysOf(p) = Bucket(p)
  <2>1. p.kind = "bucket" /\ p.prefix \in Seq(Digits) BY DEF Buckets
  <2>. QED BY <2>1 DEF KeysOf
<1>4. ASSUME NEW p \in Partitions PROVE KeysOf(p) \subseteq AllKeys
  <2>1. CASE p \in Ranges BY <2>1, <1>2 DEF InRange, AllKeys
  <2>2. CASE p \in Buckets BY <2>2, <1>3 DEF Bucket
  <2>3. CASE p = NullPartition BY <2>3, <1>1 DEF AllKeys
  <2>. QED BY <2>1, <2>2, <2>3 DEF Partitions
<1>. QED BY <1>1, <1>2, <1>3, <1>4

(* The kind of a partition says what it is.                                *)
LEMMA KindsOfPartition ==
    ASSUME NEW p \in Partitions
    PROVE  /\ p.kind = "range" => p \in Ranges
           /\ p.kind = "bucket" => p \in Buckets
<1>1. CASE p \in Ranges BY <1>1, KeysOfPartitions
<1>2. CASE p \in Buckets BY <1>2, KeysOfPartitions
<1>3. CASE p = NullPartition BY <1>3, KeysOfPartitions
<1>. QED BY <1>1, <1>2, <1>3 DEF Partitions

(* The partitions the code builds are of those kinds.                      *)
LEMMA MadePartitions ==
    /\ NullPartition \in Partitions
    /\ \A l, u, d \in Nat, c \in BOOLEAN :
          /\ RangePartition(l, u, d, c) \in Ranges
          /\ RangePartition(l, u, d, c).lower = l
          /\ RangePartition(l, u, d, c).upper = u
          /\ RangePartition(l, u, d, c).closed = c
    /\ \A s \in Seq(Digits) : BucketPartition(s) \in Buckets /\ BucketPartition(s).prefix = s
BY DEF RangePartition, BucketPartition, Ranges, Buckets, Partitions

(* One or two members make a sequence.                                     *)
LEMMA ShortSequences ==
    ASSUME NEW S, NEW p \in S, NEW q \in S
    PROVE  <<p>> \in Seq(S) /\ <<p, q>> \in Seq(S)
OBVIOUS

(* One partition makes a stack, and so do ranges alone.                    *)
LEMMA ShortStacks ==
    /\ \A p \in Partitions : <<p>> \in Seq(Partitions)
    /\ \A s \in Seq(Ranges) : s \in Seq(Partitions)
<1>1. Ranges \subseteq Partitions BY DEF Partitions
<1>. QED BY <1>1

(* No key is lost where a range is split, wherever the middle is. *)
LEMMA HalvesCover ==
    ASSUME DiffTypes, NEW p \in Ranges, NEW m \in Nat,
           strategy = "LEXICOGRAPHIC" => m \in Keys
    PROVE  /\ Halves(p, m) \in Seq(Ranges) /\ Len(Halves(p, m)) = 2
           /\ \A k \in KeysOf(p) : \/ k \in KeysOf(Halves(p, m)[1])
                                   \/ k \in KeysOf(Halves(p, m)[2])
<1> PICK l \in Nat, u \in Nat, d \in Nat, c \in BOOLEAN :
        l = p.lower /\ u = p.upper /\ d = p.depth + 1 /\ c = p.closed
  BY KeysOfPartitions
<1> PICK hi \in Ranges : hi = RangePartition(m, u, d, c) BY MadePartitions
<1> PICK lo \in Ranges : lo = RangePartition(l, m, d, FALSE) BY MadePartitions
<1>1. /\ hi.lower = m /\ hi.upper = u /\ hi.closed = c
      /\ lo.lower = l /\ lo.upper = m /\ lo.closed = FALSE
  <2>1. hi.lower = m /\ hi.upper = u BY MadePartitions
  <2>2. lo.lower = l /\ lo.upper = m BY DEF RangePartition
  <2>3. hi.closed = c BY DEF RangePartition
  <2>4. lo.closed = FALSE BY DEF RangePartition
  <2>. QED BY <2>1, <2>2, <2>3, <2>4
<1>2. Halves(p, m) = <<hi, lo>> BY DEF Halves
<1>4. ASSUME NEW k \in KeysOf(p)
      PROVE  k \in KeysOf(hi) \/ k \in KeysOf(lo)
  <2>1. /\ k \in Keys /\ Rank(l) <= Rank(k)
        /\ IF c THEN Rank(k) <= Rank(u) ELSE Rank(k) < Rank(u)
    BY <1>4, KeysOfPartitions DEF InRange
  <2>2. Rank(k) \in Nat /\ Rank(m) \in Nat BY <2>1, Ranks
  <2>0. Rank(k) < Rank(m) \/ Rank(m) <= Rank(k) BY <2>2
  <2>3. CASE Rank(k) < Rank(m)
    <3>1. k \in InRange(lo) BY <1>1, <2>1, <2>3 DEF InRange
    <3>. QED BY <3>1, KeysOfPartitions
  <2>4. CASE Rank(m) <= Rank(k)
    <3>1. k \in InRange(hi) BY <1>1, <2>1, <2>4 DEF InRange
    <3>. QED BY <3>1, KeysOfPartitions
  <2>. QED BY <2>0, <2>3, <2>4
<1>7. <<hi, lo>> \in Seq(Ranges) BY ShortSequences
<1> PICK q \in Seq(Ranges) : q = <<hi, lo>> BY <1>7
<1>5. Len(q) = 2 /\ q[1] = hi /\ q[2] = lo OBVIOUS
<1>6. Halves(p, m) = q BY <1>2
<1>. QED BY <1>4, <1>5, <1>6

(* A key of a bucket is in that of one longer prefix. *)
LEMMA LongerPrefix ==
    ASSUME NEW p \in Buckets, Len(p.prefix) < BucketDepth, NEW k \in KeysOf(p)
    PROVE  \E d \in Digits : /\ BucketPartition(Append(p.prefix, d)) \in Buckets
                             /\ k \in KeysOf(BucketPartition(Append(p.prefix, d)))
<1> PICK s \in Seq(Digits) : s = p.prefix BY KeysOfPartitions
<1>1. k \in AllKeys /\ SubSeq(prefixOf[k], 1, Len(s)) = s BY KeysOfPartitions DEF Bucket
<1> PICK h \in Seq(Digits) : h = prefixOf[k] BY <1>1, PrefixAssumption
<1> PICK n \in Nat : n = Len(s) OBVIOUS
<1>2. n < Len(h) BY <1>1, PrefixAssumption, DiffBoundsAssumption
<1> PICK d \in Digits : d = h[n + 1] BY <1>2
<1>3. SubSeq(h, 1, n + 1) = Append(s, d)
  <2>1. SubSeq(h, 1, n + 1) \in Seq(Digits) /\ Len(SubSeq(h, 1, n + 1)) = n + 1 BY <1>2
  <2>2. Append(s, d) \in Seq(Digits) /\ Len(Append(s, d)) = n + 1 OBVIOUS
  <2>3. ASSUME NEW i \in 1..(n + 1) PROVE SubSeq(h, 1, n + 1)[i] = Append(s, d)[i]
    <3>1. SubSeq(h, 1, n + 1)[i] = h[i] BY <1>2
    <3>2. CASE i <= n
      <4>1. s[i] = h[i]
        <5>1. SubSeq(h, 1, n)[i] = h[i] BY <1>2, <3>2
        <5>. QED BY <1>1, <5>1
      <4>. QED BY <3>1, <3>2, <4>1
    <3>3. CASE i = n + 1 BY <3>1, <3>3
    <3>. QED BY <3>2, <3>3
  <2>. QED BY <2>1, <2>2, <2>3
<1>0. Append(s, d) \in Seq(Digits) OBVIOUS
<1> PICK t \in Seq(Digits) : t = Append(s, d) BY <1>0
<1> PICK b \in Buckets : b = BucketPartition(t) BY MadePartitions
<1>4. b.prefix = t /\ Len(t) = n + 1
  <2>1. b.prefix = t BY MadePartitions
  <2>2. Len(t) = n + 1 OBVIOUS
  <2>. QED BY <2>1, <2>2
<1>5. k \in Bucket(b) BY <1>1, <1>3, <1>4 DEF Bucket
<1>6. k \in KeysOf(b) BY <1>5, KeysOfPartitions
<1>. QED BY <1>6

(* Rows that nobody writes to stay as they are. *)
LEMMA RowsStay ==
    ASSUME NEW k, NEW side, \A v \in Values : table'[side][k][v] = table[side][k][v]
    PROVE  At(side, k)' = At(side, k)
<1>1. RowsOf(side, {k})' = RowsOf(side, {k}) BY DEF RowsOf
<1>. QED BY <1>1 DEF At, Signature

(* Pushing partitions keeps those that were there.                         *)
LEMMA StackGrows ==
    ASSUME NEW s \in Seq(Partitions), NEW t \in Seq(Partitions), NEW k
    PROVE  /\ s \o t \in Seq(Partitions)
           /\ Stacked(s, k) => Stacked(s \o t, k)
           /\ Stacked(t, k) => Stacked(s \o t, k)
<1> DEFINE u == s \o t
<1>1. u \in Seq(Partitions) /\ Len(u) = Len(s) + Len(t) /\ Len(s) \in Nat /\ Len(t) \in Nat OBVIOUS
<1>2. \A i \in 1..Len(s) : u[i] = s[i] /\ i \in 1..Len(u) BY <1>1
<1>3. \A i \in 1..Len(t) : u[Len(s) + i] = t[i] /\ Len(s) + i \in 1..Len(u) BY <1>1
<1>. HIDE DEF u
<1>4. Stacked(s, k) => Stacked(u, k) BY <1>2 DEF Stacked
<1>5. Stacked(t, k) => Stacked(u, k) BY <1>3 DEF Stacked
<1>. QED BY <1>1, <1>4, <1>5 DEF u

-----------------------------------------------------------------------------

(* Splitting a range or a bucket loses no key: every key of the partition  *)
(* is in one of its parts.                                                 *)
LEMMA SplitsCover ==
    ASSUME DiffInv, SplitRange \/ SplitBucket
    PROVE  /\ stack' \in Seq(Partitions)
           /\ strategy # "HASH_BUCKET" => stack' \in Seq(Ranges)
           /\ \A k \in AllKeys : Stacked(stack, k) \/ k \in KeysOf(part) => Stacked(stack', k)
<1>0. part \in Partitions /\ stack \in Seq(Partitions) BY DEF DiffInv, DiffTypes
<1>1. ASSUME NEW t \in Seq(Partitions), stack' = stack \o t,
             strategy # "HASH_BUCKET" => t \in Seq(Ranges),
             \A k \in KeysOf(part) : Stacked(t, k)
      PROVE  /\ stack' \in Seq(Partitions)
             /\ strategy # "HASH_BUCKET" => stack' \in Seq(Ranges)
             /\ \A k \in AllKeys : Stacked(stack, k) \/ k \in KeysOf(part) => Stacked(stack', k)
  <2>1. strategy # "HASH_BUCKET" => stack \in Seq(Ranges) BY DEF DiffInv, DiffTypes
  <2>2. strategy # "HASH_BUCKET" => stack' \in Seq(Ranges) BY <1>1, <2>1
  <2>. QED BY <1>0, <1>1, <2>2, StackGrows
<1>2. CASE SplitRange
  <2>1. part \in Ranges BY <1>0, <1>2, KindsOfPartition DEF SplitRange
  <2>2. PICK m \in Middles : stack' = stack \o Halves(part, m) BY <1>2 DEF SplitRange
  <2>3. m \in Nat
    <3>1. KeysOf(part) \subseteq Nat BY <2>1, KeysOfPartitions, DiffKeysAssumption DEF InRange
    <3>2. part.lower \in Nat /\ part.upper \in Nat BY <2>1, KeysOfPartitions
    <3>3. (part.lower + part.upper) \div 2 \in Nat BY <3>2
    <3>. QED BY <3>1, <3>3 DEF Middles
  <2>6. strategy = "LEXICOGRAPHIC" => m \in Keys
    <3>1. KeysOf(part) \subseteq Keys BY <2>1, KeysOfPartitions DEF InRange
    <3>. QED BY <3>1 DEF Middles
  <2>7. DiffTypes BY DEF DiffInv
  <2> PICK t \in Seq(Ranges) : t = Halves(part, m) BY <2>1, <2>3, <2>6, <2>7, HalvesCover
  <2>4. Len(t) = 2 /\ \A k \in KeysOf(part) : k \in KeysOf(t[1]) \/ k \in KeysOf(t[2])
    BY <2>1, <2>3, <2>6, <2>7, HalvesCover
  <2>5. \A k \in KeysOf(part) : Stacked(t, k) BY <2>4 DEF Stacked
  <2>. QED BY <1>1, <2>2, <2>5, ShortStacks
<1>3. CASE SplitBucket
  <2>1. part \in Buckets /\ Len(part.prefix) < BucketDepth
    BY <1>0, <1>3, KindsOfPartition DEF SplitBucket, DiffInv, DiffTypes
  <2> PICK n \in Nat : n = Cardinality(Digits)
    BY PrefixAssumption, FS_CardinalityType
  <2>2. PICK order \in [1..n -> Digits] :
          /\ \A d \in Digits : \E i \in 1..n : order[i] = d
          /\ stack' = stack \o [i \in 1..n |-> BucketPartition(Append(part.prefix, order[i]))]
    BY <1>3 DEF SplitBucket
  <2> DEFINE u == [i \in 1..n |-> BucketPartition(Append(part.prefix, order[i]))]
  <2>3. u \in Seq(Partitions) /\ Len(u) = n
    <3>1. ASSUME NEW i \in 1..n PROVE BucketPartition(Append(part.prefix, order[i])) \in Partitions
      <4>1. part.prefix \in Seq(Digits) BY <2>1, KeysOfPartitions
      <4>2. Append(part.prefix, order[i]) \in Seq(Digits) BY <4>1
      <4>. QED BY <4>2, MadePartitions DEF Partitions
    <3>. QED BY <3>1
  <2>4. ASSUME NEW k \in KeysOf(part) PROVE Stacked(u, k)
    <3>1. PICK d \in Digits : k \in KeysOf(BucketPartition(Append(part.prefix, d)))
      BY <2>1, LongerPrefix
    <3>2. PICK i \in 1..n : order[i] = d BY <2>2
    <3>3. u[i] = BucketPartition(Append(part.prefix, d)) BY <3>2
    <3>. QED BY <2>3, <3>1, <3>3 DEF Stacked
  <2>5. stack' = stack \o u BY <2>2
  <2>6. strategy = "HASH_BUCKET"
    <3>1. part.kind = "bucket" BY <1>3 DEF SplitBucket
    <3>2. part \notin {NullPartition} \cup Ranges BY <3>1, KeysOfPartitions
    <3>. QED BY <3>2 DEF DiffInv, DiffTypes
  <2>. HIDE DEF u
  <2>. QED BY <1>1, <2>3, <2>4, <2>5, <2>6
<1>. QED BY <1>2, <1>3

(* Taking a partition from the stack loses no key.                         *)
LEMMA PopTakes ==
    ASSUME DiffInv, Pop
    PROVE  /\ stack' \in Seq(Partitions)
           /\ part' \in Partitions
           /\ strategy # "HASH_BUCKET" => stack' \in Seq(Ranges) /\ part' \in Ranges
           /\ \A k \in AllKeys : Stacked(stack, k) => Stacked(stack', k) \/ k \in KeysOf(part')
<1> PICK s \in Seq(Partitions) : s = stack BY DEF DiffInv, DiffTypes
<1>1. Len(s) \in Nat \ {0}
  <2>1. s # <<>> BY DEF Pop
  <2>. QED BY <2>1
<1> PICK n \in Nat : n = Len(s) - 1 BY <1>1
<1>2. part' = s[n + 1] /\ stack' = SubSeq(s, 1, n)
  <2>1. Len(s) = n + 1 BY <1>1
  <2>. QED BY <2>1 DEF Pop
<1>3. Len(s) = n + 1 BY <1>1
<1>4. SubSeq(s, 1, n) \in Seq(Partitions) /\ Len(SubSeq(s, 1, n)) = n
      /\ \A i \in 1..n : SubSeq(s, 1, n)[i] = s[i]
  BY <1>3
<1>5. s[n + 1] \in Partitions BY <1>3
<1>7. ASSUME strategy # "HASH_BUCKET" PROVE stack' \in Seq(Ranges) /\ part' \in Ranges
  <2>1. s \in Seq(Ranges) BY <1>7 DEF DiffInv, DiffTypes
  <2>2. SubSeq(s, 1, n) \in Seq(Ranges) /\ s[n + 1] \in Ranges BY <1>3, <2>1
  <2>. QED BY <1>2, <2>2
<1>6. ASSUME NEW k \in AllKeys, Stacked(stack, k)
      PROVE  Stacked(stack', k) \/ k \in KeysOf(part')
  <2>1. PICK i \in 1..(n + 1) : k \in KeysOf(s[i]) BY <1>3, <1>6 DEF Stacked
  <2>2. CASE i = n + 1 BY <1>2, <2>1, <2>2
  <2>3. CASE i \in 1..n
    <3>1. k \in KeysOf(stack'[i]) /\ i \in 1..Len(stack') BY <1>2, <1>4, <2>1, <2>3
    <3>. QED BY <3>1 DEF Stacked
  <2>. QED BY <2>2, <2>3
<1>. QED BY <1>2, <1>4, <1>5, <1>6, <1>7

(* Some of the keys of a side have the least rank, and some the greatest.  *)
LEMMA OutermostExist ==
    ASSUME DiffTypes, NEW S \in SUBSET Keys, S # {}
    PROVE  Least(S) # {} /\ Greatest(S) # {}
<1> DEFINE R == {Rank(k) : k \in S}
<1>1. R \in SUBSET Nat /\ R # {} BY Ranks
<1>2. IsFiniteSet(R)
  <2>1. IsFiniteSet(S) BY DiffKeysAssumption, FS_Subset
  <2> DEFINE f == [k \in S |-> Rank(k)]
  <2>2. f \in [S -> R] /\ \A x \in R : \E k \in S : f[k] = x OBVIOUS
  <2>3. f \in Surjection(S, R) BY <2>2 DEF Surjection
  <2>. QED BY <2>1, <2>3, FS_Surjection
<1>7. /\ Min(R) \in R /\ \A x \in R : Min(R) <= x
      /\ Max(R) \in R /\ \A x \in R : x <= Max(R)
  BY <1>1, <1>2, ExtremesExist
<1>8. \A k \in S : Rank(k) \in R OBVIOUS
<1>3. PICK k \in S : Rank(k) = Min(R) BY <1>7
<1>4. PICK j \in S : Rank(j) = Max(R) BY <1>7
<1>. HIDE DEF R
<1>5. k \in Least(S) BY <1>3, <1>7, <1>8 DEF Least
<1>6. j \in Greatest(S) BY <1>4, <1>7, <1>8 DEF Greatest
<1>. QED BY <1>5, <1>6

(* The ends of a side are keys, and every key of the side is between them. *)
LEMMA EndsAreKeys ==
    ASSUME DiffTypes, NEW side \in Sides, NEW e \in EndsOf(side)
    PROVE  /\ e \in [least : SUBSET Keys, greatest : SUBSET Keys]
           /\ \A k \in Present(side) \ {NullKey} : Between(e, k)
<1> DEFINE keys == Present(side) \ {NullKey}
<1>1. keys \in SUBSET Keys BY DEF Present, AllKeys
<1>2. PICK low \in OneOf(Least(keys)), high \in OneOf(Greatest(keys)) :
          e = [least |-> low, greatest |-> high]
  BY DEF EndsOf
<1>3. /\ e.least = low /\ e.greatest = high
      /\ low \subseteq Least(keys) /\ high \subseteq Greatest(keys)
      /\ Least(keys) # {} => low # {}
      /\ Greatest(keys) # {} => high # {}
  BY <1>2 DEF OneOf
<1>4. Least(keys) \subseteq keys /\ Greatest(keys) \subseteq keys BY DEF Least, Greatest
<1>5. e \in [least : SUBSET Keys, greatest : SUBSET Keys] BY <1>1, <1>2, <1>3, <1>4
<1>6. ASSUME NEW k \in keys PROVE Between(e, k)
  <2>1. Least(keys) # {} /\ Greatest(keys) # {} BY <1>1, OutermostExist
  <2>2. PICK b \in e.least, c \in e.greatest : b \in Least(keys) /\ c \in Greatest(keys)
    BY <1>3, <2>1
  <2>3. Rank(b) <= Rank(k) /\ Rank(k) <= Rank(c) BY <2>2 DEF Least, Greatest
  <2>. QED BY <2>3 DEF Between
<1>. QED BY <1>5, <1>6

(* The first range holds every key that either side has had, but for those *)
(* that are overlooked.                                                    *)
LEMMA FirstRange ==
    ASSUME DiffTypes, FindTargetRange
    PROVE  /\ ends' \in [least : SUBSET Keys, greatest : SUBSET Keys]
           /\ stack' \in Seq(Ranges)
           /\ \A k \in Keys :
                 Between(ends, k) \/ k \in Present("target") => Stacked(stack', k) \/ Overlooked(k)'
<1> PICK found \in EndsOf("target") :
        ends' = [least |-> ends.least \cup found.least,
                 greatest |-> ends.greatest \cup found.greatest]
  BY DEF FindTargetRange
<1> PICK low, high : low = ends.least \cup found.least /\ high = ends.greatest \cup found.greatest
  OBVIOUS
<1>1. /\ found \in [least : SUBSET Keys, greatest : SUBSET Keys]
      /\ \A k \in Present("target") \ {NullKey} : Between(found, k)
  BY EndsAreKeys DEF Sides
<1>2. low \in SUBSET Keys /\ high \in SUBSET Keys BY <1>1 DEF DiffTypes
<1>3. ends' = [least |-> low, greatest |-> high] OBVIOUS
<1>4. ends' \in [least : SUBSET Keys, greatest : SUBSET Keys] BY <1>2, <1>3
<1>5. ends'.least = low /\ ends'.greatest = high BY <1>3
<1>6. /\ low \in SUBSET Nat /\ high \in SUBSET Nat
      /\ IsFiniteSet(low) /\ IsFiniteSet(high)
  BY <1>2, DiffKeysAssumption, FS_Subset
<1>7. stack' = IF low = {} \/ high = {} THEN <<>>
               ELSE <<RangePartition(Min(low), Max(high), 0, TRUE)>>
  BY <1>5 DEF FindTargetRange
<1>8. ASSUME NEW k \in Keys, Between(ends, k) \/ k \in Present("target")
      PROVE  \E b \in low, c \in high : Rank(b) <= Rank(k) /\ Rank(k) <= Rank(c)
  <2>1. CASE Between(ends, k) BY <2>1 DEF Between
  <2>2. CASE k \in Present("target")
    <3>1. k # NullKey BY DiffKeysAssumption
    <3>2. Between(found, k) BY <1>1, <2>2, <3>1
    <3>. QED BY <3>2 DEF Between
  <2>. QED BY <1>8, <2>1, <2>2
<1>9. CASE low = {} \/ high = {}
  <2>1. stack' = <<>> BY <1>7, <1>9
  <2>2. \A k \in Keys : ~(Between(ends, k) \/ k \in Present("target")) BY <1>8, <1>9
  <2>. QED BY <1>4, <2>1, <2>2
<1>10. CASE low # {} /\ high # {}
  <2>1. PICK l \in low : l = Min(low) /\ \A x \in low : l <= x BY <1>6, <1>10, ExtremesExist
  <2>2. PICK u \in high : u = Max(high) /\ \A x \in high : x <= u BY <1>6, <1>10, ExtremesExist
  <2>3. l \in Nat /\ u \in Nat /\ l \in Keys /\ u \in Keys BY <1>2, <1>6
  <2> PICK p \in Ranges : p = RangePartition(l, u, 0, TRUE) BY <2>3, MadePartitions
  <2>4. p.lower = l /\ p.upper = u /\ p.closed = TRUE BY DEF RangePartition
  <2>5. <<p>> \in Seq(Ranges) BY ShortSequences
  <2> PICK s \in Seq(Ranges) : s = <<p>> BY <2>5
  <2>6. Len(s) = 1 /\ s[1] = p /\ stack' = s BY <1>7, <1>10, <2>1, <2>2
  <2>7. ASSUME NEW k \in Keys, NEW b \in low, NEW c \in high,
               Rank(b) <= Rank(k), Rank(k) <= Rank(c)
        PROVE  Stacked(stack', k) \/ Overlooked(k)'
    <3>0. /\ Rank(b) \in Nat /\ Rank(c) \in Nat /\ Rank(k) \in Nat
          /\ Rank(l) \in Nat /\ Rank(u) \in Nat
          /\ b \in Nat /\ c \in Nat
      BY <1>2, <2>3, Ranks
    <3>1. /\ strategy' = strategy /\ \A j : Rank(j)' = Rank(j) BY KeysStay DEF FindTargetRange
    <3>2. l <= b /\ c <= u BY <2>1, <2>2
    <3>3. CASE Rank(l) <= Rank(k) /\ Rank(k) <= Rank(u)
      <4>1. k \in InRange(p) BY <2>4, <3>3 DEF InRange
      <4>2. k \in KeysOf(p) BY <4>1, KeysOfPartitions
      <4>4. k \in KeysOf(s[1]) BY <2>6, <4>2
      <4>5. 1 \in 1..Len(s) BY <2>6
      <4>3. Stacked(s, k) BY <4>4, <4>5 DEF Stacked
      <4>. QED BY <2>6, <4>3
    <3>4. CASE Rank(k) < Rank(l)
      <4>1. l # b BY <2>7, <3>0, <3>4
      <4>2. l < b BY <2>3, <3>0, <3>2, <4>1
      <4>3. strategy = "LEXICOGRAPHIC"
        <5>1. ~(Rank(l) <= Rank(b)) BY <2>7, <3>0, <3>4
        <5>. QED BY <3>0, <3>2, <5>1, Ranks, <2>3
      <4>. QED BY <1>5, <2>7, <3>1, <3>4, <4>2, <4>3 DEF Overlooked
    <3>5. CASE Rank(u) < Rank(k)
      <4>1. u # c BY <2>7, <3>0, <3>5
      <4>2. c < u BY <2>3, <3>0, <3>2, <4>1
      <4>3. strategy = "LEXICOGRAPHIC"
        <5>1. ~(Rank(c) <= Rank(u)) BY <2>7, <3>0, <3>5
        <5>. QED BY <3>0, <3>2, <5>1, Ranks, <2>3
      <4>. QED BY <1>5, <2>7, <3>1, <3>5, <4>2, <4>3 DEF Overlooked
    <3>. QED BY <3>0, <3>3, <3>4, <3>5
  <2>. QED BY <1>4, <1>8, <2>6, <2>7
<1>. QED BY <1>9, <1>10

(* Every step of the diff keeps the types.                                 *)
LEMMA DiffTypesKept ==
    ASSUME DiffInv, HashDiff
    PROVE  DiffTypes'
<1> USE DEF DiffInv
<1>1. table' = table
  BY DEF HashDiff, FindSourceRange, FindTargetRange, BeginBuckets, Pop, Finish, SignSource,
         SignTarget, SplitRange, SplitRaises, SplitBucket, FetchSource, FetchTargetRaises, Compare,
         tableWriteVars
<1>7. UNCHANGED choiceVars
  BY DEF HashDiff, FindSourceRange, FindTargetRange, BeginBuckets, Pop, Finish, SignSource,
         SignTarget, SplitRange, SplitRaises, SplitBucket, FetchSource, FetchTargetRaises, Compare
<1>2. ends' \in [least : SUBSET Keys, greatest : SUBSET Keys] /\ nulls' \in BOOLEAN
  <2>1. CASE FindSourceRange BY <2>1, EndsAreKeys DEF FindSourceRange, Sides
  <2>2. CASE ends' = ends /\ nulls' = nulls BY <2>2 DEF DiffTypes
  <2>3. CASE FindTargetRange
    <3>1. nulls' = nulls BY <2>3 DEF FindTargetRange
    <3>. QED BY <2>3, <3>1, FirstRange DEF DiffTypes
  <2>. QED BY <2>1, <2>2, <2>3
       DEF HashDiff, BeginBuckets, Pop, Finish, SignSource,
         SignTarget, SplitRange, SplitRaises, SplitBucket, FetchSource, FetchTargetRaises, Compare
<1>3. stack' \in Seq(Partitions)
  <2>1. CASE FindTargetRange BY <2>1, FirstRange, ShortStacks
  <2>2. CASE BeginBuckets
    <3>1. <<>> \in Seq(Digits) OBVIOUS
    <3>2. BucketPartition(<<>>) \in Partitions BY <3>1, MadePartitions DEF Partitions
    <3>. QED BY <2>2, <3>2 DEF BeginBuckets
  <2>3. CASE Pop BY <2>3, PopTakes
  <2>4. CASE SplitRange \/ SplitBucket BY <2>4, SplitsCover
  <2>5. CASE stack' = stack BY <2>5 DEF DiffTypes
  <2>. QED BY <2>1, <2>2, <2>3, <2>4, <2>5
       DEF HashDiff, FindSourceRange, Finish, SignSource,
         SignTarget, SplitRaises, FetchSource, FetchTargetRaises, Compare
<1>4. part' \in Partitions
  <2>1. CASE FindTargetRange BY <2>1, MadePartitions DEF FindTargetRange
  <2>2. CASE Pop BY <2>2, PopTakes
  <2>3. CASE part' = part BY <2>3 DEF DiffTypes
  <2>. QED BY <2>1, <2>2, <2>3
       DEF HashDiff, FindSourceRange, BeginBuckets, Finish, SignSource,
         SignTarget, SplitRange, SplitRaises, SplitBucket, FetchSource, FetchTargetRaises, Compare
<1>5. diffAt' = "done" => stack' = <<>>
  BY DEF HashDiff, FindSourceRange, FindTargetRange, BeginBuckets, Pop, Finish, SignSource,
         SignTarget, SplitRange, SplitRaises, SplitBucket, FetchSource, FetchTargetRaises, Compare
<1>6. diffAt' = "split" /\ part'.kind = "bucket" => Len(part'.prefix) < BucketDepth
  <2> SUFFICES ASSUME diffAt' = "split", part'.kind = "bucket"
               PROVE  Len(part'.prefix) < BucketDepth
    OBVIOUS
  <2>1. SignTarget
    BY DEF HashDiff, FindSourceRange, FindTargetRange, BeginBuckets, Pop, Finish, SignSource,
         SplitRange, SplitRaises, SplitBucket, FetchSource, FetchTargetRaises, Compare
  <2>2. part' = part /\ ~Indivisible(part) BY <2>1 DEF SignTarget
  <2>3. part \in Buckets BY <2>2, KindsOfPartition DEF DiffTypes
  <2>4. ~(Len(part.prefix) >= BucketDepth) BY <2>2, <2>3 DEF Indivisible
  <2>5. Len(part.prefix) \in Nat BY <2>3, KeysOfPartitions
  <2>. QED BY <2>2, <2>4, <2>5, DiffBoundsAssumption
<1>8. ASSUME strategy' # "HASH_BUCKET"
      PROVE  stack' \in Seq(Ranges) /\ part' \in {NullPartition} \cup Ranges
  <2>0. strategy # "HASH_BUCKET" BY <1>7, <1>8, KeysStay
  <2>1. CASE FindTargetRange BY <2>1, FirstRange DEF FindTargetRange
  <2>2. CASE Pop BY <2>0, <2>2, PopTakes
  <2>3. CASE SplitRange \/ SplitBucket
    <3>1. part' = part BY <2>3 DEF SplitRange, SplitBucket
    <3>. QED BY <2>0, <2>3, <3>1, SplitsCover DEF DiffTypes
  <2>4. CASE stack' = stack /\ part' = part BY <2>0, <2>4 DEF DiffTypes
  <2>. QED BY <2>0, <2>1, <2>2, <2>3, <2>4
       DEF HashDiff, FindSourceRange, BeginBuckets, Finish, SignSource,
         SignTarget, SplitRaises, FetchSource, FetchTargetRaises, Compare
<1>9. collation' \in [Keys -> Nat] BY <1>7, KeysStay DEF DiffTypes
<1>. QED BY <1>1, <1>2, <1>3, <1>4, <1>5, <1>6, <1>8, <1>9 DEF DiffTypes

(* The diff writes no table.                                               *)
LEMMA HashDiffReads ==
    ASSUME HashDiff
    PROVE  /\ table' = table /\ written' = written /\ UNCHANGED choiceVars
           /\ \A side, k : At(side, k)' = At(side, k)
           /\ \A k : /\ Ambiguous(k)' <=> Ambiguous(k)
                     /\ \A d : Borne(k, d)' <=> Borne(k, d)
<1>1. table' = table /\ written' = written
  BY DEF HashDiff, FindSourceRange, FindTargetRange, BeginBuckets, Pop, Finish, SignSource,
         SignTarget, SplitRange, SplitRaises, SplitBucket, FetchSource, FetchTargetRaises, Compare,
         tableWriteVars
<1>2. UNCHANGED choiceVars
  BY DEF HashDiff, FindSourceRange, FindTargetRange, BeginBuckets, Pop, Finish, SignSource,
         SignTarget, SplitRange, SplitRaises, SplitBucket, FetchSource, FetchTargetRaises, Compare
<1>3. \A side, k : At(side, k)' = At(side, k) BY <1>1, RowsStay
<1>4. \A k, v : HasRow(k, v)' <=> HasRow(k, v) BY <1>1 DEF HasRow
<1>5. \A k : Ambiguous(k)' <=> Ambiguous(k) BY <1>1, <1>2, <1>4, KeysStay DEF Ambiguous
<1>6. \A k, d : Borne(k, d)' <=> Borne(k, d) BY <1>4 DEF Borne
<1>. QED BY <1>1, <1>2, <1>3, <1>5, <1>6

(* A key is present on a side when there is a row at it.                   *)
LEMMA PresentKeys ==
    \A side, k : k \in Present(side) <=> k \in AllKeys /\ At(side, k) # Nothing
BY DEF Present

(* The row by row comparison reports what differs and only that.           *)
LEMMA CompareFinds ==
    ASSUME DiffInv, Compare, NEW k \in AllKeys \ written
    PROVE  /\ Truthful(k)
           /\ k \in missing' => Missing(k)
           /\ k \in extra' => Extra(k)
           /\ k \in changed' => Changed(k)
           /\ k \in KeysOf(part) => Agreeing(k) \/ Reported(k)'
           /\ Reported(k) => Reported(k)'
<1> DEFINE left == {j \in KeysOf(part) : fetched[j] # Nothing}
           right == KeysOf(part) \cap Present("target")
<1>1. /\ missing' = missing \cup (left \ right)
      /\ extra' = extra \cup (right \ left)
      /\ changed' = changed \cup {j \in left \cap right : fetched[j] # At("target", j)}
      /\ diffAt = "fetched"
  BY DEF Compare
<1>2. Truthful(k) BY DEF DiffInv
<1>3. k \in KeysOf(part) => fetched[k] = At("source", k) BY <1>1 DEF DiffInv, FetchedHolds
<1>4. k \in left => k \in KeysOf(part) /\ k \in Present("source") BY <1>3, PresentKeys
<1>5. k \in KeysOf(part) /\ k \in Present("source") => k \in left BY <1>3, PresentKeys
<1>6. k \in right <=> k \in KeysOf(part) /\ k \in Present("target") OBVIOUS
<1>7. k \in {j \in left \cap right : fetched[j] # At("target", j)}
        <=> k \in left /\ k \in right /\ fetched[k] # At("target", k)
  OBVIOUS
<1>. HIDE DEF left, right
<1>8. k \in missing' => Missing(k) BY <1>1, <1>2, <1>4, <1>6 DEF Truthful, Missing
<1>9. k \in extra' => Extra(k) BY <1>1, <1>2, <1>5, <1>6 DEF Truthful, Extra
<1>10. k \in changed' => Changed(k)
  BY <1>1, <1>2, <1>3, <1>4, <1>6, <1>7 DEF Truthful, Changed
<1>11. ASSUME k \in KeysOf(part) PROVE Agreeing(k) \/ Reported(k)'
  <2>1. CASE k \in left /\ k \notin right BY <1>1, <2>1 DEF Reported
  <2>2. CASE k \in right /\ k \notin left BY <1>1, <2>2 DEF Reported
  <2>3. CASE k \in right /\ k \in left
    BY <1>1, <1>3, <1>7, <1>11, <2>3 DEF Reported, Agreeing
  <2>4. CASE k \notin right /\ k \notin left
    BY <1>5, <1>6, <1>11, <2>4, PresentKeys DEF Agreeing
  <2>. QED BY <2>1, <2>2, <2>3, <2>4
<1>12. Reported(k) => Reported(k)' BY <1>1 DEF Reported
<1>. QED BY <1>2, <1>8, <1>9, <1>10, <1>11, <1>12

(* What is said of a key depends on its rows alone.                        *)
LEMMA SameRowsSameAnswers ==
    ASSUME NEW k \in AllKeys, At("source", k)' = At("source", k), At("target", k)' = At("target", k)
    PROVE  /\ Missing(k)' <=> Missing(k)
           /\ Extra(k)' <=> Extra(k)
           /\ Changed(k)' <=> Changed(k)
           /\ Agreeing(k)' <=> Agreeing(k)
           /\ k \in Present("source")' <=> k \in Present("source")
<1>1. ASSUME NEW side, At(side, k)' = At(side, k)
      PROVE  k \in Present(side)' <=> k \in Present(side)
  <2>1. k \in Present(side)' <=> At(side, k)' # Nothing BY DEF Present
  <2>2. k \in Present(side) <=> At(side, k) # Nothing BY DEF Present
  <2>. QED BY <1>1, <2>1, <2>2
<1>2. /\ k \in Present("source")' <=> k \in Present("source")
      /\ k \in Present("target")' <=> k \in Present("target")
  BY <1>1
<1>. QED BY <1>2 DEF Missing, Extra, Changed, Agreeing

(* How many rows of a partition have a hash is for one key to say, if the  *)
(* hash belongs to that key alone.                                         *)
LEMMA HashOfOneKey ==
    ASSUME DiffTypes, NEW side \in Sides, NEW k \in KeysOf(part), ~Ambiguous(k),
           NEW d \in Digests, Borne(k, d)
    PROVE  Signature(side, KeysOf(part))[d] = At(side, k)[d]
<1> DEFINE keys == KeysOf(part)
           Having(rows) == {row \in rows : digestOf[<<row[1], row[2]>>] = d}
<1>1. keys \subseteq AllKeys BY KeysOfPartitions DEF DiffTypes
<1>2. strategy = "HASH_BUCKET" \/ \A j \in keys \ {k} : NullKey \notin {j, k}
  <2>1. CASE part = NullPartition BY <2>1, KeysOfPartitions
  <2>2. CASE part \in Ranges
    <3>1. keys \subseteq Keys BY <2>2, KeysOfPartitions DEF InRange
    <3>. QED BY <3>1, DiffKeysAssumption
  <2>. QED BY <2>1, <2>2 DEF DiffTypes
<1>3. PICK v \in Values : HasRow(k, v) /\ digestOf[<<k, v>>] = d BY DEF Borne
<1>4. ASSUME NEW j \in keys, NEW w \in Values, NEW i \in 1..MaxCopies,
             i <= table[side][j][w], digestOf[<<j, w>>] = d
      PROVE  j = k
  <2>1. table[side][j][w] \in Nat
    <3>1. table[side][j] \in [Values -> 0..MaxCopies] BY <1>1 DEF DiffTypes, RowBags
    <3>. QED BY <3>1, DigestsAssumption
  <2>2. i \in Nat /\ i >= 1 BY DigestsAssumption
  <2>3. HasRow(j, w) BY <1>4, <2>1, <2>2 DEF HasRow
  <2>. QED BY <1>1, <1>2, <1>3, <1>4, <2>3 DEF Ambiguous
<1>5. ASSUME NEW row
      PROVE  row \in Having(RowsOf(side, keys)) <=> row \in Having(RowsOf(side, {k}))
  <2>1. ASSUME NEW j, NEW w, NEW i
        PROVE  <<j, w, i>>[1] = j /\ <<j, w, i>>[2] = w
    OBVIOUS
  <2>2. CASE row \in Having(RowsOf(side, keys))
    <3>1. PICK j \in keys, w \in Values, i \in 1..MaxCopies :
              row = <<j, w, i>> /\ i <= table[side][j][w]
      BY <2>2 DEF RowsOf
    <3>2. digestOf[<<j, w>>] = d BY <2>1, <2>2, <3>1
    <3>3. j = k BY <1>4, <3>1, <3>2
    <3>. QED BY <2>2, <3>1, <3>3 DEF RowsOf
  <2>3. CASE row \in Having(RowsOf(side, {k}))
    <3>1. RowsOf(side, {k}) \subseteq RowsOf(side, keys) BY DEF RowsOf
    <3>. QED BY <2>3, <3>1
  <2>. QED BY <2>2, <2>3
<1>6. Having(RowsOf(side, keys)) = Having(RowsOf(side, {k})) BY <1>5
<1>. QED BY <1>6 DEF Signature, At

(* A hash that no row of a key has is not among the rows of it.            *)
LEMMA HashOfNoRow ==
    ASSUME DiffTypes, NEW side \in Sides, NEW k \in AllKeys, NEW d \in Digests, ~Borne(k, d)
    PROVE  At(side, k)[d] = 0
<1> DEFINE having == {row \in RowsOf(side, {k}) : digestOf[<<row[1], row[2]>>] = d}
<1>1. ASSUME NEW w \in Values, NEW i \in 1..MaxCopies, i <= table[side][k][w]
      PROVE  digestOf[<<k, w>>] # d
  <2>1. table[side][k][w] \in Nat
    <3>1. table[side][k] \in [Values -> 0..MaxCopies] BY DEF DiffTypes, RowBags
    <3>. QED BY <3>1, DigestsAssumption
  <2>2. i \in Nat /\ i >= 1 BY DigestsAssumption
  <2>3. HasRow(k, w) BY <1>1, <2>1, <2>2 DEF HasRow
  <2>. QED BY <2>3 DEF Borne
<1>2. ASSUME NEW row \in having PROVE FALSE
  <2>1. PICK w \in Values, i \in 1..MaxCopies : row = <<k, w, i>> /\ i <= table[side][k][w]
    BY DEF RowsOf
  <2>2. row[1] = k /\ row[2] = w BY <2>1
  <2>. QED BY <1>1, <2>1, <2>2
<1>3. having = {} BY <1>2
<1>. QED BY <1>3, FS_EmptySet DEF Signature, At

(* Equal signatures of a partition mean equal rows at each of its keys     *)
(* whose hashes are its own.                                               *)
LEMMA EqualSignatures ==
    ASSUME DiffInv, SignTarget, diffAt' = "next", NEW k \in KeysOf(part) \ written,
           ~Ambiguous(k)
    PROVE  pushdown /\ Agreeing(k)
<1>1. /\ pushdown /\ diffAt = "signed"
      /\ fetched = Signature("target", KeysOf(part))
  BY DEF SignTarget
<1>2. DiffTypes /\ k \in AllKeys /\ FetchedHolds(k)
  <2>1. DiffTypes BY DEF DiffInv
  <2>2. k \in AllKeys BY <2>1, KeysOfPartitions DEF DiffTypes
  <2>. QED BY <2>1, <2>2 DEF DiffInv
<1>3. ASSUME NEW d \in Digests PROVE At("source", k)[d] = At("target", k)[d]
  <2>1. CASE Borne(k, d)
    <3>1. fetched[d] = At("source", k)[d] BY <1>1, <1>2, <2>1 DEF FetchedHolds
    <3>2. Signature("target", KeysOf(part))[d] = At("target", k)[d]
      BY <1>2, <2>1, HashOfOneKey DEF Sides
    <3>. QED BY <1>1, <3>1, <3>2
  <2>2. CASE ~Borne(k, d) BY <1>2, <2>2, HashOfNoRow DEF Sides
  <2>. QED BY <2>1, <2>2
<1>4. At("source", k) = At("target", k)
  <2> DEFINE f == At("source", k)
             g == At("target", k)
  <2>1. f = [d \in Digests |-> f[d]] /\ g = [d \in Digests |-> g[d]] BY DEF At, Signature
  <2>2. \A d \in Digests : f[d] = g[d] BY <1>3
  <2>. HIDE DEF f, g
  <2>3. f = g BY <2>1, <2>2
  <2>. QED BY <2>3 DEF f, g
<1>. QED BY <1>1, <1>4 DEF Agreeing

(* A step of the diff reports only what is so.                             *)
LEMMA TruthfulKept ==
    ASSUME DiffInv, HashDiff, NEW k \in AllKeys \ written
    PROVE  Truthful(k)'
<1>1. /\ Missing(k)' <=> Missing(k)
      /\ Extra(k)' <=> Extra(k)
      /\ Changed(k)' <=> Changed(k)
  BY HashDiffReads, SameRowsSameAnswers
<1>2. CASE Compare BY <1>1, <1>2, CompareFinds DEF Truthful
<1>3. CASE missing' = missing /\ extra' = extra /\ changed' = changed
  BY <1>1, <1>3 DEF Truthful, DiffInv
<1>. QED BY <1>2, <1>3
     DEF HashDiff, FindSourceRange, FindTargetRange, BeginBuckets, Pop, Finish, SignSource,
         SignTarget, SplitRange, SplitRaises, SplitBucket, FetchSource, FetchTargetRaises, reportVars

(* A step of the diff keeps what it has fetched, while the partition is at *)
(* hand.                                                                   *)
LEMMA FetchedKept ==
    ASSUME DiffInv, HashDiff, NEW k \in AllKeys \ written
    PROVE  FetchedHolds(k)'
<1>0. UNCHANGED choiceVars BY HashDiffReads
<1> SUFFICES ASSUME diffAt' \in {"signed", "fetched"}, k \in KeysOf(part')
             PROVE  /\ diffAt' = "fetched" => fetched'[k] = At("source", k)
                    /\ diffAt' = "signed" /\ ~Ambiguous(k) =>
                           \A d \in Digests : Borne(k, d) => fetched'[d] = At("source", k)[d]
  BY <1>0, HashDiffReads, HeldStays DEF FetchedHolds
<1>1. SignSource \/ FetchSource
  BY DEF HashDiff, FindSourceRange, FindTargetRange, BeginBuckets, Pop, Finish,
         SignTarget, SplitRange, SplitRaises, SplitBucket, FetchTargetRaises, Compare
<1>2. CASE FetchSource
  <2>1. fetched' = Content("source", KeysOf(part)) /\ part' = part /\ diffAt' # "signed"
    BY <1>2 DEF FetchSource
  <2>. QED BY <2>1 DEF Content
<1>3. CASE SignSource
  <2>1. /\ fetched' = Signature("source", KeysOf(part)) /\ part' = part /\ diffAt' = "signed"
    BY <1>3 DEF SignSource
  <2>2. DiffTypes BY DEF DiffInv
  <2>. QED BY <2>1, <2>2, HashOfOneKey DEF Sides
<1>. QED BY <1>1, <1>2, <1>3

(* A step of the diff keeps the ends it has read.                          *)
LEMMA BoundedKept ==
    ASSUME DiffInv, HashDiff, NEW k \in AllKeys \ written
    PROVE  Bounded(k)'
<1> SUFFICES ASSUME diffAt' = "ranged", k \in Present("source")'
             PROVE  /\ k = NullKey => nulls'
                    /\ k # NullKey => Between(ends', k)
  BY HashDiffReads, KeysStay DEF Bounded, Between
<1>1. k \in Present("source") BY HashDiffReads, SameRowsSameAnswers
<1>2. FindSourceRange
  BY DEF HashDiff, FindTargetRange, BeginBuckets, Pop, Finish, SignSource,
         SignTarget, SplitRange, SplitRaises, SplitBucket, FetchSource, FetchTargetRaises, Compare
<1>3. ends' \in EndsOf("source") /\ nulls' = (NullKey \in Present("source"))
  BY <1>2 DEF FindSourceRange
<1>4. k = NullKey => nulls' BY <1>1, <1>3
<1>5. k # NullKey => Between(ends', k)
  <2>1. DiffTypes BY DEF DiffInv
  <2>. QED BY <1>1, <1>3, <2>1, EndsAreKeys DEF Sides
<1>. QED BY <1>4, <1>5

(* A step of the diff leaves no key unaccounted for.                       *)
LEMMA CoveredKept ==
    ASSUME DiffInv, HashDiff, NEW k \in AllKeys \ written
    PROVE  Covered(k)'
<1>0. Covered(k) /\ Bounded(k) /\ FetchedHolds(k) BY DEF DiffInv
<1>a. Agreeing(k)' <=> Agreeing(k) BY HashDiffReads, SameRowsSameAnswers
<1>b. /\ UNCHANGED choiceVars /\ pushdown' = pushdown
      /\ (pushdown' /\ Ambiguous(k)') <=> (pushdown /\ Ambiguous(k))
  BY HashDiffReads, KeysStay
<1>c. /\ Stacked(stack, k)' <=> Stacked(stack', k)
      /\ (k \in KeysOf(part))' <=> k \in KeysOf(part')
  BY <1>b, HeldStays
<1>d. ends' = ends => (Overlooked(k)' <=> Overlooked(k)) BY <1>b, KeysStay DEF Overlooked
<1>1. CASE FindSourceRange BY <1>1 DEF FindSourceRange, Covered
<1>2. CASE FindTargetRange
  <2>1. CASE Agreeing(k) BY <1>a, <2>1 DEF Covered
  <2>2. CASE ~Agreeing(k) /\ k = NullKey
    <3>1. NullKey \in Present("source") \/ NullKey \in Present("target")
      BY <2>2, PresentKeys DEF Agreeing
    <3>2. nulls \/ NullKey \in Present("target") BY <1>0, <1>2, <2>2, <3>1 DEF Bounded, FindTargetRange
    <3>3. diffAt' = "sign" /\ part' = NullPartition BY <1>2, <3>2 DEF FindTargetRange
    <3>4. k \in KeysOf(part') BY <2>2, <3>3, KeysOfPartitions
    <3>. QED BY <1>c, <3>3, <3>4 DEF Covered, AtHand
  <2>3. CASE ~Agreeing(k) /\ k # NullKey
    <3>1. k \in Present("source") \/ k \in Present("target")
      BY <2>3, PresentKeys DEF Agreeing
    <3>2. k \in Keys BY <2>3 DEF AllKeys
    <3>3. Between(ends, k) \/ k \in Present("target")
      BY <1>0, <1>2, <2>3, <3>1 DEF Bounded, FindTargetRange
    <3>4. DiffTypes BY DEF DiffInv
    <3>5. Stacked(stack', k) \/ Overlooked(k)' BY <1>2, <3>2, <3>3, <3>4, FirstRange
    <3>. QED BY <1>c, <3>5 DEF Covered
  <2>. QED BY <2>1, <2>2, <2>3
<1>3. CASE BeginBuckets
  <2>1. stack' = <<BucketPartition(<<>>)>> BY <1>3 DEF BeginBuckets
  <2>2. <<>> \in Seq(Digits) /\ Len(<<>>) = 0 OBVIOUS
  <2> PICK e \in Seq(Digits) : e = <<>> BY <2>2
  <2> PICK b \in Buckets : b = BucketPartition(e) BY MadePartitions
  <2>3. b.prefix = e /\ Len(e) = 0 BY <2>2, MadePartitions
  <2>4. prefixOf[k] \in Seq(Digits) BY PrefixAssumption
  <2>5. SubSeq(prefixOf[k], 1, 0) = <<>> BY <2>4
  <2>6. k \in Bucket(b) BY <2>3, <2>5 DEF Bucket
  <2>7. k \in KeysOf(b) BY <2>6, KeysOfPartitions
  <2>8. stack' = <<b>> BY <2>1
  <2>9. k \in KeysOf(stack'[1]) /\ 1 \in 1..Len(stack')
    <3>1. Len(<<b>>) = 1 /\ <<b>>[1] = b OBVIOUS
    <3>. QED BY <2>7, <2>8, <3>1
  <2>10. Stacked(stack', k) BY <2>9 DEF Stacked
  <2>. QED BY <1>c, <2>10 DEF Covered
<1>4. CASE Pop
  <2>1. diffAt = "next" /\ diffAt' = "sign" /\ UNCHANGED reportVars /\ ends' = ends
    BY <1>4 DEF Pop
  <2>2. Reported(k) => Reported(k)' BY <2>1 DEF Reported, reportVars
  <2>3. Stacked(stack, k) => Stacked(stack', k) \/ k \in KeysOf(part') BY <1>4, PopTakes
  <2>. QED BY <1>0, <1>a, <1>b, <1>c, <1>d, <2>1, <2>2, <2>3 DEF Covered, AtHand
<1>5. CASE SignSource \/ FetchSource \/ FetchTargetRaises \/ SplitRaises \/ Finish
  <2>1. /\ stack' = stack /\ part' = part /\ UNCHANGED reportVars /\ ends' = ends
        /\ diffAt \in {"sign", "fetch", "fetched", "split", "next"}
        /\ diffAt = "next" => diffAt' = "done"
        /\ diffAt # "next" => diffAt' \in {"signed", "fetched", "raised"}
    BY <1>5 DEF SignSource, FetchSource, FetchTargetRaises, SplitRaises, Finish
  <2>2. Reported(k)' <=> Reported(k) BY <2>1 DEF Reported, reportVars
  <2>. QED BY <1>0, <1>a, <1>b, <1>c, <1>d, <2>1, <2>2 DEF Covered, AtHand
<1>6. CASE SignTarget
  <2>1. /\ stack' = stack /\ part' = part /\ UNCHANGED reportVars /\ diffAt = "signed"
        /\ ends' = ends /\ diffAt' \in {"next", "fetch", "raised", "split"}
        /\ diffAt' = "next" => pushdown
    BY <1>6 DEF SignTarget
  <2>2. Reported(k)' <=> Reported(k) BY <2>1 DEF Reported, reportVars
  <2>3. k \in KeysOf(part) /\ diffAt' = "next" => Agreeing(k) \/ Ambiguous(k)
    BY <1>6, EqualSignatures
  <2>. QED BY <1>0, <1>a, <1>b, <1>c, <1>d, <2>1, <2>2, <2>3 DEF Covered, AtHand
<1>7. CASE SplitRange \/ SplitBucket
  <2>1. diffAt = "split" /\ UNCHANGED reportVars /\ ends' = ends
    BY <1>7 DEF SplitRange, SplitBucket
  <2>2. Reported(k) => Reported(k)' BY <2>1 DEF Reported, reportVars
  <2>3. Stacked(stack, k) \/ k \in KeysOf(part) => Stacked(stack', k) BY <1>7, SplitsCover
  <2>. QED BY <1>0, <1>a, <1>b, <1>c, <1>d, <2>1, <2>2, <2>3 DEF Covered
<1>8. CASE Compare
  <2>1. stack' = stack /\ diffAt = "fetched" /\ ends' = ends BY <1>8 DEF Compare
  <2>3. /\ k \in KeysOf(part) => Agreeing(k) \/ Reported(k)'
        /\ Reported(k) => Reported(k)'
    BY <1>8, CompareFinds
  <2>. QED BY <1>0, <1>a, <1>b, <1>c, <1>d, <2>1, <2>3 DEF Covered
<1>. QED BY <1>1, <1>2, <1>3, <1>4, <1>5, <1>6, <1>7, <1>8 DEF HashDiff

(* A write to a table beside the diff keeps the invariant: its key is no   *)
(* longer among those it speaks of.                                        *)
LEMMA WriteRowKeeps ==
    ASSUME DiffInv, NEW side \in Sides, NEW j \in AllKeys, WriteRow(side, j)
    PROVE  DiffInv'
<1>1. PICK bag \in RowBags : table' = [table EXCEPT ![side][j] = bag]
  BY DEF WriteRow
<1>2. /\ diffAt' = diffAt /\ ends' = ends /\ nulls' = nulls /\ stack' = stack /\ part' = part
      /\ fetched' = fetched /\ missing' = missing /\ extra' = extra /\ changed' = changed
      /\ written' = written \cup {j}
  BY DEF WriteRow, reportVars
<1>7. UNCHANGED choiceVars BY DEF WriteRow
<1>3. table \in [Sides -> [AllKeys -> RowBags]] BY DEF DiffInv, DiffTypes
<1>4. table' \in [Sides -> [AllKeys -> RowBags]] BY <1>1, <1>3
<1>5. DiffTypes' BY <1>2, <1>4, <1>7, KeysStay DEF DiffInv, DiffTypes
<1>6. ASSUME NEW k \in AllKeys \ written'
      PROVE  Covered(k)' /\ Bounded(k)' /\ FetchedHolds(k)' /\ Truthful(k)'
  <2>1. k \in AllKeys \ written /\ k # j BY <1>2, <1>6
  <2>2. \A s \in Sides : table'[s][k] = table[s][k] BY <1>1, <1>3, <2>1
  <2>3. At("source", k)' = At("source", k) /\ At("target", k)' = At("target", k)
    BY <2>2, RowsStay DEF Sides
  <2>4. /\ Missing(k)' <=> Missing(k)
        /\ Extra(k)' <=> Extra(k)
        /\ Changed(k)' <=> Changed(k)
        /\ Agreeing(k)' <=> Agreeing(k)
        /\ k \in Present("source")' <=> k \in Present("source")
    BY <2>1, <2>3, SameRowsSameAnswers
  <2>5. Covered(k) /\ Bounded(k) /\ FetchedHolds(k) /\ Truthful(k) BY <2>1 DEF DiffInv
  <2>6. (Reported(k)' <=> Reported(k)) /\ (AtHand' <=> AtHand)
        /\ (Stacked(stack, k)' <=> Stacked(stack, k))
        /\ ((k \in KeysOf(part))' <=> k \in KeysOf(part))
    BY <1>2, <1>7, HeldStays DEF Reported, AtHand
  <2>11. /\ \A d : Borne(k, d)' <=> Borne(k, d)
         /\ Ambiguous(k) => Ambiguous(k)'
    <3>1. \A v : HasRow(k, v)' <=> HasRow(k, v) BY <2>2 DEF HasRow
    <3>2. \A x \in AllKeys : \A w : HasRow(x, w) \/ x \in written => HasRow(x, w)' \/ x \in written'
      BY <1>1, <1>2, <1>3 DEF HasRow
    <3>. QED BY <1>7, <3>1, <3>2, KeysStay DEF Borne, Ambiguous
  <2>12. Overlooked(k)' <=> Overlooked(k) BY <1>2, <1>7, KeysStay DEF Overlooked
  <2>13. pushdown' = pushdown BY <1>7, KeysStay
  <2>7. Covered(k)' BY <1>2, <2>4, <2>5, <2>6, <2>11, <2>12, <2>13 DEF Covered
  <2>14. Between(ends, k)' <=> Between(ends, k) BY <1>2, <1>7, KeysStay DEF Between
  <2>8. Bounded(k)' BY <1>2, <2>4, <2>5, <2>14 DEF Bounded
  <2>9. FetchedHolds(k)' BY <1>2, <2>3, <2>5, <2>6, <2>11 DEF FetchedHolds
  <2>10. Truthful(k)' BY <1>2, <2>4, <2>5 DEF Truthful
  <2>. QED BY <2>7, <2>8, <2>9, <2>10
<1>. QED BY <1>5, <1>6 DEF DiffInv

(* The inductive invariant of the hash diff holds in every state, for any  *)
(* keys, digits, depths and rows.                                          *)
THEOREM DiffInvariant == DiffSpec => []DiffInv
<1>1. DiffInit => DiffInv
  <2> SUFFICES ASSUME DiffInit PROVE DiffInv OBVIOUS
  <2>1. DiffTypes
    <3>1. table \in [Sides -> [AllKeys -> RowBags]] BY TablesAssumption DEF DiffInit
    <3>2. part \in Partitions /\ diffAt = "start" BY MadePartitions DEF DiffInit
    <3>3. /\ stack = <<>> /\ part = NullPartition /\ nulls = FALSE
          /\ ends = [least |-> {}, greatest |-> {}]
      BY DEF DiffInit
    <3>4. collation \in [Keys -> Nat] BY CollationsAssumption DEF DiffInit
    <3>5. <<>> \in Seq(Partitions) /\ <<>> \in Seq(Ranges) OBVIOUS
    <3>. QED BY <3>1, <3>2, <3>3, <3>4, <3>5 DEF DiffTypes
  <2>2. diffAt = "start" /\ missing = {} /\ extra = {} /\ changed = {} BY DEF DiffInit
  <2>. QED BY <2>1, <2>2 DEF DiffInv, Covered, Bounded, FetchedHolds, Truthful
<1>2. DiffInv /\ [DiffNext]_diffVars => DiffInv'
  <2> SUFFICES ASSUME DiffInv, [DiffNext]_diffVars PROVE DiffInv' OBVIOUS
  <2>1. CASE HashDiff
    <3>1. written' = written BY <2>1, HashDiffReads
    <3>2. DiffTypes' BY <2>1, DiffTypesKept
    <3>3. \A k \in AllKeys \ written :
             Covered(k)' /\ Bounded(k)' /\ FetchedHolds(k)' /\ Truthful(k)'
      BY <2>1, CoveredKept, BoundedKept, FetchedKept, TruthfulKept
    <3>. QED BY <3>1, <3>2, <3>3 DEF DiffInv
  <2>2. ASSUME NEW side \in Sides, NEW k \in AllKeys, WriteRow(side, k) PROVE DiffInv'
    BY <2>2, WriteRowKeeps
  <2>3. CASE UNCHANGED diffVars
    <3>0. UNCHANGED choiceVars BY <2>3 DEF diffVars, choiceVars
    <3>1. /\ table' = table /\ diffAt' = diffAt /\ ends' = ends /\ nulls' = nulls /\ stack' = stack
          /\ part' = part /\ fetched' = fetched /\ missing' = missing /\ extra' = extra
          /\ changed' = changed /\ written' = written
      BY <2>3 DEF diffVars
    <3>2. DiffTypes' BY <3>0, <3>1, KeysStay DEF DiffInv, DiffTypes
    <3>3. ASSUME NEW k \in AllKeys \ written
          PROVE  Covered(k)' /\ Bounded(k)' /\ FetchedHolds(k)' /\ Truthful(k)'
      <4>1. At("source", k)' = At("source", k) /\ At("target", k)' = At("target", k)
        BY <3>1, RowsStay
      <4>2. /\ Missing(k)' <=> Missing(k)
            /\ Extra(k)' <=> Extra(k)
            /\ Changed(k)' <=> Changed(k)
            /\ Agreeing(k)' <=> Agreeing(k)
            /\ k \in Present("source")' <=> k \in Present("source")
        BY <4>1, SameRowsSameAnswers
      <4>3. (Reported(k)' <=> Reported(k)) /\ (AtHand' <=> AtHand)
            /\ (Stacked(stack, k)' <=> Stacked(stack, k))
            /\ ((k \in KeysOf(part))' <=> k \in KeysOf(part))
        BY <3>0, <3>1, HeldStays DEF Reported, AtHand
      <4>9. /\ \A d : Borne(k, d)' <=> Borne(k, d)
            /\ Ambiguous(k)' <=> Ambiguous(k)
            /\ Overlooked(k)' <=> Overlooked(k)
            /\ Between(ends, k)' <=> Between(ends, k)
            /\ pushdown' = pushdown
        BY <3>0, <3>1, KeysStay DEF Borne, HasRow, Ambiguous, Overlooked, Between
      <4>4. Covered(k) /\ Bounded(k) /\ FetchedHolds(k) /\ Truthful(k) BY DEF DiffInv
      <4>5. Covered(k)' BY <3>1, <4>2, <4>3, <4>4, <4>9 DEF Covered
      <4>6. Bounded(k)' BY <3>1, <4>2, <4>4, <4>9 DEF Bounded
      <4>7. FetchedHolds(k)' BY <3>1, <4>1, <4>3, <4>4, <4>9 DEF FetchedHolds
      <4>8. Truthful(k)' BY <3>1, <4>2, <4>4 DEF Truthful
      <4>. QED BY <4>5, <4>6, <4>7, <4>8
    <3>. QED BY <3>1, <3>2, <3>3 DEF DiffInv
  <2>. QED BY <2>1, <2>2, <2>3 DEF DiffNext
<1>. QED BY <1>1, <1>2, PTL DEF DiffSpec

(* When hash_diff (quality/warehouse_diff.py) returns, each key that       *)
(* nobody has written to meanwhile and that is reported as missing, extra  *)
(* or changed is so, and each that is so is reported, unless it lies       *)
(* between two ends of which Python and the collation take different ones  *)
(* for the outer, or the sums confuse its rows with those of another key.  *)
THEOREM DiffsAreComplete == DiffSpec => []DiffIsComplete
<1>1. DiffInv => DiffIsComplete
  <2> SUFFICES ASSUME DiffInv, diffAt = "done", NEW k \in AllKeys \ written
               PROVE  /\ k \in missing => Missing(k)
                      /\ k \in extra => Extra(k)
                      /\ k \in changed => Changed(k)
                      /\ \/ /\ Missing(k) => k \in missing
                            /\ Extra(k) => k \in extra
                            /\ Changed(k) => k \in changed
                         \/ Overlooked(k)
                         \/ pushdown /\ Ambiguous(k)
    BY DEF DiffIsComplete
  <2>1. stack = <<>> BY DEF DiffInv, DiffTypes
  <2>2. ~Stacked(stack, k) BY <2>1 DEF Stacked
  <2>3. Covered(k) /\ Truthful(k) BY DEF DiffInv
  <2>4. Agreeing(k) \/ Reported(k) \/ Overlooked(k) \/ (pushdown /\ Ambiguous(k))
    BY <2>2, <2>3 DEF Covered, AtHand
  <2>5. CASE Agreeing(k)
    <3>1. ~Missing(k) /\ ~Extra(k) /\ ~Changed(k)
      BY <2>5, PresentKeys DEF Agreeing, Missing, Extra, Changed
    <3>. QED BY <2>3, <3>1 DEF Truthful
  <2>6. CASE Reported(k)
    BY <2>3, <2>6 DEF Reported, Truthful, Missing, Extra, Changed
  <2>7. CASE Overlooked(k) \/ (pushdown /\ Ambiguous(k)) BY <2>3, <2>7 DEF Truthful
  <2>. QED BY <2>4, <2>5, <2>6, <2>7
<1>. QED BY <1>1, DiffInvariant, PTL

=============================================================================
