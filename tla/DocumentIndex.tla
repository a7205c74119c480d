----------------------------- MODULE DocumentIndex -----------------------------
(***************************************************************************)
(* One source of a search index: DocumentIntelligencePipeline.process of   *)
(* knowledge/pipeline.py keeps its chunks (ade_search_chunks, written by   *)
(* retrieval/index.py) in step with a manifest that tells which version of *)
(* the document they are.  Each statement on the database commits for      *)
(* itself; calls of process, deletions of the source and single upserts    *)
(* (api/competitive.py) interleave, and may raise or die anywhere.         *)
(*                                                                         *)
(* A version is what sync_hash tells apart: the content, the metadata, the *)
(* embedding provider, the pages.  The ids of its chunks depend on the     *)
(* content and the pages only, its configuration on the rest.              *)
(***************************************************************************)
EXTENDS Naturals, FiniteSets, FiniteSetsExt

CONSTANTS
    Chunks,     \* ids, in the order of the document
    Versions,
    chunksOf,   \* the ids of a version's chunks
    configOf,   \* metadata and embedding provider of its rows
    Foreign,    \* the configuration of rows written by hand
    Processes,  \* calls of process
    MaxMeddling,\* bound: deletions of the source and single upserts
    MaxFailures \* bound: calls that raise or die

ASSUME ChunksAssumption == Chunks \subseteq Nat /\ IsFiniteSet(Chunks)
ASSUME VersionsAssumption ==
    /\ chunksOf \in [Versions -> (SUBSET Chunks) \ {{}}]
    /\ \A v \in Versions : configOf[v] \notin {Foreign, "NONE"}
    /\ "NONE" \notin Versions
ASSUME IndexBoundsAssumption == MaxMeddling \in Nat /\ MaxFailures \in Nat

VARIABLES
    row,      \* the configuration of each chunk's row, or NONE
    manifest, \* ade_document_manifest: a version or NONE
    process,  \* where each call stands, and what it holds
    deletion, \* where a deletion of the source stands
    loose,    \* history: rows whose writer has written no manifest since, or not alone
    meddling, failures \* bounds used so far

indexVars == <<row, manifest, process, deletion, loose, meddling, failures>>

-----------------------------------------------------------------------------

NotCalled == [at |-> "idle"]

Stations == {"manifest", "compare", "clear", "delete", "upsert", "record", "NOOP", "PASS"}

(* alone: no other call was underway when this one began, and none has     *)
(* written since.                                                          *)
ProcessStates ==
    {NotCalled} \cup [at : Stations, version : Versions, todo : SUBSET Chunks, alone : BOOLEAN]

Indexed == {k \in Chunks : row[k] # "NONE"}

IndexInit ==
    /\ row = [k \in Chunks |-> "NONE"]
    /\ manifest = "NONE"
    /\ process = [c \in Processes |-> NotCalled]
    /\ deletion = [at |-> "idle"]
    /\ loose = {}
    /\ meddling = 0 /\ failures = 0

(* The call goes on to the next step; if it wrote, the others know.        *)
Move(c, step) == process' = [process EXCEPT ![c] = step]

MoveWriting(c, step) ==
    process' = [b \in Processes |->
                   IF b = c THEN step
                   ELSE IF process[b] = NotCalled THEN NotCalled
                   ELSE [process[b] EXCEPT !.alone = FALSE]]

Disturb ==
    process' = [b \in Processes |-> IF process[b] = NotCalled THEN NotCalled
                                    ELSE [process[b] EXCEPT !.alone = FALSE]]

-----------------------------------------------------------------------------
(* process, once the document is extracted and cut into chunks.            *)

OthersUnderway(c) ==
    \/ deletion.at # "idle"
    \/ \E b \in Processes \ {c} : process[b] # NotCalled /\ process[b].at \notin {"NOOP", "PASS"}

(* A finished call may be made again.                                      *)
BeginProcess(c) ==
    /\ process[c] = NotCalled \/ process[c].at \in {"NOOP", "PASS"}
    /\ \E v \in Versions :
          Move(c, [at |-> "manifest", version |-> v, todo |-> {}, alone |-> ~OthersUnderway(c)])
    /\ UNCHANGED <<row, manifest, deletion, loose, meddling, failures>>

(* Variant: a manifest of this version is believed.                        *)
ReadManifestBelieving(c) ==
    /\ process[c].at = "manifest"
    /\ Move(c, [process[c] EXCEPT !.at = IF manifest = process[c].version THEN "NOOP" ELSE "clear"])
    /\ UNCHANGED <<row, manifest, deletion, loose, meddling, failures>>

(* _manifest: rows of another version are removed, those of this one have  *)
(* to be there.                                                            *)
ReadManifest(c) ==
    /\ process[c].at = "manifest"
    /\ Move(c, [process[c] EXCEPT !.at = IF manifest = process[c].version THEN "compare" ELSE "clear"])
    /\ UNCHANGED <<row, manifest, deletion, loose, meddling, failures>>

(* _manifest_chunks_present.                                               *)
CompareChunks(c) ==
    /\ process[c].at = "compare"
    /\ Move(c, [process[c] EXCEPT !.at = IF Indexed = chunksOf[process[c].version]
                                         THEN "NOOP" ELSE "clear"])
    /\ UNCHANGED <<row, manifest, deletion, loose, meddling, failures>>

(* delete_source reads the ids, and deletes these.                         *)
FindRows(c) ==
    /\ process[c].at = "clear"
    /\ Move(c, [process[c] EXCEPT !.at = "delete", !.todo = Indexed])
    /\ UNCHANGED <<row, manifest, deletion, loose, meddling, failures>>

Cleared(ids) == [k \in Chunks |-> IF k \in ids THEN "NONE" ELSE row[k]]

DeleteRows(c) ==
    LET call == process[c]
        next == [call EXCEPT !.at = "upsert", !.todo = chunksOf[call.version]]
    IN  /\ call.at = "delete"
        /\ row' = Cleared(call.todo)
        /\ loose' = loose \ call.todo
        /\ IF call.todo = {} THEN Move(c, next) ELSE MoveWriting(c, next)
        /\ UNCHANGED <<manifest, deletion, meddling, failures>>

(* upsert_many: a row that is as it should be is left alone.               *)
UpsertChunk(c) ==
    LET call == process[c]
        k == Min(call.todo)
        next == [call EXCEPT !.todo = @ \ {k}]
    IN  /\ call.at = "upsert"
        /\ call.todo # {}
        /\ \/ /\ row[k] = configOf[call.version]
              /\ Move(c, next)
              /\ UNCHANGED <<row, loose>>
           \/ /\ row[k] # configOf[call.version]
              /\ row' = [row EXCEPT ![k] = configOf[call.version]]
              /\ loose' = loose \cup {k}
              /\ MoveWriting(c, next)
        /\ UNCHANGED <<manifest, deletion, meddling, failures>>

RecordManifest(c) ==
    LET call == process[c]
    IN  /\ call.at = "upsert"
        /\ call.todo = {}
        /\ manifest' = call.version
        /\ MoveWriting(c, [call EXCEPT !.at = "PASS"])
        /\ loose' = IF call.alone THEN loose \ chunksOf[call.version] ELSE loose
        /\ UNCHANGED <<row, deletion, meddling, failures>>

(* A statement or the embedding provider raises, or the process dies.      *)
ProcessFails(c) ==
    /\ process[c] # NotCalled /\ process[c].at \notin {"NOOP", "PASS"}
    /\ failures < MaxFailures
    /\ failures' = failures + 1
    /\ Move(c, NotCalled)
    /\ UNCHANGED <<row, manifest, deletion, loose, meddling>>

-----------------------------------------------------------------------------
(* Others: search_delete_source and search_index.                          *)

Meddle == meddling < MaxMeddling /\ meddling' = meddling + 1

BeginDeletion ==
    /\ deletion.at = "idle"
    /\ Meddle
    /\ deletion' = [at |-> "rows", ids |-> Indexed]
    /\ UNCHANGED <<row, manifest, process, loose, failures>>

DeleteSource ==
    /\ deletion.at = "rows"
    /\ row' = Cleared(deletion.ids)
    /\ loose' = loose \ deletion.ids
    /\ IF deletion.ids = {} THEN UNCHANGED process ELSE Disturb
    /\ deletion' = [at |-> "manifest"]
    /\ UNCHANGED <<manifest, meddling, failures>>

(* _delete_document_manifest.                                              *)
DeleteManifest ==
    /\ deletion.at = "manifest"
    /\ manifest' = "NONE"
    /\ Disturb
    /\ deletion' = [at |-> "idle"]
    /\ UNCHANGED <<row, loose, meddling, failures>>

DeletionFails ==
    /\ deletion.at # "idle"
    /\ failures < MaxFailures
    /\ failures' = failures + 1
    /\ deletion' = [at |-> "idle"]
    /\ UNCHANGED <<row, manifest, process, loose, meddling>>

UpsertByHand(k) ==
    /\ Meddle
    /\ row[k] # Foreign
    /\ row' = [row EXCEPT ![k] = Foreign]
    /\ loose' = loose \cup {k}
    /\ Disturb
    /\ UNCHANGED <<manifest, deletion, failures>>

-----------------------------------------------------------------------------

IndexNext ==
    \/ \E c \in Processes :
          \/ BeginProcess(c) \/ ReadManifest(c) \/ CompareChunks(c) \/ FindRows(c) \/ DeleteRows(c)
          \/ UpsertChunk(c) \/ RecordManifest(c) \/ ProcessFails(c)
    \/ BeginDeletion \/ DeleteSource \/ DeleteManifest \/ DeletionFails
    \/ \E k \in Chunks : UpsertByHand(k)

IndexSpec == IndexInit /\ [][IndexNext]_indexVars

-----------------------------------------------------------------------------

IndexTypeOK ==
    /\ row \in [Chunks -> {configOf[v] : v \in Versions} \cup {Foreign, "NONE"}]
    /\ manifest \in Versions \cup {"NONE"}
    /\ process \in [Processes -> ProcessStates]
    /\ deletion \in [at : {"idle", "manifest"}] \cup [at : {"rows"}, ids : SUBSET Chunks]
    /\ loose \subseteq Chunks
    /\ meddling \in 0..MaxMeddling
    /\ failures \in 0..MaxFailures

(* A document that process has just reported as synchronized, or as        *)
(* unchanged, is in the index as it should be: its chunks are there and no *)
(* others, each with its metadata and embedding.  The exception is a row   *)
(* whose last writer raised, died or overlapped another before its         *)
(* manifest: the ids are compared, and they do not tell configurations     *)
(* apart, so that going back to the previous metadata is taken for NOOP.   *)
SyncedIsIndexed ==
    \A c \in Processes :
        (process[c].at \in {"NOOP", "PASS"} /\ process[c].alone) =>
            /\ Indexed = chunksOf[process[c].version]
            /\ \A k \in Indexed \ loose : row[k] = configOf[process[c].version]
=============================================================================
