--------------------------- MODULE Stores_proofs ----------------------------
(***************************************************************************)
(* What the stores that outlive a call guarantee, for any number of calls  *)
(* that interleave in them: the governed files and their rollback          *)
(* directories, the entitlements, the document index, the memories and the *)
(* training.                                                               *)
(***************************************************************************)
EXTENDS WorkspaceFiles, Billing, DocumentIndex, MemoryStore, FiniteSetTheorems, WellFoundedInduction,
        TLAPS

-----------------------------------------------------------------------------
(***************************************************************************)
(* The governed file operations of workspace_files.py.                     *)
(***************************************************************************)

(* What a call asks for.                                                   *)
LEMMA AskedTypes ==
    ASSUME WorkspaceTypeOK, NEW c \in Applies
    PROVE  /\ asked[c] \in Arguments /\ asked[c].op \in Operations /\ asked[c].path \in Paths
           /\ asked[c].dest \in Paths \cup {"NONE"} /\ asked[c].content \in OnDisk
           /\ asked[c].op = "move" <=> asked[c].dest # "NONE"
           /\ asked[c].op = "move" => asked[c].dest \in Paths
           /\ asked[c].dest # asked[c].path
           /\ Digest(c) = <<asked[c], source[c]>> /\ Digest(c) \in Fingerprints
           /\ source[c] \in OnDisk
           /\ disk[asked[c].path] \in OnDisk
BY ArgumentsAssumption DEF WorkspaceTypeOK, Digest, Fingerprints, OnDisk

(* The record of a rollback directory.                                     *)
RollbackRecord ==
    [written : BOOLEAN, hadSource : BOOLEAN, hadDest : BOOLEAN,
     source : OnDisk \cup {"NONE"}, dest : OnDisk \cup {"NONE"}]

(* What a snapshot or a manifest says was copied, is there.                *)
CopiesExist ==
    /\ \A f \in Fingerprints : /\ rollback[f].hadSource => rollback[f].source # "NONE"
                               /\ rollback[f].hadDest => rollback[f].dest # "NONE"
    /\ \A c \in Applies :
          /\ asked[c].op # "move" => apply[c] # "snapped"
          /\ apply[c] \in {"snapped", "copied"} /\ seen[c].source =>
                rollback[Digest(c)].source # "NONE"
          /\ apply[c] = "copied" /\ seen[c].dest => rollback[Digest(c)].dest # "NONE"

(* The inductive part that does not depend on who was disturbed: the       *)
(* types, and that what was copied exists.                                 *)
FilesInv == WorkspaceTypeOK /\ CopiesExist

(* Which of its two files a call has found when it copied them.            *)
SeenRecord == [source : BOOLEAN, dest : BOOLEAN]

(* Where a call of workspace_file_apply can stand.                         *)
CallStates == {"idle", "asked", "refused"} \cup Active \cup Over

(* A step of one call keeps the types when what it writes is of the right  *)
(* kind.                                                                   *)
LEMMA MovesTypes ==
    ASSUME WorkspaceTypeOK, NEW c \in Applies, NEW from, NEW to \in CallStates, Moves(c, from, to),
           disk' \in [Paths -> OnDisk], seen' \in [Applies -> SeenRecord],
           rollback' \in [Fingerprints -> RollbackRecord], disturbed' \subseteq Applies
    PROVE  WorkspaceTypeOK'
BY DEF WorkspaceTypeOK, Moves, CallStates, SeenRecord, RollbackRecord

(* The types of each of the state's parts.                                 *)
LEMMA DiskTypes ==
    ASSUME WorkspaceTypeOK
    PROVE  /\ disk \in [Paths -> OnDisk] /\ seen \in [Applies -> SeenRecord]
           /\ rollback \in [Fingerprints -> RollbackRecord] /\ disturbed \subseteq Applies
           /\ apply \in [Applies -> CallStates]
BY DEF WorkspaceTypeOK, CallStates, SeenRecord, RollbackRecord

(* The calls beside that of a step stay a set of calls.                    *)
LEMMA DisturbedTypes ==
    ASSUME disturbed \subseteq Applies, NEW c, NEW paths
    PROVE  Writing(c, paths) \subseteq Applies /\ Guarding(c) \subseteq Applies
BY DEF Writing, Guarding

(* Copying the source into the rollback directory keeps the types.         *)
LEMMA SnapshotSourceTypes ==
    ASSUME WorkspaceTypeOK, NEW c \in Applies, SnapshotSource(c)
    PROVE  WorkspaceTypeOK'
<1> DEFINE there == disk[asked[c].path] # "MISSING"
           copy == IF there THEN disk[asked[c].path] ELSE rollback[Digest(c)].source
           to == IF asked[c].op = "move" THEN "snapped" ELSE "copied"
<1>1. /\ rollback[Digest(c)] \in RollbackRecord /\ Digest(c) \in Fingerprints
      /\ rollback \in [Fingerprints -> RollbackRecord] /\ seen \in [Applies -> SeenRecord]
      /\ disturbed' \subseteq Applies /\ disk' \in [Paths -> OnDisk]
    BY AskedTypes, DiskTypes, DisturbedTypes DEF SnapshotSource
<1>2. rollback' = [rollback EXCEPT ![Digest(c)] = [rollback[Digest(c)] EXCEPT !.source = copy]]
    BY <1>1 DEF SnapshotSource
<1>3. copy \in OnDisk \cup {"NONE"}
    BY <1>1, AskedTypes DEF RollbackRecord
<1>4. /\ Moves(c, "planned", to) /\ to \in CallStates
      /\ seen' = [seen EXCEPT ![c] = [source |-> there, dest |-> FALSE]]
    BY DEF SnapshotSource, CallStates, Active
<1>5. [source |-> there, dest |-> FALSE] \in SeenRecord
    BY DEF SeenRecord
<1> HIDE DEF copy, there, to
<1>6. [rollback[Digest(c)] EXCEPT !.source = copy] \in RollbackRecord
    BY <1>1, <1>3 DEF RollbackRecord
<1>7. rollback' \in [Fingerprints -> RollbackRecord] /\ seen' \in [Applies -> SeenRecord]
    BY <1>1, <1>2, <1>4, <1>5, <1>6
<1> QED
    BY <1>1, <1>4, <1>7, MovesTypes

(* Copying the destination of a move into the rollback directory keeps the *)
(* types.                                                                  *)
LEMMA SnapshotDestTypes ==
    ASSUME WorkspaceTypeOK, NEW c \in Applies, asked[c].op = "move", SnapshotDest(c)
    PROVE  WorkspaceTypeOK'
<1> DEFINE there == disk[asked[c].dest] # "MISSING"
           copy == IF there THEN disk[asked[c].dest] ELSE rollback[Digest(c)].dest
<1>1. /\ rollback[Digest(c)] \in RollbackRecord /\ Digest(c) \in Fingerprints
      /\ rollback \in [Fingerprints -> RollbackRecord] /\ seen \in [Applies -> SeenRecord]
      /\ disturbed' \subseteq Applies /\ disk' \in [Paths -> OnDisk]
    BY AskedTypes, DiskTypes, DisturbedTypes DEF SnapshotDest
<1>2. rollback' = [rollback EXCEPT ![Digest(c)] = [rollback[Digest(c)] EXCEPT !.dest = copy]]
    BY <1>1 DEF SnapshotDest
<1>3. copy \in OnDisk \cup {"NONE"}
    <2>1. disk[asked[c].dest] \in OnDisk
        BY AskedTypes, DiskTypes
    <2> QED
        BY <1>1, <2>1 DEF RollbackRecord
<1>4. /\ Moves(c, "snapped", "copied") /\ "copied" \in CallStates
      /\ seen' = [seen EXCEPT ![c] = [seen[c] EXCEPT !.dest = there]]
    BY <1>1 DEF SnapshotDest, CallStates, Active
<1>5. [seen[c] EXCEPT !.dest = there] \in SeenRecord
    BY <1>1 DEF SeenRecord
<1> HIDE DEF copy, there
<1>6. [rollback[Digest(c)] EXCEPT !.dest = copy] \in RollbackRecord
    BY <1>1, <1>3 DEF RollbackRecord
<1>7. rollback' \in [Fingerprints -> RollbackRecord] /\ seen' \in [Applies -> SeenRecord]
    BY <1>1, <1>2, <1>4, <1>5, <1>6
<1> QED
    BY <1>1, <1>4, <1>7, MovesTypes

(* Writing the manifest of the rollback directory keeps the types.         *)
LEMMA WriteManifestTypes ==
    ASSUME WorkspaceTypeOK, NEW c \in Applies, WriteManifest(c)
    PROVE  WorkspaceTypeOK'
<1> DEFINE saved == [rollback[Digest(c)] EXCEPT !.written = TRUE, !.hadSource = seen[c].source,
                                                   !.hadDest = seen[c].dest]
<1>1. /\ rollback[Digest(c)] \in RollbackRecord /\ Digest(c) \in Fingerprints
      /\ rollback \in [Fingerprints -> RollbackRecord] /\ seen \in [Applies -> SeenRecord]
      /\ disturbed' \subseteq Applies /\ disk' \in [Paths -> OnDisk] /\ seen' = seen
    BY AskedTypes, DiskTypes, DisturbedTypes DEF WriteManifest
<1>2. rollback' = [rollback EXCEPT ![Digest(c)] = saved]
    BY <1>1 DEF WriteManifest
<1>3. seen[c].source \in BOOLEAN /\ seen[c].dest \in BOOLEAN
    BY <1>1 DEF SeenRecord
<1>4. saved \in RollbackRecord
    BY <1>1, <1>3 DEF RollbackRecord
<1>5. Moves(c, "copied", "guarded") /\ "guarded" \in CallStates
    BY DEF WriteManifest, CallStates, Active
<1> HIDE DEF saved
<1>6. rollback' \in [Fingerprints -> RollbackRecord]
    BY <1>1, <1>2, <1>4
<1> QED
    BY <1>1, <1>5, <1>6, MovesTypes

(* A step that writes to the disk, or to nothing.                          *)
LEMMA DiskWriteTypes ==
    ASSUME FilesInv, NEW c \in Applies,
           \/ Replan(c) \/ RefuseStale(c) \/ Rename(c) \/ Unlink(c) \/ Truncate(c) \/ Fill(c)
           \/ MutationRaises(c) \/ Verify(c) \/ CheckResult(c)
           \/ BeginUndo(c) \/ UndoSource(c) \/ UndoDest(c)
    PROVE  WorkspaceTypeOK'
<1>1. /\ seen' = seen /\ rollback' = rollback /\ disturbed' \subseteq Applies
      /\ \E from, to \in CallStates : Moves(c, from, to)
    <2>1. seen' = seen /\ rollback' = rollback
        BY DEF Replan, RefuseStale, Rename, Unlink, Truncate, Fill, MutationRaises, Verify,
               CheckResult, BeginUndo, UndoSource, UndoDest
    <2>2. disturbed' \subseteq Applies
        BY DiskTypes, DisturbedTypes
           DEF FilesInv, Replan, RefuseStale, Rename, Unlink, Truncate, Fill, MutationRaises, Verify,
               CheckResult, BeginUndo, UndoSource, UndoDest
    <2>3. \E from, to \in CallStates : Moves(c, from, to)
        BY DEF Replan, RefuseStale, Rename, Unlink, Truncate, Fill, MutationRaises, Verify,
               CheckResult, BeginUndo, UndoSource, UndoDest, CallStates, Active, Over
    <2> QED
        BY <2>1, <2>2, <2>3
<1>2. disk' \in [Paths -> OnDisk]
    <2> DEFINE saved == rollback[Digest(c)]
    <2>1. disk \in [Paths -> OnDisk] /\ saved \in RollbackRecord
        BY DiskTypes, AskedTypes DEF FilesInv
    <2>2. CASE disk' = disk
        BY <2>1, <2>2
    <2>3. CASE Rename(c)
        BY <2>1, <2>3, AskedTypes DEF Rename, OnDisk, FilesInv
    <2>4. CASE Unlink(c) \/ Truncate(c) \/ Fill(c)
        BY <2>1, <2>4, AskedTypes DEF Unlink, Truncate, Fill, OnDisk, FilesInv
    <2>5. /\ saved.hadSource => saved.source \in OnDisk
          /\ saved.hadDest => saved.dest \in OnDisk
        BY <2>1, AskedTypes DEF FilesInv, CopiesExist, RollbackRecord
    <2>6. CASE UndoSource(c)
        BY <2>1, <2>5, <2>6, AskedTypes DEF UndoSource, OnDisk, FilesInv
    <2>7. CASE UndoDest(c)
        BY <2>1, <2>5, <2>7, AskedTypes DEF UndoDest, OnDisk, FilesInv
    <2> QED
        BY <2>2, <2>3, <2>4, <2>6, <2>7
           DEF Replan, RefuseStale, MutationRaises, Verify, CheckResult, BeginUndo
<1> QED
    BY <1>1, <1>2, DiskTypes, MovesTypes DEF FilesInv

(* Asking, an edit beside the tool and a death keep the types.             *)
LEMMA OtherFileTypes ==
    ASSUME WorkspaceTypeOK,
           (\E c \in Applies : Ask(c)) \/ (\E p \in Paths : Edit(p)) \/ Die \/ UNCHANGED workspaceVars
    PROVE  WorkspaceTypeOK'
<1>1. CASE \E c \in Applies : Ask(c)
    BY <1>1, ArgumentsAssumption DEF Ask, WorkspaceTypeOK
<1>2. CASE \E p \in Paths : Edit(p)
    BY <1>2, WorkspaceBoundsAssumption DEF Edit, WorkspaceTypeOK, OnDisk
<1>3. CASE Die
    BY <1>3, WorkspaceBoundsAssumption DEF Die, WorkspaceTypeOK, Over
<1>4. CASE UNCHANGED workspaceVars
    BY <1>4 DEF workspaceVars, WorkspaceTypeOK
<1> QED
    BY <1>1, <1>2, <1>3, <1>4

(* The steps by what they do to the rollback directories.                  *)
LEMMA WorkspaceSteps ==
    ASSUME WorkspaceNext
    PROVE  \/ \E c \in Applies :
                 \/ SnapshotSource(c) \/ SnapshotDest(c) \/ WriteManifest(c)
                 \/ Replan(c) \/ RefuseStale(c) \/ Rename(c) \/ Unlink(c) \/ Truncate(c) \/ Fill(c)
                 \/ MutationRaises(c) \/ Verify(c) \/ CheckResult(c)
                 \/ BeginUndo(c) \/ UndoSource(c) \/ UndoDest(c)
                 \/ Ask(c)
           \/ \E p \in Paths : Edit(p)
           \/ Die
BY DEF WorkspaceNext

(* The stations of a call that has copied something and not yet written    *)
(* its manifest.                                                           *)
Holding == {"snapped", "copied"}

(* What makes a step keep the copies: no copy is removed, no record claims *)
(* a copy that is not there, and the calls that hold copies stay or have   *)
(* just made them.                                                         *)
LEMMA CopiesStay ==
    ASSUME FilesInv, WorkspaceTypeOK',
           \A f \in Fingerprints :
              /\ rollback[f].source # "NONE" => rollback'[f].source # "NONE"
              /\ rollback[f].dest # "NONE" => rollback'[f].dest # "NONE"
              /\ rollback'[f].hadSource => rollback'[f].source # "NONE"
              /\ rollback'[f].hadDest => rollback'[f].dest # "NONE",
           \A c \in Applies :
              \/ apply'[c] \notin Holding
              \/ /\ apply'[c] = apply[c] /\ asked'[c] = asked[c] /\ source'[c] = source[c]
                 /\ seen'[c] = seen[c]
              \/ /\ asked'[c].op # "move" => apply'[c] # "snapped"
                 /\ seen'[c].source => rollback'[Digest(c)'].source # "NONE"
                 /\ apply'[c] = "copied" /\ seen'[c].dest => rollback'[Digest(c)'].dest # "NONE"
    PROVE  FilesInv'
<1> SUFFICES ASSUME NEW c \in Applies
             PROVE  /\ asked'[c].op # "move" => apply'[c] # "snapped"
                    /\ apply'[c] \in Holding /\ seen'[c].source =>
                          rollback'[Digest(c)'].source # "NONE"
                    /\ apply'[c] = "copied" /\ seen'[c].dest => rollback'[Digest(c)'].dest # "NONE"
    BY DEF FilesInv, CopiesExist, Holding
<1>1. CASE /\ apply'[c] = apply[c] /\ asked'[c] = asked[c] /\ source'[c] = source[c]
           /\ seen'[c] = seen[c]
    <2>1. Digest(c)' = Digest(c) /\ Digest(c) \in Fingerprints
        BY <1>1, AskedTypes DEF FilesInv, Digest
    <2> QED
        BY <1>1, <2>1 DEF FilesInv, CopiesExist, Holding
<1> QED
    BY <1>1 DEF Holding

(* Copying the source leaves every copy that is claimed in its place.      *)
LEMMA SnapshotSourceKeeps ==
    ASSUME FilesInv, NEW c \in Applies, SnapshotSource(c)
    PROVE  FilesInv'
<1> DEFINE there == disk[asked[c].path] # "MISSING"
           copy == IF there THEN disk[asked[c].path] ELSE rollback[Digest(c)].source
<1>1. WorkspaceTypeOK /\ CopiesExist /\ WorkspaceTypeOK'
    BY SnapshotSourceTypes DEF FilesInv
<1>2. /\ rollback[Digest(c)] \in RollbackRecord /\ Digest(c) \in Fingerprints
      /\ rollback \in [Fingerprints -> RollbackRecord] /\ seen \in [Applies -> SeenRecord]
      /\ apply \in [Applies -> CallStates] /\ disk[asked[c].path] \in OnDisk
    BY <1>1, AskedTypes, DiskTypes
<1>3. there => copy # "NONE"
    BY <1>2, ContentsAssumption DEF OnDisk
<1>4. rollback' = [rollback EXCEPT ![Digest(c)] = [rollback[Digest(c)] EXCEPT !.source = copy]]
    BY <1>2 DEF SnapshotSource
<1>5. /\ asked' = asked /\ source' = source
      /\ apply' = [apply EXCEPT ![c] = IF asked[c].op = "move" THEN "snapped" ELSE "copied"]
      /\ seen' = [seen EXCEPT ![c] = [source |-> there, dest |-> FALSE]]
    BY DEF SnapshotSource, Moves
<1>6. copy # "NONE" \/ copy = rollback[Digest(c)].source
    BY <1>3
<1> HIDE DEF there, copy
<1>7. \A f \in Fingerprints :
          /\ rollback'[f].source = (IF f = Digest(c) THEN copy ELSE rollback[f].source)
          /\ rollback'[f].dest = rollback[f].dest
          /\ rollback'[f].hadSource = rollback[f].hadSource
          /\ rollback'[f].hadDest = rollback[f].hadDest
    BY <1>2, <1>4 DEF RollbackRecord
<1>8. \A f \in Fingerprints :
          /\ rollback[f].source # "NONE" => rollback'[f].source # "NONE"
          /\ rollback[f].dest # "NONE" => rollback'[f].dest # "NONE"
          /\ rollback'[f].hadSource => rollback'[f].source # "NONE"
          /\ rollback'[f].hadDest => rollback'[f].dest # "NONE"
    <2> TAKE f \in Fingerprints
    <2>1. rollback[f].source # "NONE" => rollback'[f].source # "NONE"
        BY <1>6, <1>7
    <2>2. /\ rollback[f].hadSource => rollback[f].source # "NONE"
          /\ rollback[f].hadDest => rollback[f].dest # "NONE"
        BY <1>1 DEF CopiesExist
    <2> QED
        BY <1>7, <2>1, <2>2
<1>9. Digest(c)' = Digest(c)
    BY <1>5 DEF Digest
<1>10. /\ seen'[c].source = there /\ seen'[c].dest = FALSE
       /\ asked'[c].op # "move" => apply'[c] # "snapped"
    BY <1>2, <1>5
<1>11. seen'[c].source => rollback'[Digest(c)'].source # "NONE"
    BY <1>2, <1>3, <1>7, <1>9, <1>10
<1>12. \A d \in Applies \ {c} : /\ apply'[d] = apply[d] /\ asked'[d] = asked[d]
                               /\ source'[d] = source[d] /\ seen'[d] = seen[d]
    BY <1>2, <1>5
<1> QED
    BY <1>1, <1>8, <1>10, <1>11, <1>12, CopiesStay

(* Copying the destination leaves every copy that is claimed in its place. *)
LEMMA SnapshotDestKeeps ==
    ASSUME FilesInv, NEW c \in Applies, SnapshotDest(c)
    PROVE  FilesInv'
<1> DEFINE there == disk[asked[c].dest] # "MISSING"
           copy == IF there THEN disk[asked[c].dest] ELSE rollback[Digest(c)].dest
<1>1. WorkspaceTypeOK /\ CopiesExist /\ asked[c].op = "move" /\ apply[c] = "snapped"
    BY DEF FilesInv, CopiesExist, SnapshotDest, Moves
<1>2. WorkspaceTypeOK'
    BY <1>1, SnapshotDestTypes
<1>3. /\ rollback[Digest(c)] \in RollbackRecord /\ Digest(c) \in Fingerprints
      /\ rollback \in [Fingerprints -> RollbackRecord] /\ seen \in [Applies -> SeenRecord]
      /\ apply \in [Applies -> CallStates]
    BY <1>1, AskedTypes, DiskTypes
<1>4. there => copy # "NONE"
    <2>1. disk[asked[c].dest] \in OnDisk
        BY <1>1, AskedTypes, DiskTypes
    <2> QED
        BY <2>1, ContentsAssumption DEF OnDisk
<1>5. rollback' = [rollback EXCEPT ![Digest(c)] = [rollback[Digest(c)] EXCEPT !.dest = copy]]
    BY <1>3 DEF SnapshotDest
<1>6. /\ asked' = asked /\ source' = source
      /\ apply' = [apply EXCEPT ![c] = "copied"]
      /\ seen' = [seen EXCEPT ![c] = [seen[c] EXCEPT !.dest = there]]
    BY <1>3 DEF SnapshotDest, Moves
<1>7. copy # "NONE" \/ copy = rollback[Digest(c)].dest
    BY <1>4
<1> HIDE DEF there, copy
<1>8. \A f \in Fingerprints :
          /\ rollback'[f].dest = (IF f = Digest(c) THEN copy ELSE rollback[f].dest)
          /\ rollback'[f].source = rollback[f].source
          /\ rollback'[f].hadSource = rollback[f].hadSource
          /\ rollback'[f].hadDest = rollback[f].hadDest
    BY <1>3, <1>5 DEF RollbackRecord
<1>9. \A f \in Fingerprints :
          /\ rollback[f].source # "NONE" => rollback'[f].source # "NONE"
          /\ rollback[f].dest # "NONE" => rollback'[f].dest # "NONE"
          /\ rollback'[f].hadSource => rollback'[f].source # "NONE"
          /\ rollback'[f].hadDest => rollback'[f].dest # "NONE"
    <2> TAKE f \in Fingerprints
    <2>1. rollback[f].dest # "NONE" => rollback'[f].dest # "NONE"
        BY <1>7, <1>8
    <2>2. /\ rollback[f].hadSource => rollback[f].source # "NONE"
          /\ rollback[f].hadDest => rollback[f].dest # "NONE"
        BY <1>1 DEF CopiesExist
    <2> QED
        BY <1>8, <2>1, <2>2
<1>10. Digest(c)' = Digest(c)
    BY <1>6 DEF Digest
<1>11. /\ seen'[c].source = seen[c].source /\ seen'[c].dest = there /\ apply'[c] = "copied"
    BY <1>3, <1>6 DEF SeenRecord
<1>12. seen'[c].source => rollback'[Digest(c)'].source # "NONE"
    BY <1>1, <1>3, <1>8, <1>10, <1>11 DEF CopiesExist
<1>13. seen'[c].dest => rollback'[Digest(c)'].dest # "NONE"
    BY <1>3, <1>4, <1>8, <1>10, <1>11
<1>14. \A d \in Applies \ {c} : /\ apply'[d] = apply[d] /\ asked'[d] = asked[d]
                               /\ source'[d] = source[d] /\ seen'[d] = seen[d]
    BY <1>3, <1>6
<1> QED
    BY <1>2, <1>9, <1>11, <1>12, <1>13, <1>14, CopiesStay, SMTT(30) DEF FilesInv

(* A manifest claims only what its call has copied.                        *)
LEMMA WriteManifestKeeps ==
    ASSUME FilesInv, NEW c \in Applies, WriteManifest(c)
    PROVE  FilesInv'
<1>1. WorkspaceTypeOK /\ CopiesExist /\ WorkspaceTypeOK' /\ apply[c] = "copied"
    BY WriteManifestTypes DEF FilesInv, WriteManifest, Moves
<1>2. /\ rollback[Digest(c)] \in RollbackRecord /\ Digest(c) \in Fingerprints
      /\ rollback \in [Fingerprints -> RollbackRecord] /\ seen \in [Applies -> SeenRecord]
      /\ apply \in [Applies -> CallStates]
    BY <1>1, AskedTypes, DiskTypes
<1>3. rollback' = [rollback EXCEPT ![Digest(c)] =
          [rollback[Digest(c)] EXCEPT !.written = TRUE, !.hadSource = seen[c].source,
                                      !.hadDest = seen[c].dest]]
    BY <1>2 DEF WriteManifest
<1>4. asked' = asked /\ source' = source /\ seen' = seen /\ apply' = [apply EXCEPT ![c] = "guarded"]
    BY DEF WriteManifest, Moves
<1>5. \A f \in Fingerprints :
          /\ rollback'[f].source = rollback[f].source
          /\ rollback'[f].dest = rollback[f].dest
          /\ f # Digest(c) => rollback'[f] = rollback[f]
    BY <1>2, <1>3 DEF RollbackRecord
<1>6. /\ rollback'[Digest(c)].hadSource = seen[c].source
      /\ rollback'[Digest(c)].hadDest = seen[c].dest
    BY <1>2, <1>3 DEF RollbackRecord
<1>7. \A f \in Fingerprints :
          /\ rollback'[f].hadSource => rollback'[f].source # "NONE"
          /\ rollback'[f].hadDest => rollback'[f].dest # "NONE"
    BY <1>1, <1>5, <1>6 DEF CopiesExist
<1>8. \A d \in Applies : \/ apply'[d] \notin Holding
                         \/ /\ apply'[d] = apply[d] /\ asked'[d] = asked[d]
                            /\ source'[d] = source[d] /\ seen'[d] = seen[d]
    BY <1>2, <1>4 DEF Holding
<1> QED
    BY <1>1, <1>5, <1>7, <1>8, CopiesStay

(* Every step keeps the types and the copies.                              *)
LEMMA FilesKept ==
    ASSUME FilesInv, [WorkspaceNext]_workspaceVars
    PROVE  FilesInv'
<1> DEFINE Others == \/ \E p \in Paths : Edit(p)
                     \/ Die
                     \/ UNCHANGED workspaceVars
<1>1. CASE \E c \in Applies : SnapshotSource(c) \/ SnapshotDest(c) \/ WriteManifest(c)
    BY <1>1, SnapshotSourceKeeps, SnapshotDestKeeps, WriteManifestKeeps
<1>2. ASSUME WorkspaceTypeOK', rollback' = rollback,
             \A c \in Applies :
                \/ apply'[c] \notin Holding
                \/ /\ apply'[c] = apply[c] /\ asked'[c] = asked[c] /\ source'[c] = source[c]
                   /\ seen'[c] = seen[c]
      PROVE  FilesInv'
    <2>1. \A f \in Fingerprints : /\ rollback'[f].hadSource => rollback'[f].source # "NONE"
                                  /\ rollback'[f].hadDest => rollback'[f].dest # "NONE"
        BY <1>2 DEF FilesInv, CopiesExist
    <2> QED
        BY <1>2, <2>1, CopiesStay
<1>3. CASE \E c \in Applies :
              \/ Replan(c) \/ RefuseStale(c) \/ Rename(c) \/ Unlink(c) \/ Truncate(c) \/ Fill(c)
              \/ MutationRaises(c) \/ Verify(c) \/ CheckResult(c)
              \/ BeginUndo(c) \/ UndoSource(c) \/ UndoDest(c)
    <2>1. PICK c \in Applies :
              \/ Replan(c) \/ RefuseStale(c) \/ Rename(c) \/ Unlink(c) \/ Truncate(c) \/ Fill(c)
              \/ MutationRaises(c) \/ Verify(c) \/ CheckResult(c)
              \/ BeginUndo(c) \/ UndoSource(c) \/ UndoDest(c)
        BY <1>3
    <2>2. /\ seen' = seen /\ rollback' = rollback /\ asked' = asked /\ source' = source
          /\ \E to : to \notin Holding /\ apply' = [apply EXCEPT ![c] = to]
        BY <2>1 DEF Replan, RefuseStale, Rename, Unlink, Truncate, Fill, MutationRaises, Verify,
               CheckResult, BeginUndo, UndoSource, UndoDest, Moves, Holding
    <2>3. apply \in [Applies -> CallStates]
        BY DiskTypes DEF FilesInv
    <2> QED
        BY <1>2, <2>1, <2>2, <2>3, DiskWriteTypes
<1>4. CASE \E c \in Applies : Ask(c)
    <2>1. PICK c \in Applies : Ask(c)
        BY <1>4
    <2>2. /\ rollback' = rollback /\ seen' = seen /\ apply' = [apply EXCEPT ![c] = "asked"]
          /\ \A d \in Applies \ {c} : asked'[d] = asked[d] /\ source'[d] = source[d]
        BY <2>1 DEF Ask, FilesInv, WorkspaceTypeOK
    <2>3. apply \in [Applies -> CallStates]
        BY DiskTypes DEF FilesInv
    <2> QED
        BY <1>2, <1>4, <2>2, <2>3, OtherFileTypes DEF FilesInv, Holding
<1>5. CASE Others
    <2>1. WorkspaceTypeOK'
        BY <1>5, OtherFileTypes DEF FilesInv
    <2>2. rollback' = rollback /\ seen' = seen /\ asked' = asked /\ source' = source
        BY <1>5 DEF Edit, Die, workspaceVars
    <2>3. \A c \in Applies : apply'[c] = apply[c] \/ apply'[c] \notin Holding
        BY <1>5 DEF Edit, Die, workspaceVars, Holding, Active, Unguarded
    <2> QED
        BY <1>2, <2>1, <2>2, <2>3
<1> QED
    BY <1>1, <1>3, <1>4, <1>5, WorkspaceSteps

(* They hold before the first call.                                        *)
LEMMA FilesInitially ==
    ASSUME WorkspaceInit
    PROVE  FilesInv
<1>1. (CHOOSE a \in Arguments : TRUE) \in Arguments
    BY ArgumentsAssumption
<1>2. NoRollback \in RollbackRecord
    BY DEF NoRollback, RollbackRecord
<1>3. WorkspaceTypeOK
    BY <1>1, <1>2, InitialDiskAssumption, WorkspaceBoundsAssumption
       DEF WorkspaceInit, WorkspaceTypeOK, OnDisk, RollbackRecord
<1>4. CopiesExist
    BY DEF WorkspaceInit, CopiesExist, NoRollback
<1> QED
    BY <1>3, <1>4 DEF FilesInv

(* What a call copied is what its plan was approved for.                   *)
CopiedAsApproved(c) ==
    /\ seen[c].source = (source[c] # "MISSING")
    /\ seen[c].source => rollback[Digest(c)].source = source[c]
    /\ ~seen[c].dest

(* A call that has written its manifest.                                   *)
UnderManifest == {"guarded", "torn", "mutated", "verified", "passed", "rolling", "raised", "dead",
                  "undoing", "rolled", "restored", "rolledback", "undone"}

(* The files as the plan found them, before the change and after an undo.  *)
Intact == {"planned", "snapped", "copied", "lapsed", "guarded", "rolledback", "undone"}

(* Where a call beside which nobody wrote stands, and what it can bring    *)
(* back from there.                                                        *)
Recoverable(c) ==
    /\ asked[c].op # "move" => apply[c] # "snapped"
    /\ apply[c] \in Intact => Unchanged(c)
    /\ apply[c] \in Holding => CopiedAsApproved(c)
    /\ apply[c] \in {"rolled", "restored"} => disk[asked[c].path] = source[c]
    /\ apply[c] \in UnderManifest => Restorable(c)

(* The inductive invariant of the governed file operations: what was       *)
(* copied exists, and every call that was not disturbed has left its files *)
(* alone or can be taken back.                                             *)
SafeFiles == FilesInv /\ \A c \in Applies \ disturbed : Recoverable(c)

(* The two properties follow from it.                                      *)
LEMMA SafeSuffices ==
    ASSUME SafeFiles
    PROVE  NothingIsLost /\ RolledBackIsUnchanged
<1>1. Active \cup Over \subseteq Intact \cup UnderManifest
    BY DEF Active, Over, Intact, UnderManifest
<1>2. {"rolledback", "undone"} \subseteq Intact
    BY DEF Intact
<1> QED
    BY <1>1, <1>2 DEF SafeFiles, Recoverable, NothingIsLost, RolledBackIsUnchanged

(* A call whose files, copies and state a step leaves alone.               *)
LEMMA LeftAlone ==
    ASSUME FilesInv, NEW d \in Applies, Recoverable(d), seen'[d] = seen[d],
           asked'[d] = asked[d], source'[d] = source[d],
           \/ apply'[d] = apply[d]
           \/ apply[d] \in Unguarded /\ apply'[d] = "lapsed"
           \/ apply[d] \in Active \ Unguarded /\ apply'[d] = "dead",
           disk'[asked[d].path] = disk[asked[d].path],
           asked[d].op = "move" => disk'[asked[d].dest] = disk[asked[d].dest],
           rollback'[Digest(d)] = rollback[Digest(d)]
    PROVE  Recoverable(d)'
<1>1. Digest(d)' = Digest(d)
    BY DEF Digest
<1>2. /\ Unchanged(d)' = Unchanged(d) /\ Restorable(d)' = Restorable(d)
      /\ CopiedAsApproved(d)' = CopiedAsApproved(d)
    BY <1>1 DEF Unchanged, Restorable, CopiedAsApproved
<1>3. \/ apply'[d] = apply[d]
      \/ apply[d] \in Intact /\ apply'[d] = "lapsed"
      \/ apply[d] \in UnderManifest /\ apply'[d] = "dead"
    BY DEF Unguarded, Active, Intact, UnderManifest
<1> QED
    BY <1>2, <1>3 DEF Recoverable, Intact, UnderManifest, Holding

(* What a step writes to, it counts.                                       *)
LEMMA WrittenBeside ==
    ASSUME FilesInv, NEW c \in Applies, NEW d \in Applies \ {c}, NEW paths \in SUBSET Paths,
           d \notin Writing(c, paths), \A p \in Paths \ paths : disk'[p] = disk[p]
    PROVE  /\ d \notin disturbed /\ disk'[asked[d].path] = disk[asked[d].path]
           /\ asked[d].op = "move" => disk'[asked[d].dest] = disk[asked[d].dest]
<1>1. /\ asked[d].path \in Paths
      /\ asked[d].op = "move" => asked[d].dest \in Paths
    BY AskedTypes DEF FilesInv
<1>2. d \notin disturbed /\ asked[d].path \notin paths /\ asked[d].dest \notin paths
    BY DEF Writing
<1> QED
    BY <1>1, <1>2

(* A step of a call that writes its own rollback directory leaves the      *)
(* record of a call that is not disturbed by it.                           *)
LEMMA GuardedBeside ==
    ASSUME FilesInv, NEW c \in Applies, NEW d \in Applies \ {c}, d \notin Guarding(c),
           \A f \in Fingerprints \ {Digest(c)} : rollback'[f] = rollback[f]
    PROVE  d \notin disturbed /\ rollback'[Digest(d)] = rollback[Digest(d)]
<1>1. Digest(d) \in Fingerprints
    BY AskedTypes DEF FilesInv
<1> QED
    BY <1>1 DEF Guarding

(* A step of another call.                                                 *)
LEMMA OthersLeave ==
    ASSUME SafeFiles, NEW c \in Applies, NEW d \in (Applies \ disturbed') \ {c},
           \E from, to \in CallStates : Moves(c, from, to),
           \A e \in Applies \ {c} : seen'[e] = seen[e],
           \/ \E paths \in SUBSET Paths : /\ disturbed' = Writing(c, paths)
                                          /\ \A p \in Paths \ paths : disk'[p] = disk[p]
                                          /\ rollback' = rollback
           \/ /\ disturbed' = Guarding(c) /\ disk' = disk
              /\ \A f \in Fingerprints \ {Digest(c)} : rollback'[f] = rollback[f]
           \/ disk' = disk /\ rollback' = rollback /\ disturbed \subseteq disturbed' \cup {c}
    PROVE  Recoverable(d)'
<1>1. apply'[d] = apply[d] /\ asked'[d] = asked[d] /\ source'[d] = source[d] /\ seen'[d] = seen[d]
    BY DEF Moves, SafeFiles, FilesInv, WorkspaceTypeOK
<1>2. /\ d \notin disturbed /\ disk'[asked[d].path] = disk[asked[d].path]
      /\ asked[d].op = "move" => disk'[asked[d].dest] = disk[asked[d].dest]
      /\ rollback'[Digest(d)] = rollback[Digest(d)]
    <2>1. CASE \E paths \in SUBSET Paths : /\ disturbed' = Writing(c, paths)
                                           /\ \A p \in Paths \ paths : disk'[p] = disk[p]
                                           /\ rollback' = rollback
        <3>1. PICK paths \in SUBSET Paths : /\ disturbed' = Writing(c, paths)
                                            /\ \A p \in Paths \ paths : disk'[p] = disk[p]
                                            /\ rollback' = rollback
            BY <2>1, Zenon
        <3> QED
            BY <3>1, WrittenBeside DEF SafeFiles
    <2>2. CASE /\ disturbed' = Guarding(c) /\ disk' = disk
               /\ \A f \in Fingerprints \ {Digest(c)} : rollback'[f] = rollback[f]
        BY <2>2, GuardedBeside DEF SafeFiles
    <2>3. CASE disk' = disk /\ rollback' = rollback /\ disturbed \subseteq disturbed' \cup {c}
        BY <2>3
    <2> QED
        BY <2>1, <2>2, <2>3
<1> QED
    BY <1>1, <1>2, LeftAlone DEF SafeFiles

(* What the two undos find, and what a move may do.                        *)
LEMMA RecoverableStep ==
    ASSUME FilesInv, NEW c \in Applies, Recoverable(c), NEW from, NEW to, Moves(c, from, to),
           rollback' = rollback, from \in UnderManifest, to \in UnderManifest,
           to \in Intact => Unchanged(c)',
           to \in {"rolled", "restored"} => disk'[asked[c].path] = source[c]
    PROVE  Recoverable(c)'
<1>1. apply'[c] = to /\ asked' = asked /\ source' = source /\ apply[c] = from
    BY DEF Moves, FilesInv, WorkspaceTypeOK
<1>2. Restorable(c) /\ Restorable(c)' = Restorable(c)
    BY <1>1 DEF Restorable, Digest, Recoverable
<1> QED
    BY <1>1, <1>2 DEF Recoverable, UnderManifest, Holding

(* A rename, an unlink and the two halves of a write leave every           *)
(* undisturbed call recoverable.                                           *)
LEMMA WritersKeep ==
    ASSUME SafeFiles, FilesInv', NEW c \in Applies,
           Rename(c) \/ Unlink(c) \/ Truncate(c) \/ Fill(c)
    PROVE  SafeFiles'
<1>1. /\ seen' = seen /\ rollback' = rollback
      /\ \E from \in {"guarded", "torn"}, to \in {"torn", "mutated"} : Moves(c, from, to)
    BY DEF Rename, Unlink, Truncate, Fill
<1>2. \E paths \in SUBSET Paths : /\ disturbed' = Writing(c, paths)
                                  /\ \A p \in Paths \ paths : disk'[p] = disk[p]
    <2>1. /\ asked[c].path \in Paths
          /\ asked[c].op = "move" => asked[c].dest \in Paths
          /\ disk \in [Paths -> OnDisk]
        BY AskedTypes, DiskTypes DEF SafeFiles, FilesInv
    <2>2. CASE Rename(c)
        <3>1. {asked[c].path, asked[c].dest} \in SUBSET Paths
            BY <2>1, <2>2 DEF Rename
        <3>2. \A p \in Paths \ {asked[c].path, asked[c].dest} : disk'[p] = disk[p]
            BY <2>1, <2>2 DEF Rename
        <3> QED
            BY <2>2, <3>1, <3>2 DEF Rename
    <2>3. CASE Unlink(c) \/ Truncate(c) \/ Fill(c)
        <3>1. \A p \in Paths \ {asked[c].path} : disk'[p] = disk[p]
            BY <2>1, <2>3 DEF Unlink, Truncate, Fill
        <3>2. {asked[c].path} \in SUBSET Paths /\ disturbed' = Writing(c, {asked[c].path})
            BY <2>1, <2>3 DEF Unlink, Truncate, Fill
        <3> QED
            BY <3>1, <3>2
    <2> QED
        BY <2>2, <2>3
<1>3. ASSUME c \notin disturbed'
      PROVE  Recoverable(c)'
    <2>1. c \notin disturbed
        BY <1>2, <1>3 DEF Writing
    <2>2. {"torn", "mutated"} \cap (Intact \cup {"rolled", "restored"}) = {}
        BY DEF Intact
    <2> QED
        BY <1>1, <2>1, <2>2, RecoverableStep DEF SafeFiles, UnderManifest
<1>4. \A d \in (Applies \ disturbed') \ {c} : Recoverable(d)'
    <2>1. {"guarded", "torn", "mutated"} \subseteq CallStates
        BY DEF CallStates, Active
    <2> QED
        BY <1>1, <1>2, <2>1, OthersLeave
<1> QED
    BY <1>3, <1>4 DEF SafeFiles

(* Steps that write nothing.                                               *)
LEMMA ReadersKeep ==
    ASSUME SafeFiles, FilesInv', NEW c \in Applies,
           Replan(c) \/ RefuseStale(c) \/ MutationRaises(c) \/ Verify(c) \/ CheckResult(c)
                     \/ BeginUndo(c)
    PROVE  SafeFiles'
<1> DEFINE After == {"planned", "refused", "raised", "verified", "rolling", "passed", "undoing"}
           Before == {"asked", "guarded", "mutated", "verified"} \cup Over
<1>1. \E from \in Before, to \in After : Moves(c, from, to)
    BY DEF Replan, RefuseStale, MutationRaises, Verify, CheckResult, BeginUndo
<1>2. /\ disk' = disk /\ seen' = seen /\ rollback' = rollback
      /\ disturbed \subseteq disturbed' \cup {c}
    BY DEF Replan, RefuseStale, MutationRaises, Verify, CheckResult, BeginUndo
<1>3. Before \subseteq CallStates /\ After \subseteq CallStates
    BY DEF CallStates, Active, Over
<1>4. \A d \in (Applies \ disturbed') \ {c} : Recoverable(d)'
    BY <1>1, <1>2, <1>3, OthersLeave
<1>5. ASSUME c \notin disturbed'
      PROVE  Recoverable(c)'
    <2>1. CASE Replan(c)
        <3>1. apply'[c] = "planned" /\ asked' = asked /\ source' = source
            BY <2>1 DEF Replan, Moves, SafeFiles, FilesInv, WorkspaceTypeOK
        <3>2. Unchanged(c)'
            BY <2>1, <3>1, <1>2 DEF Replan, Plannable, Unchanged
        <3> QED
            BY <3>1, <3>2 DEF Recoverable, Holding, UnderManifest
    <2>2. CASE RefuseStale(c)
        <3>1. apply'[c] = "refused"
            BY <2>2 DEF RefuseStale, Moves, SafeFiles, FilesInv, WorkspaceTypeOK
        <3> QED
            BY <3>1 DEF Recoverable, Intact, Holding, UnderManifest
    <2>3. CASE MutationRaises(c) \/ Verify(c) \/ CheckResult(c) \/ BeginUndo(c)
        <3>1. c \notin disturbed
            BY <1>5, <2>3 DEF MutationRaises, Verify, CheckResult, BeginUndo
        <3>2. \E from \in {"guarded", "mutated", "verified"} \cup Over,
                 to \in {"raised", "verified", "rolling", "passed", "undoing"} : Moves(c, from, to)
            BY <2>3 DEF MutationRaises, Verify, CheckResult, BeginUndo
        <3>3. apply[c] # "lapsed"
            BY <1>5, <2>3 DEF MutationRaises, Verify, CheckResult, BeginUndo, Moves
        <3>4. \E from \in UnderManifest,
                 to \in {"raised", "verified", "rolling", "passed", "undoing"} : Moves(c, from, to)
            BY <3>2, <3>3 DEF UnderManifest, Over, Moves
        <3>5. /\ {"raised", "verified", "rolling", "passed", "undoing"} \subseteq UnderManifest
              /\ {"raised", "verified", "rolling", "passed", "undoing"}
                    \cap (Intact \cup {"rolled", "restored"}) = {}
            BY DEF UnderManifest, Intact
        <3> QED
            BY <1>2, <3>1, <3>4, <3>5, RecoverableStep DEF SafeFiles
    <2> QED
        BY <2>1, <2>2, <2>3
<1> QED
    BY <1>4, <1>5 DEF SafeFiles

(* So do the two copies into the rollback directory.                       *)
LEMMA SnapshotsKeep ==
    ASSUME SafeFiles, FilesInv', NEW c \in Applies, SnapshotSource(c) \/ SnapshotDest(c)
    PROVE  SafeFiles'
<1>1. /\ disk' = disk /\ disturbed' = Guarding(c)
      /\ \E from \in {"planned", "snapped"}, to \in Holding : Moves(c, from, to)
    BY DEF SnapshotSource, SnapshotDest, Holding
<1>2. /\ asked' = asked /\ source' = source /\ Digest(c)' = Digest(c)
      /\ apply'[c] \in Holding /\ apply[c] \in {"planned", "snapped"}
    BY <1>1 DEF Moves, Digest, SafeFiles, FilesInv, WorkspaceTypeOK
<1>3. /\ rollback[Digest(c)] \in RollbackRecord /\ Digest(c) \in Fingerprints
      /\ rollback \in [Fingerprints -> RollbackRecord] /\ seen \in [Applies -> SeenRecord]
      /\ apply \in [Applies -> CallStates]
    BY AskedTypes, DiskTypes DEF SafeFiles, FilesInv
<1>4. /\ \A f \in Fingerprints \ {Digest(c)} : rollback'[f] = rollback[f]
      /\ \A e \in Applies \ {c} : seen'[e] = seen[e]
    BY <1>3 DEF SnapshotSource, SnapshotDest
<1>5. \A d \in (Applies \ disturbed') \ {c} : Recoverable(d)'
    <2>1. {"planned", "snapped"} \cup Holding \subseteq CallStates
        BY DEF CallStates, Active, Holding
    <2> QED
        BY <1>1, <1>4, <2>1, OthersLeave
<1>6. ASSUME c \notin disturbed'
      PROVE  Recoverable(c)'
    <2>1. Recoverable(c) /\ Unchanged(c)
        BY <1>1, <1>2, <1>6 DEF Guarding, SafeFiles, Recoverable, Intact
    <2>2. Unchanged(c)'
        BY <1>1, <1>2, <2>1 DEF Unchanged
    <2>3. asked'[c].op # "move" => apply'[c] # "snapped"
        BY <1>2, <1>3, <2>1 DEF SnapshotSource, SnapshotDest, Moves, Recoverable
    <2>4. CASE SnapshotSource(c)
        <3> DEFINE there == disk[asked[c].path] # "MISSING"
                   copy == IF there THEN disk[asked[c].path] ELSE rollback[Digest(c)].source
        <3>1. there = (source[c] # "MISSING") /\ (there => copy = source[c])
            BY <2>1 DEF Unchanged
        <3>2. /\ rollback' = [rollback EXCEPT
                     ![Digest(c)] = [rollback[Digest(c)] EXCEPT !.source = copy]]
              /\ seen' = [seen EXCEPT ![c] = [source |-> there, dest |-> FALSE]]
            BY <2>4, <1>3 DEF SnapshotSource
        <3> HIDE DEF there, copy
        <3>3. rollback'[Digest(c)].source = copy
            BY <1>3, <3>2 DEF RollbackRecord
        <3>4. seen'[c].source = there /\ seen'[c].dest = FALSE
            BY <1>3, <3>2
        <3>5. CopiedAsApproved(c)'
            BY <1>2, <3>1, <3>3, <3>4 DEF CopiedAsApproved
        <3> QED
            BY <1>2, <2>2, <2>3, <3>5 DEF Recoverable, UnderManifest, Holding
    <2>5. CASE SnapshotDest(c)
        <3> DEFINE there == disk[asked[c].dest] # "MISSING"
        <3>1. apply[c] = "snapped" /\ asked[c].op = "move" /\ CopiedAsApproved(c)
            BY <2>1, <2>5 DEF SnapshotDest, Moves, Recoverable, Holding
        <3>2. ~there
            BY <2>1, <3>1 DEF Unchanged
        <3>3. /\ rollback' = [rollback EXCEPT
                     ![Digest(c)] = [rollback[Digest(c)] EXCEPT !.dest = rollback[Digest(c)].dest]]
              /\ seen' = [seen EXCEPT ![c] = [seen[c] EXCEPT !.dest = FALSE]]
            BY <2>5, <1>3, <3>2 DEF SnapshotDest
        <3>4. rollback'[Digest(c)].source = rollback[Digest(c)].source
            BY <1>3, <3>3 DEF RollbackRecord
        <3>5. seen'[c].source = seen[c].source /\ seen'[c].dest = FALSE
            BY <1>3, <3>3 DEF SeenRecord
        <3>6. CopiedAsApproved(c)'
            BY <1>2, <3>1, <3>4, <3>5 DEF CopiedAsApproved
        <3> QED
            BY <1>2, <2>2, <2>3, <3>6 DEF Recoverable, UnderManifest, Holding
    <2> QED
        BY <2>4, <2>5
<1> QED
    BY <1>5, <1>6 DEF SafeFiles

(* So does the manifest, which is what the call is recoverable by from     *)
(* then on.                                                                *)
LEMMA ManifestKeeps ==
    ASSUME SafeFiles, FilesInv', NEW c \in Applies, WriteManifest(c)
    PROVE  SafeFiles'
<1>1. /\ disk' = disk /\ disturbed' = Guarding(c) /\ seen' = seen
      /\ Moves(c, "copied", "guarded")
    BY DEF WriteManifest
<1>2. /\ asked' = asked /\ source' = source /\ Digest(c)' = Digest(c)
      /\ apply'[c] = "guarded" /\ apply[c] = "copied"
    BY <1>1 DEF Moves, Digest, SafeFiles, FilesInv, WorkspaceTypeOK
<1>3. /\ rollback[Digest(c)] \in RollbackRecord /\ Digest(c) \in Fingerprints
      /\ rollback \in [Fingerprints -> RollbackRecord] /\ seen[c] \in SeenRecord
    BY AskedTypes, DiskTypes DEF SafeFiles, FilesInv
<1>4. rollback' = [rollback EXCEPT ![Digest(c)] =
          [rollback[Digest(c)] EXCEPT !.written = TRUE, !.hadSource = seen[c].source,
                                      !.hadDest = seen[c].dest]]
    BY <1>3 DEF WriteManifest
<1>5. /\ rollback'[Digest(c)].written = TRUE
      /\ rollback'[Digest(c)].hadSource = seen[c].source
      /\ rollback'[Digest(c)].hadDest = seen[c].dest
      /\ rollback'[Digest(c)].source = rollback[Digest(c)].source
    BY <1>3, <1>4 DEF RollbackRecord
<1>6. \A d \in (Applies \ disturbed') \ {c} : Recoverable(d)'
    <2>1. "copied" \in CallStates /\ "guarded" \in CallStates
        BY DEF CallStates, Active
    <2>2. \A f \in Fingerprints \ {Digest(c)} : rollback'[f] = rollback[f]
        BY <1>3, <1>4
    <2> QED
        BY <1>1, <2>1, <2>2, OthersLeave
<1>7. ASSUME c \notin disturbed'
      PROVE  Recoverable(c)'
    <2>1. Unchanged(c) /\ CopiedAsApproved(c)
        BY <1>1, <1>2, <1>7 DEF Guarding, SafeFiles, Recoverable, Intact, Holding
    <2>2. Unchanged(c)'
        BY <1>1, <1>2, <2>1 DEF Unchanged
    <2>3. Restorable(c)'
        BY <1>2, <1>5, <2>1 DEF Restorable, CopiedAsApproved
    <2> QED
        BY <1>2, <2>2, <2>3 DEF Recoverable, Holding
<1> QED
    BY <1>6, <1>7 DEF SafeFiles

(* So do the two halves of a rollback.                                     *)
LEMMA UndoesKeep ==
    ASSUME SafeFiles, FilesInv', NEW c \in Applies, UndoSource(c) \/ UndoDest(c)
    PROVE  SafeFiles'
<1> DEFINE Before == {"rolling", "undoing", "rolled", "restored"}
           After == {"rolled", "restored", "rolledback", "undone"}
<1>1. /\ seen' = seen /\ rollback' = rollback
      /\ \E from \in Before, to \in After : Moves(c, from, to)
    BY DEF UndoSource, UndoDest
<1>2. /\ asked[c].path \in Paths /\ asked[c].dest # asked[c].path
      /\ asked[c].op = "move" => asked[c].dest \in Paths
      /\ disk \in [Paths -> OnDisk]
    <2>1. WorkspaceTypeOK
        BY DEF SafeFiles, FilesInv
    <2> QED
        BY <2>1, AskedTypes, DiskTypes
<1>3. \/ \E paths \in SUBSET Paths : /\ disturbed' = Writing(c, paths)
                                     /\ \A p \in Paths \ paths : disk'[p] = disk[p]
      \/ disk' = disk /\ disturbed' = disturbed
    <2>1. CASE UndoSource(c)
        <3>1. \A p \in Paths \ {asked[c].path} : disk'[p] = disk[p]
            BY <1>2, <2>1 DEF UndoSource
        <3>2. {asked[c].path} \in SUBSET Paths /\ disturbed' = Writing(c, {asked[c].path})
            BY <1>2, <2>1 DEF UndoSource
        <3> QED
            BY <3>1, <3>2
    <2>2. CASE UndoDest(c) /\ asked[c].op = "move"
        <3>1. \A p \in Paths \ {asked[c].dest} : disk'[p] = disk[p]
            BY <1>2, <2>2 DEF UndoDest
        <3>2. {asked[c].dest} \in SUBSET Paths /\ disturbed' = Writing(c, {asked[c].dest})
            BY <1>2, <2>2 DEF UndoDest
        <3> QED
            BY <3>1, <3>2
    <2>3. CASE UndoDest(c) /\ asked[c].op # "move"
        BY <2>3 DEF UndoDest
    <2> QED
        BY <2>1, <2>2, <2>3
<1>4. \A d \in (Applies \ disturbed') \ {c} : Recoverable(d)'
    <2>1. Before \cup After \subseteq CallStates
        BY DEF CallStates, Active, Over
    <2> QED
        BY <1>1, <1>3, <2>1, OthersLeave
<1>5. ASSUME c \notin disturbed'
      PROVE  Recoverable(c)'
    <2>1. Recoverable(c) /\ apply[c] \in Before /\ asked' = asked /\ source' = source
        BY <1>1, <1>3, <1>5 DEF Writing, SafeFiles, Moves
    <2>2. Restorable(c) /\ Before \cup After \subseteq UnderManifest
        BY <2>1 DEF Recoverable, UnderManifest
    <2>3. CASE UndoSource(c)
        <3>1. disk'[asked[c].path] = source[c]
            BY <1>2, <2>2, <2>3 DEF UndoSource, Restorable
        <3>2. \E from \in Before, to \in {"rolled", "restored"} : Moves(c, from, to)
            BY <2>3 DEF UndoSource
        <3>3. {"rolled", "restored"} \cap Intact = {}
            BY DEF Intact
        <3> QED
            BY <1>1, <2>1, <2>2, <3>1, <3>2, <3>3, RecoverableStep DEF SafeFiles
    <2>4. CASE UndoDest(c)
        <3>1. \E from \in {"rolled", "restored"}, to \in {"rolledback", "undone"} :
                  Moves(c, from, to)
            BY <2>4 DEF UndoDest
        <3>2. disk[asked[c].path] = source[c]
            BY <2>1, <3>1 DEF Recoverable, Moves
        <3>3. disk'[asked[c].path] = disk[asked[c].path]
            BY <1>2, <2>4 DEF UndoDest
        <3>4. asked[c].op = "move" => disk'[asked[c].dest] = "MISSING"
            BY <1>2, <2>2, <2>4 DEF UndoDest, Restorable
        <3>5. Unchanged(c)'
            BY <2>1, <3>2, <3>3, <3>4 DEF Unchanged
        <3> QED
            BY <1>1, <2>1, <2>2, <3>1, <3>5, RecoverableStep DEF SafeFiles
    <2> QED
        BY <2>3, <2>4
<1> QED
    BY <1>4, <1>5 DEF SafeFiles

(* So do asking, an edit beside the tool (which disturbs whom it concerns) *)
(* and a death.                                                            *)
LEMMA OtherFilesKeep ==
    ASSUME SafeFiles, FilesInv',
           (\E c \in Applies : Ask(c)) \/ (\E p \in Paths : Edit(p)) \/ Die \/ UNCHANGED workspaceVars
    PROVE  SafeFiles'
<1>1. SUFFICES ASSUME NEW d \in Applies \ disturbed'
               PROVE  Recoverable(d)'
    BY DEF SafeFiles
<1>2. d \notin disturbed /\ Recoverable(d)
    BY DEF SafeFiles, Ask, Edit, Die, workspaceVars
<1>3. /\ asked[d].path \in Paths
      /\ asked[d].op = "move" => asked[d].dest \in Paths
      /\ disk \in [Paths -> OnDisk] /\ apply \in [Applies -> CallStates]
      /\ asked \in [Applies -> Arguments] /\ source \in [Applies -> OnDisk]
    <2>1. WorkspaceTypeOK
        BY DEF SafeFiles, FilesInv
    <2> QED
        BY <2>1, AskedTypes, DiskTypes DEF WorkspaceTypeOK
<1>4. CASE Ask(d)
    <2>1. apply'[d] = "asked"
        BY <1>3, <1>4 DEF Ask
    <2> QED
        BY <2>1 DEF Recoverable, Intact, Holding, UnderManifest
<1>5. CASE \E c \in Applies \ {d} : Ask(c)
    <2>1. /\ apply'[d] = apply[d] /\ asked'[d] = asked[d] /\ source'[d] = source[d]
          /\ disk' = disk /\ seen' = seen /\ rollback' = rollback
        BY <1>3, <1>5 DEF Ask
    <2> QED
        BY <1>2, <2>1, LeftAlone DEF SafeFiles
<1>6. CASE \E p \in Paths : Edit(p)
    <2>1. PICK p \in Paths : Edit(p)
        BY <1>6
    <2>2. asked[d].path # p /\ asked[d].dest # p
        BY <2>1 DEF Edit
    <2>3. /\ apply' = apply /\ asked' = asked /\ source' = source /\ seen' = seen
          /\ rollback' = rollback /\ \E content : disk' = [disk EXCEPT ![p] = content]
        BY <2>1 DEF Edit
    <2>4. /\ disk'[asked[d].path] = disk[asked[d].path]
          /\ asked[d].op = "move" => disk'[asked[d].dest] = disk[asked[d].dest]
        BY <1>3, <2>2, <2>3
    <2> QED
        BY <1>2, <2>3, <2>4, LeftAlone DEF SafeFiles
<1>7. CASE Die
    <2>1. /\ disk' = disk /\ asked' = asked /\ source' = source /\ seen' = seen
          /\ rollback' = rollback
          /\ apply'[d] = (IF apply[d] \in Unguarded THEN "lapsed"
                          ELSE IF apply[d] \in Active THEN "dead" ELSE apply[d])
        BY <1>7 DEF Die
    <2> QED
        BY <1>2, <2>1, LeftAlone DEF SafeFiles
<1>8. CASE UNCHANGED workspaceVars
    BY <1>2, <1>8, LeftAlone DEF workspaceVars, SafeFiles
<1> QED
    BY <1>4, <1>5, <1>6, <1>7, <1>8

(* The inductive invariant of workspace_file_apply and its rollback holds  *)
(* in every state, for any number of calls, paths and contents.            *)
THEOREM FilesInvariant == WorkspaceSpec => []SafeFiles
<1>1. WorkspaceInit => SafeFiles
    BY FilesInitially
       DEF WorkspaceInit, SafeFiles, Recoverable, Intact, Holding, UnderManifest
<1>2. SafeFiles /\ [WorkspaceNext]_workspaceVars => SafeFiles'
    <2> SUFFICES ASSUME SafeFiles, [WorkspaceNext]_workspaceVars
                 PROVE  SafeFiles'
        OBVIOUS
    <2>1. FilesInv'
        BY FilesKept DEF SafeFiles
    <2>2. CASE \E c \in Applies : Rename(c) \/ Unlink(c) \/ Truncate(c) \/ Fill(c)
        BY <2>1, <2>2, WritersKeep
    <2>3. CASE \E c \in Applies :
                  Replan(c) \/ RefuseStale(c) \/ MutationRaises(c) \/ Verify(c) \/ CheckResult(c)
                            \/ BeginUndo(c)
        BY <2>1, <2>3, ReadersKeep
    <2>4. CASE \E c \in Applies : SnapshotSource(c) \/ SnapshotDest(c) \/ WriteManifest(c)
        BY <2>1, <2>4, SnapshotsKeep, ManifestKeeps
    <2>5. CASE \E c \in Applies : UndoSource(c) \/ UndoDest(c)
        BY <2>1, <2>5, UndoesKeep
    <2>6. CASE \/ \E c \in Applies : Ask(c)
               \/ \E p \in Paths : Edit(p)
               \/ Die
               \/ UNCHANGED workspaceVars
        BY <2>1, <2>6, OtherFilesKeep
    <2> QED
        BY <2>2, <2>3, <2>4, <2>5, <2>6, WorkspaceSteps
<1> QED
    BY <1>1, <1>2, PTL DEF WorkspaceSpec

(* At every instant of workspace_file_apply and workspace_file_undo        *)
(* (workspace_files.py), in a crash too, the files are what the approved   *)
(* plan found or can be brought back from the directory of its             *)
(* fingerprint, with the exceptions NothingIsLost names.                   *)
THEOREM FilesAreRecoverable == WorkspaceSpec => []NothingIsLost
<1>1. SafeFiles => NothingIsLost
    BY SafeSuffices
<1> QED
    BY <1>1, FilesInvariant, PTL

(* A call answered as rolled back, or undone later, has left nothing       *)
(* behind (workspace_file_apply, workspace_file_undo), unless it was       *)
(* disturbed.                                                              *)
THEOREM RollbacksAreComplete == WorkspaceSpec => []RolledBackIsUnchanged
<1>1. SafeFiles => RolledBackIsUnchanged
    BY SafeSuffices
<1> QED
    BY <1>1, FilesInvariant, PTL

-----------------------------------------------------------------------------
(***************************************************************************)
(* The entitlements of billing.py and api/billing.py.                      *)
(***************************************************************************)

(* What a row lets its principal do.                                       *)
Grants(entry) == entry.plan = "professional" /\ entry.status \in {"active", "trialing"}

(* Events tell of the past, and no row was written from one to come.       *)
NumbersArePast ==
    /\ \A k \in Principals : newest[k] <= events /\ reflected[k] <= events
    /\ \A e \in mail : e.number <= newest[principalOf[e.about]]

(* A principal with one subscription at a time has no other.               *)
SingleSubscription ==
    \A k \in Principals \ doubled : \A s, u \in Underwritten(k) : s = u

(* The latest event about a principal, if not applied yet, would make its  *)
(* row what it pays for; if applied last, it has.                          *)
LatestIsTrue ==
    \A k \in Principals \ doubled :
        /\ \A e \in mail : principalOf[e.about] = k /\ e.number = newest[k] =>
                              (Grants(Applied(e)) <=> Paid(k))
        /\ reflected[k] = newest[k] => (Grants(entitlement[k]) <=> Paid(k))

(* The inductive invariant of the entitlement.                             *)
EntitlementInv == BillingTypeOK /\ NumbersArePast /\ SingleSubscription /\ LatestIsTrue

(* One kind of event counts as one, the two kinds of a completed checkout  *)
(* as two.                                                                 *)
LEMMA KindsCounted ==
    /\ \A x \in Kinds : Cardinality({x}) = 1
    /\ Cardinality({"changed", "completed"}) = 2
<1>1. Cardinality({"completed"}) = 1 /\ IsFiniteSet({"completed"})
    BY FS_Singleton
<1>2. {"changed", "completed"} = {"completed"} \cup {"changed"}
    OBVIOUS
<1>3. Cardinality({"changed", "completed"}) = 2
    BY <1>1, <1>2, FS_AddElement
<1> QED
    BY <1>3, FS_Singleton

(* What a change of a subscription does, by numbers.                       *)
Makes(s, status, kinds, last) ==
    /\ last \in Nat /\ last > events /\ last <= MaxEvents
    /\ subscription' = [subscription EXCEPT ![s] = status]
    /\ events' = last
    /\ newest' = [newest EXCEPT ![principalOf[s]] = last]
    /\ mail \subseteq mail'
    /\ \A e \in mail' \ mail : /\ e \in Events
                               /\ e.number \in events + 1..last /\ e.kind \in kinds
                               /\ e.about = s /\ e.status = status
    /\ UNCHANGED <<entitlement, reflected, repeats>>

(* Becomes with the events it makes named: their numbers are above every   *)
(* number so far.                                                          *)
LEMMA BecomesMakes ==
    ASSUME BillingTypeOK, NEW s \in Subscriptions, NEW status \in Statuses, NEW kinds \in SUBSET Kinds,
           Cardinality(kinds) \in {1, 2}, Becomes(s, status, kinds)
    PROVE  \E last \in Nat : Makes(s, status, kinds, last)
<1> DEFINE last == events + Cardinality(kinds)
<1>1. events \in Nat /\ MaxEvents \in Nat /\ last \in Nat /\ last > events
    BY BillingBoundsAssumption DEF BillingTypeOK
<1>2. /\ last <= MaxEvents
      /\ subscription' = [subscription EXCEPT ![s] = status]
      /\ events' = last
      /\ newest' = [newest EXCEPT ![principalOf[s]] = last]
      /\ UNCHANGED <<entitlement, reflected, repeats>>
    BY DEF Becomes
<1>3. PICK order \in [kinds -> events + 1..last] :
          mail' = mail \cup {[number |-> order[x], kind |-> x, about |-> s, status |-> status] :
                                        x \in kinds}
    BY DEF Becomes
<1>4. \A e \in mail' \ mail :
          \E x \in kinds : e = [number |-> order[x], kind |-> x, about |-> s, status |-> status]
    BY <1>3
<1>5. events + 1..last \subseteq 1..MaxEvents
    BY <1>1, <1>2
<1>6. \A e \in mail' \ mail : /\ e \in Events
                              /\ e.number \in events + 1..last /\ e.kind \in kinds
                              /\ e.about = s /\ e.status = status
    <2> TAKE e \in mail' \ mail
    <2>1. PICK x \in kinds : e = [number |-> order[x], kind |-> x, about |-> s, status |-> status]
        BY <1>4
    <2>2. order[x] \in events + 1..last
        BY <1>3
    <2>3. order[x] \in 1..MaxEvents /\ x \in Kinds
        BY <1>5, <2>2
    <2> QED
        BY <2>1, <2>2, <2>3 DEF Events
<1>7. mail \subseteq mail'
    BY <1>3
<1> QED
    BY <1>1, <1>2, <1>6, <1>7 DEF Makes

(* What an event grants, by its kind.                                      *)
LEMMA GrantsByKind ==
    ASSUME NEW e, e.kind \in Kinds
    PROVE  Grants(Applied(e)) <=> \/ e.kind = "completed"
                                  \/ e.kind = "changed" /\ e.status \in Paying
BY DEF Grants, Applied, Kinds, Paying

(* A change of the only subscription of a principal.                       *)
LEMMA ChangeKeeps ==
    ASSUME EntitlementInv, NEW s \in Subscriptions, NEW status \in Statuses, NEW kinds \in SUBSET Kinds,
           NEW last \in Nat, Makes(s, status, kinds, last),
           "completed" \in kinds => status \in Paying,
           "deleted" \in kinds => status = "canceled",
           doubled' \subseteq Principals, doubled \subseteq doubled',
           principalOf[s] \notin doubled' =>
              \A u \in Underwritten(principalOf[s]) : u = s
    PROVE  EntitlementInv'
<1> DEFINE k == principalOf[s]
<1>1. /\ k \in Principals /\ subscription \in [Subscriptions -> Statuses] /\ events \in Nat
      /\ newest \in [Principals -> 0..MaxEvents] /\ reflected \in [Principals -> 0..MaxEvents]
      /\ entitlement \in [Principals -> EntitlementRows] /\ repeats \in 0..MaxRepeats
      /\ mail \subseteq Events
    BY PrincipalsAssumption, BillingBoundsAssumption DEF EntitlementInv, BillingTypeOK
<1>2. /\ last > events /\ last <= MaxEvents
      /\ subscription' = [subscription EXCEPT ![s] = status] /\ events' = last
      /\ newest' = [newest EXCEPT ![k] = last]
      /\ entitlement' = entitlement /\ reflected' = reflected /\ repeats' = repeats
    BY DEF Makes
<1>3. \A e \in mail' : e \in mail \/ /\ e \in Events /\ e.number <= last /\ e.kind \in kinds
                                     /\ e.about = s /\ e.status = status /\ e.number > events
    BY <1>1 DEF Makes
<1>4. BillingTypeOK'
    <2>1. events' \in 0..MaxEvents /\ newest' \in [Principals -> 0..MaxEvents]
        BY <1>1, <1>2, BillingBoundsAssumption
    <2>2. subscription' \in [Subscriptions -> Statuses]
        BY <1>1, <1>2
    <2>3. mail' \subseteq Events
        BY <1>1, <1>3
    <2> QED
        BY <1>1, <1>2, <2>1, <2>2, <2>3 DEF BillingTypeOK
<1>5. \A j \in Principals : newest[j] <= events /\ reflected[j] <= events
    BY DEF EntitlementInv, NumbersArePast
<1>6. \A e \in mail : /\ e.about \in Subscriptions /\ principalOf[e.about] \in Principals
                      /\ e.number \in Nat /\ e.number <= newest[principalOf[e.about]]
    BY <1>1, PrincipalsAssumption DEF EntitlementInv, NumbersArePast, Events
<1>7. \A e \in mail : e.number <= events
    <2> TAKE e \in mail
    <2>1. newest[principalOf[e.about]] \in Nat
        BY <1>1, <1>6
    <2> QED
        BY <1>1, <1>5, <1>6, <2>1
<1>8. NumbersArePast'
    <2>1. \A j \in Principals : newest'[j] <= last /\ reflected'[j] <= last
        BY <1>1, <1>2, <1>5
    <2>2. \A e \in mail' : e.number <= newest'[principalOf[e.about]]
        <3> TAKE e \in mail'
        <3>1. CASE e \in mail /\ principalOf[e.about] # k
            BY <1>1, <1>2, <1>6, <3>1
        <3>2. CASE e \in mail /\ principalOf[e.about] = k
            BY <1>1, <1>2, <1>6, <1>7, <3>2
        <3>3. CASE e \notin mail
            BY <1>1, <1>2, <1>3, <3>3
        <3> QED
            BY <3>1, <3>2, <3>3
    <2> QED
        BY <1>2, <2>1, <2>2 DEF NumbersArePast
<1>9. \A j \in Principals \ {k} :
          /\ Underwritten(j)' = Underwritten(j)
          /\ Paid(j)' = Paid(j) /\ newest'[j] = newest[j]
    BY <1>1, <1>2 DEF Underwritten, Paid, SubscriptionsOf
<1>10. Underwritten(k)' \subseteq Underwritten(k) \cup {s}
    BY <1>1, <1>2 DEF Underwritten, SubscriptionsOf
<1>11. SingleSubscription'
    <2> SUFFICES ASSUME NEW j \in Principals \ doubled', NEW u \in Underwritten(j)',
                        NEW v \in Underwritten(j)'
                 PROVE  u = v
        BY DEF SingleSubscription
    <2>1. CASE j = k
        BY <1>10, <2>1
    <2>2. CASE j # k
        BY <1>9, <2>2 DEF EntitlementInv, SingleSubscription
    <2> QED
        BY <2>1, <2>2
<1>12. k \notin doubled' => (Paid(k)' <=> status \in Paying)
    <2>1. s \in SubscriptionsOf(k) /\ subscription'[s] = status
        BY <1>1, <1>2 DEF SubscriptionsOf
    <2>2. \A u \in SubscriptionsOf(k) \ {s} : subscription'[u] = subscription[u]
        BY <1>1, <1>2 DEF SubscriptionsOf
    <2>3. \A u \in SubscriptionsOf(k) : subscription[u] \in Paying => u \in Underwritten(k)
        BY DEF Underwritten, Paying
    <2>4. Paid(k)' <=> \E u \in SubscriptionsOf(k) : subscription'[u] \in Paying
        BY DEF Paid, SubscriptionsOf
    <2> QED
        BY <2>1, <2>2, <2>3, <2>4
<1>13. LatestIsTrue'
    <2> SUFFICES ASSUME NEW j \in Principals \ doubled'
                 PROVE  /\ \A e \in mail' : principalOf[e.about] = j /\ e.number = newest'[j] =>
                              (Grants(Applied(e)) <=> Paid(j)')
                        /\ reflected'[j] = newest'[j] => (Grants(entitlement'[j]) <=> Paid(j)')
        BY DEF LatestIsTrue, Grants, Applied
    <2>1. CASE j # k
        <3>1. \A e \in mail' : principalOf[e.about] = j => e \in mail
            BY <1>3, <2>1
        <3> QED
            BY <1>2, <1>9, <2>1, <3>1 DEF EntitlementInv, LatestIsTrue
    <2>2. CASE j = k
        <3>1. newest'[k] = last /\ reflected'[k] # last
            BY <1>1, <1>2, <1>5
        <3>2. ASSUME NEW e \in mail', e.number = last
              PROVE  Grants(Applied(e)) <=> status \in Paying
            <4>1. e \notin mail
                BY <1>1, <1>2, <1>6, <1>7, <3>2
            <4>2. e.kind \in kinds /\ e.status = status
                BY <1>3, <4>1
            <4>3. e.kind \in {"completed", "changed", "deleted"}
                BY <4>2 DEF Kinds
            <4> QED
                BY <4>2, <4>3, GrantsByKind DEF Kinds, Paying
        <3> QED
            BY <1>12, <2>2, <3>1, <3>2
    <2> QED
        BY <2>1, <2>2
<1> QED
    BY <1>4, <1>8, <1>11, <1>13 DEF EntitlementInv

(* What happens at Stripe keeps the invariant: the events it sends are the *)
(* newest.                                                                 *)
LEMMA StripeKeeps ==
    ASSUME EntitlementInv, NEW s \in Subscriptions,
           Subscribe(s) \/ Complete(s) \/ Change(s) \/ Cancel(s)
    PROVE  EntitlementInv'
<1> DEFINE k == principalOf[s]
<1>1. BillingTypeOK /\ doubled \subseteq Principals /\ k \in Principals /\ s \in SubscriptionsOf(k)
    BY PrincipalsAssumption DEF EntitlementInv, BillingTypeOK, SubscriptionsOf
<1>2. k \notin doubled => \A u, v \in Underwritten(k) : u = v
    BY <1>1 DEF EntitlementInv, SingleSubscription
<1>3. CASE Subscribe(s)
    <2>1. \E last \in Nat : Makes(s, "incomplete", {"changed"}, last)
        BY <1>1, <1>3, BecomesMakes, KindsCounted DEF Subscribe, Kinds, Statuses
    <2>2. /\ doubled' \subseteq Principals /\ doubled \subseteq doubled'
          /\ k \notin doubled' => Underwritten(k) = {}
        BY <1>1, <1>3 DEF Subscribe
    <2> QED
        BY <2>1, <2>2, ChangeKeeps DEF Kinds, Statuses
<1>4. CASE Complete(s)
    <2>1. s \in Underwritten(k) /\ doubled' = doubled
        BY <1>1, <1>4 DEF Complete, Underwritten
    <2>2. PICK status \in Paying : Becomes(s, status, {"changed", "completed"})
        BY <1>4 DEF Complete
    <2>3. \E last \in Nat : Makes(s, status, {"changed", "completed"}, last)
        BY <1>1, <2>2, BecomesMakes, KindsCounted DEF Kinds, Statuses, Paying
    <2> QED
        BY <1>1, <1>2, <2>1, <2>3, ChangeKeeps DEF Kinds, Statuses, Paying
<1>5. CASE Change(s)
    <2>1. s \in Underwritten(k) /\ doubled' = doubled
        BY <1>1, <1>5 DEF Change, Underwritten, Paying
    <2>2. PICK status \in {"past_due", "active"} : Becomes(s, status, {"changed"})
        BY <1>5 DEF Change
    <2>3. \E last \in Nat : Makes(s, status, {"changed"}, last)
        BY <1>1, <2>2, BecomesMakes, KindsCounted DEF Kinds, Statuses
    <2> QED
        BY <1>1, <1>2, <2>1, <2>3, ChangeKeeps DEF Kinds, Statuses
<1>6. CASE Cancel(s)
    <2>1. s \in Underwritten(k) /\ doubled' = doubled
        BY <1>6 DEF Cancel
    <2>2. \E last \in Nat : Makes(s, "canceled", {"deleted"}, last)
        BY <1>1, <1>6, BecomesMakes, KindsCounted DEF Cancel, Kinds, Statuses
    <2> QED
        BY <1>1, <1>2, <2>1, <2>2, ChangeKeeps DEF Kinds, Statuses
<1> QED
    BY <1>3, <1>4, <1>5, <1>6

(* A delivery keeps it: the entitlement changes as the event says and the  *)
(* event is the newest seen.                                               *)
LEMMA DeliveryKeeps ==
    ASSUME EntitlementInv, NEW e \in mail, Deliver(e)
    PROVE  EntitlementInv'
<1> DEFINE k == principalOf[e.about]
<1>1. /\ e \in Events /\ k \in Principals /\ e.number \in 1..MaxEvents /\ e.kind \in Kinds
      /\ e.status \in Statuses
    BY PrincipalsAssumption DEF EntitlementInv, BillingTypeOK, Events
<1>2. /\ entitlement' = [entitlement EXCEPT ![k] = Applied(e)]
      /\ reflected' = [reflected EXCEPT ![k] = e.number]
      /\ mail' \subseteq mail /\ repeats' \in {repeats, repeats + 1}
      /\ repeats' # repeats => repeats < MaxRepeats
      /\ UNCHANGED <<subscription, events, newest, doubled>>
    BY DEF Deliver
<1>3. Applied(e) \in EntitlementRows
    BY <1>1 DEF Applied, EntitlementRows, Kinds, Statuses
<1>4. BillingTypeOK'
    BY <1>1, <1>2, <1>3, BillingBoundsAssumption DEF EntitlementInv, BillingTypeOK
<1>5. e.number <= events
    <2>1. e.number <= newest[k] /\ newest[k] <= events /\ newest[k] \in Nat /\ events \in Nat
        BY <1>1 DEF EntitlementInv, NumbersArePast, BillingTypeOK
    <2> QED
        BY <1>1, <2>1
<1>6. NumbersArePast'
    BY <1>1, <1>2, <1>5 DEF EntitlementInv, NumbersArePast, BillingTypeOK
<1>7. SingleSubscription' /\ \A j \in Principals : Paid(j)' = Paid(j)
    BY <1>2 DEF EntitlementInv, SingleSubscription, Underwritten, SubscriptionsOf, Paid
<1>8. LatestIsTrue'
    <2> SUFFICES ASSUME NEW j \in Principals \ doubled
                 PROVE  /\ \A f \in mail' : principalOf[f.about] = j /\ f.number = newest[j] =>
                              (Grants(Applied(f)) <=> Paid(j))
                        /\ reflected'[j] = newest[j] => (Grants(entitlement'[j]) <=> Paid(j))
        BY <1>2, <1>7 DEF LatestIsTrue, Grants, Applied
    <2>1. /\ \A f \in mail : principalOf[f.about] = j /\ f.number = newest[j] =>
                              (Grants(Applied(f)) <=> Paid(j))
          /\ reflected[j] = newest[j] => (Grants(entitlement[j]) <=> Paid(j))
        BY DEF EntitlementInv, LatestIsTrue
    <2>2. CASE j = k
        <3>1. reflected'[j] = e.number /\ entitlement'[j] = Applied(e)
            BY <1>1, <1>2, <2>2 DEF EntitlementInv, BillingTypeOK
        <3> QED
            BY <1>2, <2>1, <2>2, <3>1
    <2>3. CASE j # k
        <3>1. reflected'[j] = reflected[j] /\ entitlement'[j] = entitlement[j]
            BY <1>1, <1>2, <2>3 DEF EntitlementInv, BillingTypeOK
        <3> QED
            BY <1>2, <2>1, <3>1
    <2> QED
        BY <2>2, <2>3
<1> QED
    BY <1>4, <1>6, <1>7, <1>8 DEF EntitlementInv

(* It holds before the first subscription.                                 *)
LEMMA BillingInitially ==
    ASSUME BillingInit
    PROVE  EntitlementInv
<1>1. BillingTypeOK
    BY BillingBoundsAssumption
       DEF BillingInit, BillingTypeOK, NoEntitlement, EntitlementRows, Statuses
<1>2. NumbersArePast /\ SingleSubscription /\ LatestIsTrue
    BY DEF BillingInit, NumbersArePast, SingleSubscription, LatestIsTrue, Underwritten, Paid,
           SubscriptionsOf, Grants, NoEntitlement, Paying
<1> QED
    BY <1>1, <1>2 DEF EntitlementInv

(* The inductive invariant of the webhook's entitlement holds in every     *)
(* state, for any number of subscriptions, events and deliveries.          *)
THEOREM EntitlementInvariant == BillingSpec => []EntitlementInv
<1>1. BillingInit => EntitlementInv
    BY BillingInitially
<1>2. EntitlementInv /\ [BillingNext]_billingVars => EntitlementInv'
    <2> SUFFICES ASSUME EntitlementInv, [BillingNext]_billingVars
                 PROVE  EntitlementInv'
        OBVIOUS
    <2>1. CASE \E s \in Subscriptions : Subscribe(s) \/ Complete(s) \/ Change(s) \/ Cancel(s)
        BY <2>1, StripeKeeps
    <2>2. CASE \E e \in mail : Deliver(e)
        BY <2>2, DeliveryKeeps
    <2>3. CASE UNCHANGED billingVars
        <3>1. \A k \in Principals : Underwritten(k)' = Underwritten(k) /\ Paid(k)' = Paid(k)
            BY <2>3 DEF billingVars, Underwritten, SubscriptionsOf, Paid
        <3>2. BillingTypeOK' /\ NumbersArePast'
            BY <2>3 DEF billingVars, EntitlementInv, BillingTypeOK, NumbersArePast
        <3>3. SingleSubscription'
            BY <2>3, <3>1 DEF billingVars, EntitlementInv, SingleSubscription
        <3>4. LatestIsTrue'
            BY <2>3, <3>1 DEF billingVars, EntitlementInv, LatestIsTrue
        <3> QED
            BY <3>2, <3>3, <3>4 DEF EntitlementInv
    <2> QED
        BY <2>1, <2>2, <2>3 DEF BillingNext
<1> QED
    BY <1>1, <1>2, PTL DEF BillingSpec

(* However the deliveries to the webhook (api/billing.py) were repeated,   *)
(* delayed and mixed up before, once the latest event about a principal is *)
(* the last applied, it is let in exactly if it pays, unless it held two   *)
(* subscriptions at once.                                                  *)
THEOREM EntitlementsFollowPayment == BillingSpec => []EntitledAsPaid
<1>1. EntitlementInv => EntitledAsPaid
    BY DEF EntitlementInv, LatestIsTrue, EntitledAsPaid, Entitled, Grants
<1> QED
    BY <1>1, EntitlementInvariant, PTL

-----------------------------------------------------------------------------
(***************************************************************************)
(* The document index of knowledge/pipeline.py.                            *)
(***************************************************************************)

(* What a call of process holds.                                           *)
Calling == [at : Stations, version : Versions, todo : SUBSET Chunks, alone : BOOLEAN]

(* A call that no other writer has crossed.                                *)
Alone(c) == process[c] # NotCalled /\ process[c].alone

(* The chunks of the version that a call indexes.                          *)
Wanted(c) == chunksOf[process[c].version]

(* Its configuration.                                                      *)
Config(c) == configOf[process[c].version]

(* What a call that is alone has found still holds.                        *)
FoundHolds(c) ==
    Alone(c) =>
        /\ process[c].at = "compare" => manifest = process[c].version
        /\ process[c].at = "delete" => process[c].todo = Indexed
        /\ process[c].at = "upsert" => /\ Indexed = Wanted(c) \ process[c].todo
                                       /\ \A k \in Indexed : row[k] = Config(c)
        /\ process[c].at \in {"NOOP", "PASS"} =>
               /\ Indexed = Wanted(c)
               /\ \A k \in Indexed \ loose : row[k] = Config(c)

(* What a call has upserted is as it left it, gone, or written since.      *)
UpsertsHold(c) ==
    process[c].at = "upsert" =>
        /\ process[c].todo \subseteq Wanted(c)
        /\ \A k \in Wanted(c) \ process[c].todo : row[k] \in {Config(c), "NONE"} \/ k \in loose

(* Beside d, which is alone before its deletion, a call c has written      *)
(* nothing since d began, and passed nothing over either.                  *)
NothingWritten(c, d) ==
    Alone(d) /\ process[d].at \in {"manifest", "compare", "clear", "delete"} =>
        /\ process[c].at = "delete" => process[c].todo = Indexed
        /\ process[c].at = "upsert" => Indexed = {} /\ process[c].todo = Wanted(c)

(* Beside d, which is alone after its deletion, c has passed over only     *)
(* rows that d wrote as c would have.                                      *)
NothingRewritten(c, d) ==
    Alone(d) /\ process[d].at = "upsert" /\ process[c].at = "upsert" =>
        \A k \in Wanted(c) \ process[c].todo : row[k] = Config(c)

(* The rows of the manifest's version are its own.                         *)
ManifestHolds ==
    manifest # "NONE" =>
        \A k \in chunksOf[manifest] \ loose : row[k] \in {configOf[manifest], "NONE"}

(* The inductive invariant of the index: what the manifest and the calls   *)
(* claim about the rows, and that of two calls one at least is no longer   *)
(* alone once either has written.                                          *)
SyncInv ==
    /\ IndexTypeOK
    /\ ManifestHolds
    /\ \A c \in Processes : FoundHolds(c) /\ UpsertsHold(c)
    /\ \A c, d \in Processes : c # d => NothingWritten(c, d) /\ NothingRewritten(c, d)

-----------------------------------------------------------------------------

(* The first of the chunks that are left.                                  *)
LEMMA MinIsIn ==
    ASSUME NEW S \in SUBSET Nat, S # {}
    PROVE  Min(S) \in S
<1> DEFINE R == OpToRel(<, Nat)
<1>1. IsWellFoundedOn(R, Nat)
    BY NatLessThanWellFounded
<1>2. PICK x \in S : \A y \in S : ~(<<y, x>> \in R)
    BY <1>1, WFMin
<1>3. \A y \in S : ~(y < x)
    BY <1>2 DEF OpToRel
<1>4. \A y \in S : x <= y
    BY <1>3
<1> QED
    BY <1>4 DEF Min

(* A call is not made, or holds a record of its kind.                      *)
LEMMA CallTypes ==
    ASSUME IndexTypeOK, NEW c \in Processes
    PROVE  /\ process[c] = NotCalled \/ process[c] \in Calling
           /\ process[c].at \in Stations => process[c] \in Calling /\ process[c] # NotCalled
           /\ process[c] = NotCalled => process[c].at = "idle" /\ process[c].at \notin Stations
BY DEF IndexTypeOK, ProcessStates, NotCalled, Calling, Stations

(* What a call that was made holds.                                        *)
LEMMA CallFields ==
    ASSUME IndexTypeOK, NEW c \in Processes, process[c] # NotCalled
    PROVE  /\ process[c] \in Calling /\ process[c].at \in Stations
           /\ process[c].version \in Versions /\ process[c].todo \in SUBSET Chunks
           /\ process[c].alone \in BOOLEAN
           /\ Wanted(c) \in (SUBSET Chunks) \ {{}} /\ Config(c) # "NONE" /\ Config(c) # Foreign
           /\ Config(c) \in {configOf[v] : v \in Versions}
BY CallTypes, VersionsAssumption DEF Calling, Wanted, Config

(* The others, in a step of one call.                                      *)
Same(b) ==
    /\ process[b] = NotCalled => process'[b] = NotCalled
    /\ process[b] # NotCalled => /\ process'[b] # NotCalled
                                 /\ process'[b].at = process[b].at
                                 /\ process'[b].version = process[b].version
                                 /\ process'[b].todo = process[b].todo

(* A call that is crossed keeps all it holds except that it was alone.     *)
LEMMA AloneNoMore ==
    ASSUME NEW call \in Calling
    PROVE  /\ [call EXCEPT !.alone = FALSE] \in Calling
           /\ [call EXCEPT !.alone = FALSE] # NotCalled
           /\ ~[call EXCEPT !.alone = FALSE].alone
           /\ [call EXCEPT !.alone = FALSE].at = call.at
           /\ [call EXCEPT !.alone = FALSE].version = call.version
           /\ [call EXCEPT !.alone = FALSE].todo = call.todo
<1>1. /\ [call EXCEPT !.alone = FALSE] \in Calling
      /\ ~[call EXCEPT !.alone = FALSE].alone
      /\ [call EXCEPT !.alone = FALSE].at = call.at
      /\ [call EXCEPT !.alone = FALSE].version = call.version
      /\ [call EXCEPT !.alone = FALSE].todo = call.todo
    BY DEF Calling
<1>2. [call EXCEPT !.alone = FALSE].at \in Stations
    BY <1>1 DEF Calling
<1> QED
    BY <1>1, <1>2 DEF Stations, NotCalled

(* A step that writes nothing moves one call and leaves the others.        *)
LEMMA MoveTypes ==
    ASSUME IndexTypeOK, NEW c \in Processes, NEW next \in Calling \cup {NotCalled}, Move(c, next)
    PROVE  /\ process' \in [Processes -> ProcessStates] /\ process'[c] = next
           /\ \A b \in Processes \ {c} : process'[b] = process[b]
BY DEF IndexTypeOK, Move, ProcessStates, Calling

(* What a writing step does to a call beside it: it only is no longer      *)
(* alone.                                                                  *)
LEMMA BesideWriting ==
    ASSUME NEW b \in Processes,
           process[b] = NotCalled => process'[b] = NotCalled,
           process[b] # NotCalled => /\ process[b] \in Calling
                                     /\ process'[b] = [process[b] EXCEPT !.alone = FALSE]
    PROVE  Same(b) /\ ~Alone(b)' /\ process'[b] \in Calling \cup {NotCalled}
<1>1. CASE process[b] = NotCalled
    BY <1>1 DEF Same, Alone, NotCalled
<1>2. CASE process[b] # NotCalled
    <2> DEFINE call == process[b]
    <2>1. call \in Calling /\ process'[b] = [call EXCEPT !.alone = FALSE]
        BY <1>2
    <2> HIDE DEF call
    <2>2. /\ process'[b] \in Calling /\ process'[b] # NotCalled /\ ~process'[b].alone
          /\ process'[b].at = call.at /\ process'[b].version = call.version
          /\ process'[b].todo = call.todo
        BY <2>1, AloneNoMore
    <2> QED
        BY <1>2, <2>2 DEF Same, Alone, call, NotCalled
<1> QED
    BY <1>1, <1>2

(* A writing step moves one call and crosses all the others.               *)
LEMMA MoveWritingTypes ==
    ASSUME IndexTypeOK, NEW c \in Processes, NEW next \in Calling, MoveWriting(c, next)
    PROVE  /\ process' \in [Processes -> ProcessStates] /\ process'[c] = next
           /\ \A b \in Processes \ {c} : Same(b) /\ ~Alone(b)'
<1>1. /\ process'[c] = next
      /\ \A b \in Processes \ {c} :
            process'[b] = IF process[b] = NotCalled THEN NotCalled
                          ELSE [process[b] EXCEPT !.alone = FALSE]
      /\ process' = [b \in Processes |-> process'[b]]
    BY DEF MoveWriting
<1>2. \A b \in Processes \ {c} : process[b] # NotCalled =>
          process[b] \in Calling /\ process'[b] = [process[b] EXCEPT !.alone = FALSE]
    BY <1>1, CallTypes
<1>3. \A b \in Processes \ {c} : /\ Same(b) /\ ~Alone(b)'
                                 /\ process'[b] \in Calling \cup {NotCalled}
    BY <1>1, <1>2, BesideWriting
<1> QED
    BY <1>1, <1>3 DEF ProcessStates, Calling

(* A write that belongs to no call crosses every call.                     *)
LEMMA DisturbTypes ==
    ASSUME IndexTypeOK, Disturb
    PROVE  /\ process' \in [Processes -> ProcessStates]
           /\ \A b \in Processes : Same(b) /\ ~Alone(b)'
<1>1. /\ \A b \in Processes :
            process'[b] = IF process[b] = NotCalled THEN NotCalled
                          ELSE [process[b] EXCEPT !.alone = FALSE]
      /\ process' = [b \in Processes |-> process'[b]]
    BY DEF Disturb
<1>2. \A b \in Processes : process[b] # NotCalled =>
          process[b] \in Calling /\ process'[b] = [process[b] EXCEPT !.alone = FALSE]
    BY <1>1, CallTypes
<1>3. \A b \in Processes : /\ Same(b) /\ ~Alone(b)'
                           /\ process'[b] \in Calling \cup {NotCalled}
    BY <1>1, <1>2, BesideWriting
<1> QED
    BY <1>1, <1>3 DEF ProcessStates, Calling

(* A step of one call that writes nothing.                                 *)
LEMMA QuietStep ==
    ASSUME SyncInv, IndexTypeOK', NEW c \in Processes,
           row' = row, manifest' = manifest, loose' = loose,
           \A b \in Processes \ {c} : process'[b] = process[b],
           FoundHolds(c)', UpsertsHold(c)',
           \A d \in Processes \ {c} : /\ NothingWritten(c, d)' /\ NothingRewritten(c, d)'
                                      /\ NothingWritten(d, c)' /\ NothingRewritten(d, c)'
    PROVE  SyncInv'
<1>1. ManifestHolds'
    BY DEF SyncInv, ManifestHolds
<1>2. \A b \in Processes : FoundHolds(b)' /\ UpsertsHold(b)'
    <2> TAKE b \in Processes
    <2>1. CASE b # c
        BY <2>1 DEF SyncInv, FoundHolds, UpsertsHold, Alone, Indexed, Wanted, Config
    <2> QED
        BY <2>1
<1>3. \A b, d \in Processes : b # d => NothingWritten(b, d)' /\ NothingRewritten(b, d)'
    <2> SUFFICES ASSUME NEW b \in Processes, NEW d \in Processes, b # d
                 PROVE  NothingWritten(b, d)' /\ NothingRewritten(b, d)'
        OBVIOUS
    <2>1. CASE b # c /\ d # c
        BY <2>1 DEF SyncInv, NothingWritten, NothingRewritten, Alone, Indexed, Wanted, Config
    <2>2. CASE b = c
        BY <2>2
    <2>3. CASE d = c
        BY <2>3
    <2> QED
        BY <2>1, <2>2, <2>3
<1> QED
    BY <1>1, <1>2, <1>3 DEF SyncInv

(* A step that writes: nobody but the call that makes it is alone any      *)
(* longer.                                                                 *)
LEMMA LoudStep ==
    ASSUME SyncInv, IndexTypeOK', NEW c \in Processes,
           \A b \in Processes \ {c} : ~Alone(b)',
           ManifestHolds', \A b \in Processes : UpsertsHold(b)',
           FoundHolds(c)',
           \A b \in Processes \ {c} : NothingWritten(b, c)' /\ NothingRewritten(b, c)'
    PROVE  SyncInv'
<1>1. \A b \in Processes : FoundHolds(b)'
    BY DEF FoundHolds
<1>2. \A b, d \in Processes : b # d => NothingWritten(b, d)' /\ NothingRewritten(b, d)'
    BY DEF NothingWritten, NothingRewritten
<1> QED
    BY <1>1, <1>2 DEF SyncInv

(* A step of someone else that writes.                                     *)
LEMMA LoudOther ==
    ASSUME SyncInv, IndexTypeOK', \A b \in Processes : ~Alone(b)',
           ManifestHolds', \A b \in Processes : UpsertsHold(b)'
    PROVE  SyncInv'
BY DEF SyncInv, FoundHolds, NothingWritten, NothingRewritten

(* What the tables may hold.                                               *)
LEMMA RowTypes ==
    ASSUME IndexTypeOK
    PROVE  /\ row \in [Chunks -> {configOf[v] : v \in Versions} \cup {Foreign, "NONE"}]
           /\ Indexed \in SUBSET Chunks /\ Indexed \subseteq Nat
           /\ manifest \in Versions \cup {"NONE"} /\ loose \subseteq Chunks
           /\ process \in [Processes -> ProcessStates]
BY ChunksAssumption DEF IndexTypeOK, Indexed

(* A step of one call that writes nothing, by its types.                   *)
LEMMA QuietTypes ==
    ASSUME SyncInv, NEW c \in Processes, NEW next \in Calling, Move(c, next),
           row' = row, manifest' = manifest, loose' = loose,
           UNCHANGED <<deletion, meddling, failures>>
    PROVE  /\ IndexTypeOK' /\ Indexed' = Indexed /\ process'[c] = next
           /\ \A b \in Processes \ {c} : process'[b] = process[b]
BY MoveTypes DEF SyncInv, IndexTypeOK, Indexed

(* Beginning a call keeps it.                                              *)
LEMMA BeginProcessKeeps ==
    ASSUME SyncInv, NEW c \in Processes, BeginProcess(c)
    PROVE  SyncInv'
<1>1. PICK v \in Versions :
          Move(c, [at |-> "manifest", version |-> v, todo |-> {}, alone |-> ~OthersUnderway(c)])
    BY DEF BeginProcess
<1> DEFINE next == [at |-> "manifest", version |-> v, todo |-> {}, alone |-> ~OthersUnderway(c)]
<1>2. next \in Calling /\ next.at = "manifest" /\ next.alone = ~OthersUnderway(c)
    BY DEF Calling, Stations, OthersUnderway
<1>3. Move(c, next)
    BY <1>1
<1> HIDE DEF next
<1>4. /\ row' = row /\ manifest' = manifest /\ loose' = loose
      /\ UNCHANGED <<deletion, meddling, failures>>
    BY DEF BeginProcess
<1>5. /\ IndexTypeOK' /\ Indexed' = Indexed /\ process'[c] = next
      /\ \A b \in Processes \ {c} : process'[b] = process[b]
    BY <1>2, <1>3, <1>4, QuietTypes
<1>6. FoundHolds(c)' /\ UpsertsHold(c)'
    BY <1>2, <1>5 DEF FoundHolds, UpsertsHold
<1>7. \A d \in Processes \ {c} : next.alone => process[d].at \notin {"delete", "upsert"}
    <2> SUFFICES ASSUME NEW d \in Processes \ {c}, ~OthersUnderway(c)
                 PROVE  process[d].at \notin {"delete", "upsert"}
        BY <1>2
    <2>1. process[d] = NotCalled \/ process[d].at \in {"NOOP", "PASS"}
        BY DEF OthersUnderway
    <2> QED
        BY <2>1 DEF NotCalled
<1>8. \A d \in Processes \ {c} : /\ NothingWritten(c, d)' /\ NothingRewritten(c, d)'
                                 /\ NothingWritten(d, c)' /\ NothingRewritten(d, c)'
    <2> TAKE d \in Processes \ {c}
    <2>1. NothingWritten(c, d)' /\ NothingRewritten(c, d)' /\ NothingRewritten(d, c)'
        BY <1>2, <1>5 DEF NothingWritten, NothingRewritten
    <2>2. NothingWritten(d, c)'
        BY <1>5, <1>7 DEF NothingWritten, Alone
    <2> QED
        BY <2>1, <2>2
<1> QED
    BY <1>4, <1>5, <1>6, <1>8, QuietStep

(* The fields of a call that goes on.                                      *)
LEMMA GoesTo ==
    ASSUME NEW call \in Calling, NEW at \in Stations
    PROVE  /\ [call EXCEPT !.at = at] \in Calling
           /\ [call EXCEPT !.at = at].at = at
           /\ [call EXCEPT !.at = at].version = call.version
           /\ [call EXCEPT !.at = at].todo = call.todo
           /\ [call EXCEPT !.at = at].alone = call.alone
           /\ [call EXCEPT !.at = at] # NotCalled
<1>1. /\ [call EXCEPT !.at = at] \in Calling
      /\ [call EXCEPT !.at = at].at = at
      /\ [call EXCEPT !.at = at].version = call.version
      /\ [call EXCEPT !.at = at].todo = call.todo
      /\ [call EXCEPT !.at = at].alone = call.alone
    BY DEF Calling
<1> QED
    BY <1>1 DEF NotCalled, Stations

(* A call that holds something was made.                                   *)
LEMMA IsCalled ==
    ASSUME NEW call \in Calling
    PROVE  call # NotCalled
<1>1. call.at \in Stations
    BY DEF Calling
<1> QED
    BY <1>1 DEF NotCalled, Stations

(* Reading the manifest keeps it, the answer that nothing changed          *)
(* included.                                                               *)
LEMMA ReadManifestKeeps ==
    ASSUME SyncInv, NEW c \in Processes, ReadManifest(c)
    PROVE  SyncInv'
<1> DEFINE to == IF manifest = process[c].version THEN "compare" ELSE "clear"
           next == [process[c] EXCEPT !.at = to]
<1>1. process[c].at = "manifest" /\ process[c] \in Calling /\ process[c] # NotCalled
    BY CallTypes DEF ReadManifest, SyncInv, Stations
<1>2. to \in {"compare", "clear"} /\ (to = "compare" => manifest = process[c].version)
    OBVIOUS
<1>3. Move(c, next) /\ UNCHANGED <<row, manifest, deletion, loose, meddling, failures>>
    BY DEF ReadManifest
<1> HIDE DEF to
<1>4. /\ next \in Calling /\ next.at = to /\ next.version = process[c].version
      /\ next.alone = process[c].alone /\ next # NotCalled
    <2>1. to \in Stations
        BY <1>2 DEF Stations
    <2> QED
        BY <1>1, <2>1, GoesTo
<1> HIDE DEF next
<1>5. /\ IndexTypeOK' /\ Indexed' = Indexed /\ process'[c] = next
      /\ \A b \in Processes \ {c} : process'[b] = process[b]
    BY <1>3, <1>4, QuietTypes
<1>6. FoundHolds(c)' /\ UpsertsHold(c)'
    BY <1>2, <1>3, <1>4, <1>5 DEF FoundHolds, UpsertsHold
<1>7. \A d \in Processes \ {c} : /\ NothingWritten(c, d)' /\ NothingRewritten(c, d)'
                                 /\ NothingWritten(d, c)' /\ NothingRewritten(d, c)'
    <2> TAKE d \in Processes \ {c}
    <2>1. NothingWritten(c, d)' /\ NothingRewritten(c, d)' /\ NothingRewritten(d, c)'
        BY <1>2, <1>4, <1>5 DEF NothingWritten, NothingRewritten
    <2>2. NothingWritten(d, c)
        BY DEF SyncInv
    <2>3. NothingWritten(d, c)'
        BY <1>1, <1>4, <1>5, <2>2 DEF NothingWritten, Alone, Wanted
    <2> QED
        BY <2>1, <2>3
<1> QED
    BY <1>3, <1>5, <1>6, <1>7, QuietStep

(* Comparing the ids in the index with the version's keeps it.             *)
LEMMA CompareChunksKeeps ==
    ASSUME SyncInv, NEW c \in Processes, CompareChunks(c)
    PROVE  SyncInv'
<1> DEFINE to == IF Indexed = Wanted(c) THEN "NOOP" ELSE "clear"
           next == [process[c] EXCEPT !.at = to]
<1>1. process[c].at = "compare" /\ process[c] \in Calling /\ process[c] # NotCalled
    BY CallTypes DEF CompareChunks, SyncInv, Stations
<1>2. to \in {"NOOP", "clear"} /\ (to = "NOOP" => Indexed = Wanted(c))
    OBVIOUS
<1>3. Move(c, next) /\ UNCHANGED <<row, manifest, deletion, loose, meddling, failures>>
    BY DEF CompareChunks, Wanted
<1> HIDE DEF to
<1>4. /\ next \in Calling /\ next.at = to /\ next.version = process[c].version
      /\ next.alone = process[c].alone /\ next # NotCalled
    <2>1. to \in Stations
        BY <1>2 DEF Stations
    <2> QED
        BY <1>1, <2>1, GoesTo
<1> HIDE DEF next
<1>5. /\ IndexTypeOK' /\ Indexed' = Indexed /\ process'[c] = next
      /\ \A b \in Processes \ {c} : process'[b] = process[b]
    BY <1>3, <1>4, QuietTypes
<1>6. Wanted(c)' = Wanted(c) /\ Config(c)' = Config(c)
    BY <1>4, <1>5 DEF Wanted, Config
<1>7. FoundHolds(c)' /\ UpsertsHold(c)'
    <2>1. ASSUME Alone(c), to = "NOOP"
          PROVE  \A k \in Indexed \ loose : row[k] = Config(c)
        <3>1. manifest = process[c].version /\ manifest # "NONE"
            BY <1>1, <2>1, CallFields, VersionsAssumption DEF SyncInv, FoundHolds
        <3>2. \A k \in Wanted(c) \ loose : row[k] \in {Config(c), "NONE"}
            BY <3>1 DEF SyncInv, ManifestHolds, Wanted, Config
        <3> QED
            BY <1>2, <2>1, <3>2 DEF Indexed
    <2>2. Alone(c)' => Alone(c)
        BY <1>1, <1>4, <1>5 DEF Alone
    <2> QED
        BY <1>2, <1>3, <1>4, <1>5, <1>6, <2>1, <2>2 DEF FoundHolds, UpsertsHold
<1>8. \A d \in Processes \ {c} : /\ NothingWritten(c, d)' /\ NothingRewritten(c, d)'
                                 /\ NothingWritten(d, c)' /\ NothingRewritten(d, c)'
    <2> TAKE d \in Processes \ {c}
    <2>1. NothingWritten(c, d)' /\ NothingRewritten(c, d)' /\ NothingRewritten(d, c)'
        BY <1>2, <1>4, <1>5 DEF NothingWritten, NothingRewritten
    <2>2. NothingWritten(d, c)
        BY DEF SyncInv
    <2>3. NothingWritten(d, c)'
        BY <1>1, <1>4, <1>5, <2>2 DEF NothingWritten, Alone, Wanted
    <2> QED
        BY <2>1, <2>3
<1> QED
    BY <1>3, <1>5, <1>7, <1>8, QuietStep

(* Finding the rows that are to go keeps it.                               *)
LEMMA FindRowsKeeps ==
    ASSUME SyncInv, NEW c \in Processes, FindRows(c)
    PROVE  SyncInv'
<1> DEFINE next == [process[c] EXCEPT !.at = "delete", !.todo = Indexed]
<1>1. process[c].at = "clear" /\ process[c] \in Calling /\ process[c] # NotCalled
    BY CallTypes DEF FindRows, SyncInv, Stations
<1>2. Move(c, next) /\ UNCHANGED <<row, manifest, deletion, loose, meddling, failures>>
    BY DEF FindRows
<1>3. /\ next \in Calling /\ next.at = "delete" /\ next.version = process[c].version
      /\ next.alone = process[c].alone /\ next # NotCalled /\ next.todo = Indexed
    <2>1. "delete" \in Stations /\ Indexed \in SUBSET Chunks
        BY RowTypes DEF Stations, SyncInv
    <2> DEFINE call == process[c]
               rows == Indexed
    <2>2. /\ call \in Calling /\ rows \in SUBSET Chunks
          /\ next = [call EXCEPT !.at = "delete", !.todo = rows]
        BY <1>1, <2>1
    <2>3. call = process[c] /\ rows = Indexed
        OBVIOUS
    <2> HIDE DEF call, rows, next
    <2>4. /\ next \in Calling /\ next.at = "delete" /\ next.version = call.version
          /\ next.alone = call.alone /\ next.todo = rows
        BY <2>1, <2>2 DEF Calling
    <2> QED
        BY <2>3, <2>4, IsCalled
<1> HIDE DEF next
<1>4. /\ IndexTypeOK' /\ Indexed' = Indexed /\ process'[c] = next
      /\ \A b \in Processes \ {c} : process'[b] = process[b]
    BY <1>2, <1>3, QuietTypes
<1>5. FoundHolds(c)' /\ UpsertsHold(c)'
    BY <1>2, <1>3, <1>4 DEF FoundHolds, UpsertsHold
<1>6. \A d \in Processes \ {c} : /\ NothingWritten(c, d)' /\ NothingRewritten(c, d)'
                                 /\ NothingWritten(d, c)' /\ NothingRewritten(d, c)'
    <2> TAKE d \in Processes \ {c}
    <2>1. NothingWritten(c, d)' /\ NothingRewritten(c, d)' /\ NothingRewritten(d, c)'
        BY <1>2, <1>3, <1>4 DEF NothingWritten, NothingRewritten
    <2>2. NothingWritten(d, c)
        BY DEF SyncInv
    <2>3. NothingWritten(d, c)'
        BY <1>1, <1>3, <1>4, <2>2 DEF NothingWritten, Alone, Wanted
    <2> QED
        BY <2>1, <2>3
<1> QED
    BY <1>2, <1>4, <1>5, <1>6, QuietStep

(* A step that only takes rows away.                                       *)
LEMMA ClearingKeeps ==
    ASSUME SyncInv, NEW ids \in SUBSET Chunks, row' = Cleared(ids), loose' = loose \ ids
    PROVE  /\ row' \in [Chunks -> {configOf[v] : v \in Versions} \cup {Foreign, "NONE"}]
           /\ loose' \subseteq Chunks
           /\ \A k \in Chunks : row'[k] = IF k \in ids THEN "NONE" ELSE row[k]
           /\ Indexed' = Indexed \ ids
           /\ manifest' = manifest => ManifestHolds'
           /\ \A b \in Processes : Same(b) => UpsertsHold(b)'
<1>1. /\ row \in [Chunks -> {configOf[v] : v \in Versions} \cup {Foreign, "NONE"}]
      /\ loose \subseteq Chunks
    BY RowTypes DEF SyncInv
<1>2. \A k \in Chunks : row'[k] = IF k \in ids THEN "NONE" ELSE row[k]
    BY <1>1 DEF Cleared
<1>3. row' \in [Chunks -> {configOf[v] : v \in Versions} \cup {Foreign, "NONE"}]
    BY <1>1 DEF Cleared
<1>4. Indexed' = Indexed \ ids
    BY <1>1, <1>2 DEF Indexed
<1>5. ASSUME NEW S \in SUBSET Chunks, NEW x, \A k \in S \ loose : row[k] \in {x, "NONE"}
      PROVE  \A k \in S \ loose' : row'[k] \in {x, "NONE"}
    BY <1>2, <1>5
<1>6. ASSUME manifest' = manifest
      PROVE  ManifestHolds'
    <2> SUFFICES ASSUME manifest # "NONE"
                 PROVE  \A k \in chunksOf[manifest] \ loose' : row'[k] \in {configOf[manifest], "NONE"}
        BY <1>6 DEF ManifestHolds
    <2>1. chunksOf[manifest] \in SUBSET Chunks
        BY RowTypes, VersionsAssumption DEF SyncInv
    <2>2. \A k \in chunksOf[manifest] \ loose : row[k] \in {configOf[manifest], "NONE"}
        BY DEF SyncInv, ManifestHolds
    <2> QED
        BY <1>2, <2>1, <2>2
<1>7. ASSUME NEW b \in Processes, Same(b)
      PROVE  UpsertsHold(b)'
    <2> SUFFICES ASSUME process'[b].at = "upsert"
                 PROVE  UpsertsHold(b)'
        BY DEF UpsertsHold
    <2>1. process[b].at = "upsert" /\ process[b] # NotCalled
        BY <1>7 DEF Same, NotCalled
    <2>2. /\ Wanted(b)' = Wanted(b) /\ Config(b)' = Config(b) /\ process'[b].todo = process[b].todo
          /\ Wanted(b) \in SUBSET Chunks
        BY <1>7, <2>1, CallFields DEF Same, Wanted, Config, SyncInv
    <2>3. /\ process[b].todo \subseteq Wanted(b)
          /\ \A k \in Wanted(b) \ process[b].todo : row[k] \in {Config(b), "NONE"} \/ k \in loose
        BY <2>1 DEF SyncInv, UpsertsHold
    <2>4. \A k \in Wanted(b) \ process[b].todo : row'[k] \in {Config(b), "NONE"} \/ k \in loose'
        <3> TAKE k \in Wanted(b) \ process[b].todo
        <3>1. k \in Chunks
            BY <2>2
        <3> QED
            BY <1>2, <2>3, <3>1
    <2> QED
        BY <2>2, <2>3, <2>4 DEF UpsertsHold
<1> QED
    BY <1>1, <1>2, <1>3, <1>4, <1>6, <1>7

(* Deleting them keeps it.                                                 *)
LEMMA DeleteRowsKeeps ==
    ASSUME SyncInv, NEW c \in Processes, DeleteRows(c)
    PROVE  SyncInv'
<1> DEFINE ids == process[c].todo
           next == [process[c] EXCEPT !.at = "upsert", !.todo = chunksOf[process[c].version]]
<1>1. /\ process[c].at = "delete" /\ process[c] \in Calling /\ process[c] # NotCalled
      /\ Wanted(c) \in SUBSET Chunks /\ ids \in SUBSET Chunks
    BY CallTypes, CallFields DEF DeleteRows, SyncInv, Stations
<1>2. /\ row' = Cleared(ids) /\ loose' = loose \ ids
      /\ UNCHANGED <<manifest, deletion, meddling, failures>>
      /\ ids = {} => Move(c, next)
      /\ ids # {} => MoveWriting(c, next)
    BY DEF DeleteRows
<1>3. next = [process[c] EXCEPT !.at = "upsert", !.todo = Wanted(c)]
    BY DEF Wanted
<1> HIDE DEF next, ids
<1>4. /\ next \in Calling /\ next.at = "upsert" /\ next.version = process[c].version
      /\ next.alone = process[c].alone /\ next.todo = Wanted(c) /\ next # NotCalled
    <2> DEFINE call == process[c]
               all == Wanted(c)
    <2>1. /\ call \in Calling /\ all \in SUBSET Chunks
          /\ next = [call EXCEPT !.at = "upsert", !.todo = all]
        BY <1>1, <1>3
    <2>2. call = process[c] /\ all = Wanted(c) /\ "upsert" \in Stations
        BY DEF Stations
    <2> HIDE DEF call, all
    <2>3. /\ next \in Calling /\ next.at = "upsert" /\ next.version = call.version
          /\ next.alone = call.alone /\ next.todo = all
        BY <2>1, <2>2 DEF Calling
    <2> QED
        BY <2>2, <2>3, IsCalled
<1>5. /\ row' \in [Chunks -> {configOf[v] : v \in Versions} \cup {Foreign, "NONE"}]
      /\ loose' \subseteq Chunks
      /\ \A k \in Chunks : row'[k] = IF k \in ids THEN "NONE" ELSE row[k]
      /\ Indexed' = Indexed \ ids
      /\ ManifestHolds'
      /\ \A b \in Processes : Same(b) => UpsertsHold(b)'
    BY <1>1, <1>2, ClearingKeeps
<1>6. ASSUME Alone(c)
      PROVE  Indexed' = {}
    BY <1>1, <1>5, <1>6 DEF SyncInv, FoundHolds, ids
<1>7. /\ process'[c] = next /\ process' \in [Processes -> ProcessStates]
      /\ Wanted(c)' = Wanted(c) /\ Alone(c)' = Alone(c)
    <2>1. process'[c] = next /\ process' \in [Processes -> ProcessStates]
        BY <1>2, <1>4, MoveTypes, MoveWritingTypes DEF SyncInv
    <2> QED
        BY <1>1, <1>4, <2>1 DEF Wanted, Alone
<1>8. IndexTypeOK'
    BY <1>2, <1>5, <1>7 DEF SyncInv, IndexTypeOK
<1>9. FoundHolds(c)' /\ UpsertsHold(c)'
    BY <1>4, <1>6, <1>7 DEF FoundHolds, UpsertsHold
<1>10. CASE ids = {}
    <2>1. row' = row /\ loose' = loose /\ Indexed' = Indexed
        BY <1>2, <1>5, <1>10, RowTypes DEF SyncInv, Cleared
    <2>2. \A b \in Processes \ {c} : process'[b] = process[b]
        BY <1>2, <1>4, <1>10, MoveTypes DEF SyncInv
    <2>3. \A d \in Processes \ {c} : /\ NothingWritten(c, d)' /\ NothingRewritten(c, d)'
                                     /\ NothingWritten(d, c)' /\ NothingRewritten(d, c)'
        <3> TAKE d \in Processes \ {c}
        <3>1. NothingWritten(c, d) /\ NothingWritten(d, c)
            BY DEF SyncInv
        <3>2. NothingWritten(c, d)'
            BY <1>1, <1>4, <1>7, <1>10, <2>1, <2>2, <3>1 DEF NothingWritten, Alone, ids
        <3>3. NothingRewritten(c, d)' /\ NothingWritten(d, c)'
            BY <1>4, <1>7 DEF NothingRewritten, NothingWritten
        <3>4. NothingRewritten(d, c)'
            BY <1>1, <1>7, <2>2, <3>1 DEF NothingRewritten, NothingWritten, Wanted
        <3> QED
            BY <3>2, <3>3, <3>4
    <2> QED
        BY <1>2, <1>8, <1>9, <2>1, <2>2, <2>3, QuietStep
<1>11. CASE ids # {}
    <2>1. \A b \in Processes \ {c} : Same(b) /\ ~Alone(b)'
        BY <1>2, <1>4, <1>11, MoveWritingTypes DEF SyncInv
    <2>2. \A b \in Processes : UpsertsHold(b)'
        BY <1>5, <1>9, <2>1
    <2>3. \A b \in Processes \ {c} : NothingWritten(b, c)' /\ NothingRewritten(b, c)'
        <3> TAKE b \in Processes \ {c}
        <3>1. NothingWritten(b, c) /\ Same(b)
            BY <2>1 DEF SyncInv
        <3>2. NothingWritten(b, c)'
            BY <1>4, <1>7 DEF NothingWritten
        <3>3. NothingRewritten(b, c)'
            <4>1. SUFFICES ASSUME Alone(c), process'[b].at = "upsert"
                           PROVE  Wanted(b)' \subseteq process'[b].todo
                BY <1>7 DEF NothingRewritten
            <4>2. process[b] # NotCalled
                BY <3>1, <4>1 DEF Same, NotCalled
            <4> QED
                BY <1>1, <3>1, <4>1, <4>2 DEF NothingWritten, Same, Wanted
        <3> QED
            BY <3>2, <3>3
    <2> QED
        BY <1>5, <1>8, <1>9, <2>1, <2>2, <2>3, LoudStep
<1> QED
    BY <1>10, <1>11

(* A step that writes one row, which is loose from then on.                *)
LEMMA WritingKeeps ==
    ASSUME SyncInv, NEW k \in Chunks, NEW x \in {configOf[v] : v \in Versions} \cup {Foreign},
           row' = [row EXCEPT ![k] = x], loose' = loose \cup {k}, manifest' = manifest
    PROVE  /\ row' \in [Chunks -> {configOf[v] : v \in Versions} \cup {Foreign, "NONE"}]
           /\ loose' \subseteq Chunks
           /\ row'[k] = x /\ \A j \in Chunks \ {k} : row'[j] = row[j]
           /\ ManifestHolds'
           /\ \A b \in Processes : Same(b) => UpsertsHold(b)'
<1>1. /\ row \in [Chunks -> {configOf[v] : v \in Versions} \cup {Foreign, "NONE"}]
      /\ loose \subseteq Chunks
    BY RowTypes DEF SyncInv
<1>2. row'[k] = x /\ \A j \in Chunks \ {k} : row'[j] = row[j]
    BY <1>1
<1>3. ManifestHolds'
    <2> SUFFICES ASSUME manifest # "NONE"
                 PROVE  \A j \in chunksOf[manifest] \ loose' : row'[j] \in {configOf[manifest], "NONE"}
        BY DEF ManifestHolds
    <2>1. chunksOf[manifest] \in SUBSET Chunks
        BY RowTypes, VersionsAssumption DEF SyncInv
    <2>2. \A j \in chunksOf[manifest] \ loose : row[j] \in {configOf[manifest], "NONE"}
        BY DEF SyncInv, ManifestHolds
    <2> QED
        BY <1>2, <2>1, <2>2
<1>4. ASSUME NEW b \in Processes, Same(b)
      PROVE  UpsertsHold(b)'
    <2> SUFFICES ASSUME process'[b].at = "upsert"
                 PROVE  UpsertsHold(b)'
        BY DEF UpsertsHold
    <2>1. process[b].at = "upsert" /\ process[b] # NotCalled
        BY <1>4 DEF Same, NotCalled
    <2>2. /\ Wanted(b)' = Wanted(b) /\ Config(b)' = Config(b) /\ process'[b].todo = process[b].todo
          /\ Wanted(b) \in SUBSET Chunks
        BY <1>4, <2>1, CallFields DEF Same, Wanted, Config, SyncInv
    <2>3. /\ process[b].todo \subseteq Wanted(b)
          /\ \A j \in Wanted(b) \ process[b].todo : row[j] \in {Config(b), "NONE"} \/ j \in loose
        BY <2>1 DEF SyncInv, UpsertsHold
    <2>4. \A j \in Wanted(b) \ process[b].todo : row'[j] \in {Config(b), "NONE"} \/ j \in loose'
        BY <1>2, <2>2, <2>3
    <2> QED
        BY <2>2, <2>3, <2>4 DEF UpsertsHold
<1>5. row' \in [Chunks -> {configOf[v] : v \in Versions} \cup {Foreign, "NONE"}]
    BY <1>1
<1> QED
    BY <1>1, <1>2, <1>3, <1>4, <1>5

(* Writing the row of a chunk keeps it.                                    *)
LEMMA UpsertChunkKeeps ==
    ASSUME SyncInv, NEW c \in Processes, UpsertChunk(c)
    PROVE  SyncInv'
<1> DEFINE todo == process[c].todo
           k == Min(todo)
           next == [process[c] EXCEPT !.todo = @ \ {k}]
<1>1. /\ process[c].at = "upsert" /\ process[c] \in Calling /\ process[c] # NotCalled
      /\ Wanted(c) \in SUBSET Chunks /\ todo \in SUBSET Chunks /\ todo # {}
      /\ Config(c) # "NONE" /\ Config(c) \in {configOf[v] : v \in Versions}
      /\ todo \subseteq Wanted(c)
    <2>1. process[c].at = "upsert" /\ todo # {} /\ process[c] \in Calling /\ process[c] # NotCalled
        BY CallTypes DEF UpsertChunk, SyncInv, Stations
    <2> QED
        BY <2>1, CallFields DEF SyncInv, UpsertsHold
<1>2. k \in todo
    BY <1>1, ChunksAssumption, MinIsIn
<1>3. /\ UNCHANGED <<manifest, deletion, meddling, failures>>
      /\ \/ row[k] = Config(c) /\ Move(c, next) /\ row' = row /\ loose' = loose
         \/ /\ row[k] # Config(c) /\ MoveWriting(c, next)
            /\ row' = [row EXCEPT ![k] = Config(c)] /\ loose' = loose \cup {k}
    BY DEF UpsertChunk, Config
<1>4. next = [process[c] EXCEPT !.todo = todo \ {k}]
    OBVIOUS
<1> HIDE DEF next, k, todo
<1>5. /\ next \in Calling /\ next.at = "upsert" /\ next.version = process[c].version
      /\ next.alone = process[c].alone /\ next.todo = todo \ {k} /\ next # NotCalled
    <2> DEFINE call == process[c]
               left == todo \ {k}
    <2>1. call \in Calling /\ left \in SUBSET Chunks /\ next = [call EXCEPT !.todo = left]
        BY <1>1, <1>4
    <2>2. call = process[c] /\ left = todo \ {k} /\ call.at = "upsert"
        BY <1>1
    <2> HIDE DEF call, left
    <2>3. /\ next \in Calling /\ next.at = call.at /\ next.version = call.version
          /\ next.alone = call.alone /\ next.todo = left
        BY <2>1 DEF Calling
    <2> QED
        BY <2>2, <2>3, IsCalled
<1>6. /\ process'[c] = next /\ process' \in [Processes -> ProcessStates]
      /\ Wanted(c)' = Wanted(c) /\ Config(c)' = Config(c) /\ Alone(c)' = Alone(c)
    <2>1. process'[c] = next /\ process' \in [Processes -> ProcessStates]
        BY <1>3, <1>5, MoveTypes, MoveWritingTypes DEF SyncInv
    <2> QED
        BY <1>1, <1>5, <2>1 DEF Wanted, Config, Alone
<1>7. Alone(c) => /\ Indexed = Wanted(c) \ todo
                  /\ \A j \in Indexed : row[j] = Config(c)
    BY <1>1 DEF SyncInv, FoundHolds, todo
<1>8. \A j \in Wanted(c) \ todo : row[j] \in {Config(c), "NONE"} \/ j \in loose
    BY <1>1 DEF SyncInv, UpsertsHold, todo
<1>9. CASE row[k] = Config(c)
    <2>1. /\ row' = row /\ loose' = loose /\ Indexed' = Indexed /\ Move(c, next)
        BY <1>3, <1>9 DEF Indexed
    <2>2. \A b \in Processes \ {c} : process'[b] = process[b]
        BY <1>5, <2>1, MoveTypes DEF SyncInv
    <2>3. k \in Indexed /\ ~Alone(c)
        BY <1>1, <1>2, <1>7, <1>9 DEF Indexed
    <2>4. FoundHolds(c)'
        BY <1>6, <2>3 DEF FoundHolds
    <2>5. UpsertsHold(c)'
        <3>1. \A j \in Wanted(c) \ (todo \ {k}) : row[j] \in {Config(c), "NONE"} \/ j \in loose
            BY <1>8, <1>9
        <3> QED
            BY <1>1, <1>5, <1>6, <2>1, <3>1 DEF UpsertsHold
    <2>6. \A d \in Processes \ {c} : /\ NothingWritten(c, d)' /\ NothingRewritten(c, d)'
                                     /\ NothingWritten(d, c)' /\ NothingRewritten(d, c)'
        <3> TAKE d \in Processes \ {c}
        <3>1. NothingWritten(c, d) /\ NothingRewritten(c, d)
            BY DEF SyncInv
        <3>2. NothingWritten(c, d)'
            BY <1>1, <1>5, <1>6, <2>2, <2>3, <3>1 DEF NothingWritten, Alone
        <3>3. NothingRewritten(c, d)'
            <4>1. SUFFICES ASSUME Alone(d), process[d].at = "upsert"
                           PROVE  \A j \in Wanted(c) \ (todo \ {k}) : row[j] = Config(c)
                BY <1>5, <1>6, <2>1, <2>2 DEF NothingRewritten, Alone
            <4> QED
                BY <1>1, <1>9, <3>1, <4>1 DEF NothingRewritten, todo
        <3>4. NothingWritten(d, c)' /\ NothingRewritten(d, c)'
            BY <1>6, <2>3 DEF NothingWritten, NothingRewritten
        <3> QED
            BY <3>2, <3>3, <3>4
    <2>7. IndexTypeOK'
        BY <1>3, <1>6, <2>1 DEF SyncInv, IndexTypeOK
    <2> QED
        BY <1>3, <2>1, <2>2, <2>4, <2>5, <2>6, <2>7, QuietStep
<1>10. CASE row[k] # Config(c)
    <2>1. /\ MoveWriting(c, next) /\ manifest' = manifest
          /\ row' = [row EXCEPT ![k] = Config(c)] /\ loose' = loose \cup {k}
        BY <1>3, <1>10
    <2>2. k \in Chunks
        BY <1>1, <1>2
    <2>3. /\ row' \in [Chunks -> {configOf[v] : v \in Versions} \cup {Foreign, "NONE"}]
          /\ loose' \subseteq Chunks
          /\ row'[k] = Config(c) /\ \A j \in Chunks \ {k} : row'[j] = row[j]
          /\ ManifestHolds'
          /\ \A b \in Processes : Same(b) => UpsertsHold(b)'
        BY <1>1, <2>1, <2>2, WritingKeeps
    <2>4. Indexed' = Indexed \cup {k}
        BY <1>1, <2>2, <2>3 DEF Indexed
    <2>5. \A b \in Processes \ {c} : Same(b) /\ ~Alone(b)'
        BY <1>5, <2>1, MoveWritingTypes DEF SyncInv
    <2>6. UpsertsHold(c)'
        <3>1. \A j \in Wanted(c) \ (todo \ {k}) : row'[j] \in {Config(c), "NONE"} \/ j \in loose'
            BY <1>1, <1>8, <2>1, <2>3
        <3> QED
            BY <1>1, <1>5, <1>6, <3>1 DEF UpsertsHold
    <2>7. FoundHolds(c)'
        <3>1. SUFFICES ASSUME Alone(c)
                       PROVE  /\ Indexed' = Wanted(c) \ (todo \ {k})
                              /\ \A j \in Indexed' : row'[j] = Config(c)
            BY <1>5, <1>6 DEF FoundHolds
        <3>2. Indexed' = Wanted(c) \ (todo \ {k})
            BY <1>1, <1>2, <1>7, <2>4, <3>1
        <3>3. \A j \in Indexed' : row'[j] = Config(c)
            BY <1>1, <1>7, <2>3, <2>4, <3>1
        <3> QED
            BY <3>2, <3>3
    <2>8. \A b \in Processes \ {c} : NothingWritten(b, c)' /\ NothingRewritten(b, c)'
        <3> TAKE b \in Processes \ {c}
        <3>1. NothingWritten(b, c)'
            BY <1>5, <1>6 DEF NothingWritten
        <3>2. NothingRewritten(b, c)'
            <4>1. SUFFICES ASSUME Alone(c), process'[b].at = "upsert"
                           PROVE  \A j \in Wanted(b)' \ process'[b].todo : row'[j] = Config(b)'
                BY <1>6 DEF NothingRewritten
            <4>2. /\ process[b] # NotCalled /\ process[b].at = "upsert" /\ Wanted(b)' = Wanted(b)
                  /\ Config(b)' = Config(b) /\ process'[b].todo = process[b].todo
                BY <2>5, <4>1 DEF Same, NotCalled, Wanted, Config
            <4>3. Wanted(b) \in SUBSET Chunks /\ Config(b) # "NONE"
                BY <4>2, CallFields DEF SyncInv
            <4>4. \A j \in Wanted(b) \ process[b].todo : row[j] = Config(b)
                BY <1>1, <4>1, <4>2 DEF SyncInv, NothingRewritten
            <4>5. \A j \in Wanted(b) \ process[b].todo : j \in Indexed
                BY <4>3, <4>4 DEF Indexed
            <4>6. k \notin Indexed
                BY <1>2, <1>7, <4>1
            <4> QED
                BY <2>3, <4>2, <4>3, <4>4, <4>5, <4>6
        <3> QED
            BY <3>1, <3>2
    <2>9. IndexTypeOK'
        BY <1>3, <1>6, <2>3 DEF SyncInv, IndexTypeOK
    <2> QED
        BY <2>3, <2>5, <2>6, <2>7, <2>8, <2>9, LoudStep
<1> QED
    BY <1>9, <1>10

(* Recording the manifest keeps it: the rows of a call that was alone are  *)
(* all written.                                                            *)
LEMMA RecordManifestKeeps ==
    ASSUME SyncInv, NEW c \in Processes, RecordManifest(c)
    PROVE  SyncInv'
<1> DEFINE next == [process[c] EXCEPT !.at = "PASS"]
<1>1. /\ process[c].at = "upsert" /\ process[c] \in Calling /\ process[c] # NotCalled
      /\ Wanted(c) \in SUBSET Chunks /\ process[c].todo = {}
      /\ Config(c) # "NONE" /\ process[c].version \in Versions
    <2>1. process[c].at = "upsert" /\ process[c] \in Calling /\ process[c] # NotCalled
        BY CallTypes DEF RecordManifest, SyncInv, Stations
    <2> QED
        BY <2>1, CallFields DEF RecordManifest, SyncInv
<1>2. /\ MoveWriting(c, next) /\ manifest' = process[c].version
      /\ UNCHANGED <<row, deletion, meddling, failures>>
      /\ Alone(c) => loose' = loose \ Wanted(c)
      /\ ~Alone(c) => loose' = loose
    BY <1>1 DEF RecordManifest, Wanted, Alone
<1> HIDE DEF next
<1>3. /\ next \in Calling /\ next.at = "PASS" /\ next.version = process[c].version
      /\ next.alone = process[c].alone /\ next # NotCalled
    <2>1. "PASS" \in Stations
        BY DEF Stations
    <2> QED
        BY <1>1, <2>1, GoesTo DEF next
<1>4. /\ process'[c] = next /\ process' \in [Processes -> ProcessStates]
      /\ \A b \in Processes \ {c} : Same(b) /\ ~Alone(b)'
    BY <1>2, <1>3, MoveWritingTypes DEF SyncInv
<1>5. /\ Wanted(c)' = Wanted(c) /\ Config(c)' = Config(c) /\ Alone(c)' = Alone(c)
      /\ Indexed' = Indexed /\ Wanted(c) = chunksOf[manifest'] /\ Config(c) = configOf[manifest']
    BY <1>1, <1>2, <1>3, <1>4 DEF Wanted, Config, Alone, Indexed
<1>6. IndexTypeOK'
    BY <1>1, <1>2, <1>4 DEF SyncInv, IndexTypeOK
<1>7. Alone(c) => Indexed = Wanted(c) /\ \A k \in Indexed : row[k] = Config(c)
    BY <1>1 DEF SyncInv, FoundHolds
<1>8. FoundHolds(c)'
    BY <1>2, <1>3, <1>4, <1>5, <1>7 DEF FoundHolds
<1>9. ManifestHolds'
    <2>1. \A k \in Wanted(c) : row[k] \in {Config(c), "NONE"} \/ k \in loose
        BY <1>1 DEF SyncInv, UpsertsHold
    <2>2. \A k \in Wanted(c) \ loose' : row[k] \in {Config(c), "NONE"}
        BY <1>2, <1>7, <2>1
    <2> QED
        BY <1>2, <1>5, <2>2 DEF ManifestHolds
<1>10. \A b \in Processes : UpsertsHold(b)'
    <2> TAKE b \in Processes
    <2>1. CASE b = c
        BY <1>3, <1>4, <2>1 DEF UpsertsHold
    <2>2. CASE b # c
        <3>1. SUFFICES ASSUME process'[b].at = "upsert"
                       PROVE  UpsertsHold(b)'
            BY DEF UpsertsHold
        <3>2. /\ process[b] # NotCalled /\ process[b].at = "upsert" /\ Wanted(b)' = Wanted(b)
              /\ Config(b)' = Config(b) /\ process'[b].todo = process[b].todo
            BY <1>4, <2>2, <3>1 DEF Same, NotCalled, Wanted, Config
        <3>3. /\ process[b].todo \subseteq Wanted(b)
              /\ \A k \in Wanted(b) \ process[b].todo : row[k] \in {Config(b), "NONE"} \/ k \in loose
            BY <3>2 DEF SyncInv, UpsertsHold
        <3>4. CASE Alone(c)
            <4>1. \A k \in Wanted(b) \ process[b].todo : row[k] = Config(b)
                BY <1>1, <2>2, <3>2, <3>4 DEF SyncInv, NothingRewritten
            <4> QED
                BY <1>2, <3>2, <3>3, <4>1 DEF UpsertsHold
        <3>5. CASE ~Alone(c)
            BY <1>2, <3>2, <3>3, <3>5 DEF UpsertsHold
        <3> QED
            BY <3>4, <3>5
    <2> QED
        BY <2>1, <2>2
<1>11. \A b \in Processes \ {c} : NothingWritten(b, c)' /\ NothingRewritten(b, c)'
    BY <1>3, <1>4 DEF NothingWritten, NothingRewritten
<1> QED
    BY <1>4, <1>6, <1>8, <1>9, <1>10, <1>11, LoudStep

(* A failure at any step keeps it.                                         *)
LEMMA ProcessFailsKeeps ==
    ASSUME SyncInv, NEW c \in Processes, ProcessFails(c)
    PROVE  SyncInv'
<1>1. /\ row' = row /\ manifest' = manifest /\ loose' = loose
      /\ Move(c, NotCalled) /\ failures' \in 0..MaxFailures
      /\ UNCHANGED <<deletion, meddling>>
    BY IndexBoundsAssumption DEF ProcessFails, SyncInv, IndexTypeOK
<1>2. /\ process' \in [Processes -> ProcessStates] /\ process'[c] = NotCalled
      /\ \A b \in Processes \ {c} : process'[b] = process[b]
    BY <1>1, MoveTypes DEF SyncInv
<1>3. IndexTypeOK'
    BY <1>1, <1>2 DEF SyncInv, IndexTypeOK
<1>4. NotCalled' = NotCalled /\ process'[c].at = "idle" /\ ~Alone(c)'
    BY <1>2 DEF NotCalled, Alone
<1>5. FoundHolds(c)' /\ UpsertsHold(c)'
    BY <1>4 DEF FoundHolds, UpsertsHold
<1>6. \A d \in Processes \ {c} : /\ NothingWritten(c, d)' /\ NothingRewritten(c, d)'
                                 /\ NothingWritten(d, c)' /\ NothingRewritten(d, c)'
    BY <1>4 DEF NothingWritten, NothingRewritten
<1> QED
    BY <1>1, <1>2, <1>3, <1>5, <1>6, QuietStep

(* A step that leaves the two tables and the calls keeps it.               *)
LEMMA SameTables ==
    ASSUME SyncInv, IndexTypeOK', UNCHANGED <<row, manifest, process, loose>>
    PROVE  SyncInv'
<1>1. \A c \in Processes : FoundHolds(c)' /\ UpsertsHold(c)'
    BY DEF SyncInv, FoundHolds, UpsertsHold, Alone, Indexed, Wanted, Config
<1>2. \A c, d \in Processes : c # d => NothingWritten(c, d)' /\ NothingRewritten(c, d)'
    BY DEF SyncInv, NothingWritten, NothingRewritten, Alone, Indexed, Wanted, Config
<1>3. ManifestHolds'
    BY DEF SyncInv, ManifestHolds
<1> QED
    BY <1>1, <1>2, <1>3 DEF SyncInv

(* The steps that delete the source keep it.                               *)
LEMMA DeletionKeeps ==
    ASSUME SyncInv, BeginDeletion \/ DeleteSource \/ DeleteManifest \/ DeletionFails
    PROVE  SyncInv'
<1>1. CASE BeginDeletion \/ DeletionFails
    <2>1. IndexTypeOK'
        BY <1>1, IndexBoundsAssumption, RowTypes
           DEF SyncInv, IndexTypeOK, BeginDeletion, DeletionFails, Meddle
    <2> QED
        BY <1>1, <2>1, SameTables DEF BeginDeletion, DeletionFails
<1>2. CASE DeleteSource
    <2> DEFINE ids == deletion.ids
    <2>1. /\ ids \in SUBSET Chunks /\ row' = Cleared(ids) /\ loose' = loose \ ids
          /\ deletion' = [at |-> "manifest"] /\ UNCHANGED <<manifest, meddling, failures>>
          /\ ids = {} => process' = process
          /\ ids # {} => Disturb
        BY <1>2 DEF DeleteSource, SyncInv, IndexTypeOK
    <2> HIDE DEF ids
    <2>2. /\ row' \in [Chunks -> {configOf[v] : v \in Versions} \cup {Foreign, "NONE"}]
          /\ loose' \subseteq Chunks /\ ManifestHolds'
          /\ \A b \in Processes : Same(b) => UpsertsHold(b)'
        BY <2>1, ClearingKeeps
    <2>3. CASE ids = {}
        <3>1. row' = row /\ loose' = loose /\ process' = process
            BY <2>1, <2>3, RowTypes DEF SyncInv, Cleared
        <3>2. IndexTypeOK'
            BY <2>1, <3>1 DEF SyncInv, IndexTypeOK
        <3> QED
            BY <2>1, <3>1, <3>2, SameTables
    <2>4. CASE ids # {}
        <3>1. /\ process' \in [Processes -> ProcessStates]
              /\ \A b \in Processes : Same(b) /\ ~Alone(b)'
            BY <2>1, <2>4, DisturbTypes DEF SyncInv
        <3>2. IndexTypeOK'
            BY <2>1, <2>2, <3>1 DEF SyncInv, IndexTypeOK
        <3> QED
            BY <2>2, <3>1, <3>2, LoudOther
    <2> QED
        BY <2>3, <2>4
<1>3. CASE DeleteManifest
    <2>1. /\ manifest' = "NONE" /\ deletion' = [at |-> "idle"] /\ Disturb
          /\ UNCHANGED <<row, loose, meddling, failures>>
        BY <1>3 DEF DeleteManifest
    <2>2. /\ process' \in [Processes -> ProcessStates]
          /\ \A b \in Processes : Same(b) /\ ~Alone(b)'
        BY <2>1, DisturbTypes DEF SyncInv
    <2>3. IndexTypeOK'
        BY <2>1, <2>2 DEF SyncInv, IndexTypeOK
    <2>4. ManifestHolds'
        BY <2>1 DEF ManifestHolds
    <2>5. \A b \in Processes : UpsertsHold(b)'
        <3> SUFFICES ASSUME NEW b \in Processes, process'[b].at = "upsert"
                     PROVE  UpsertsHold(b)'
            BY DEF UpsertsHold
        <3>1. /\ process[b] # NotCalled /\ process[b].at = "upsert" /\ Wanted(b)' = Wanted(b)
              /\ Config(b)' = Config(b) /\ process'[b].todo = process[b].todo
            BY <2>2 DEF Same, NotCalled, Wanted, Config
        <3> QED
            BY <2>1, <3>1 DEF SyncInv, UpsertsHold
    <2> QED
        BY <2>2, <2>3, <2>4, <2>5, LoudOther
<1> QED
    BY <1>1, <1>2, <1>3

(* A single upsert (api/competitive.py) keeps it.                          *)
LEMMA UpsertByHandKeeps ==
    ASSUME SyncInv, NEW k \in Chunks, UpsertByHand(k)
    PROVE  SyncInv'
<1>1. /\ row' = [row EXCEPT ![k] = Foreign] /\ loose' = loose \cup {k} /\ Disturb
      /\ meddling' \in 0..MaxMeddling /\ UNCHANGED <<manifest, deletion, failures>>
    BY IndexBoundsAssumption DEF UpsertByHand, Meddle, SyncInv, IndexTypeOK
<1>2. /\ row' \in [Chunks -> {configOf[v] : v \in Versions} \cup {Foreign, "NONE"}]
      /\ loose' \subseteq Chunks /\ ManifestHolds'
      /\ \A b \in Processes : Same(b) => UpsertsHold(b)'
    BY <1>1, WritingKeeps
<1>3. /\ process' \in [Processes -> ProcessStates]
      /\ \A b \in Processes : Same(b) /\ ~Alone(b)'
    BY <1>1, DisturbTypes DEF SyncInv
<1>4. IndexTypeOK'
    BY <1>1, <1>2, <1>3 DEF SyncInv, IndexTypeOK
<1> QED
    BY <1>2, <1>3, <1>4, LoudOther

(* It holds of an empty index.                                             *)
LEMMA IndexInitially ==
    ASSUME IndexInit
    PROVE  SyncInv
<1>1. IndexTypeOK
    BY IndexBoundsAssumption DEF IndexInit, IndexTypeOK, ProcessStates
<1>2. \A c \in Processes : process[c].at = "idle" /\ ~Alone(c)
    BY DEF IndexInit, NotCalled, Alone
<1>3. ManifestHolds
    BY DEF IndexInit, ManifestHolds
<1> QED
    BY <1>1, <1>2, <1>3 DEF SyncInv, FoundHolds, UpsertsHold, NothingWritten, NothingRewritten

(* The inductive invariant of the index holds in every state, for any      *)
(* number of calls, versions and chunks.                                   *)
THEOREM SyncInvariant == IndexSpec => []SyncInv
<1>1. IndexInit => SyncInv
    BY IndexInitially
<1>2. SyncInv /\ [IndexNext]_indexVars => SyncInv'
    <2> SUFFICES ASSUME SyncInv, [IndexNext]_indexVars
                 PROVE  SyncInv'
        OBVIOUS
    <2>1. CASE \E c \in Processes :
                  \/ BeginProcess(c) \/ ReadManifest(c) \/ CompareChunks(c) \/ FindRows(c)
                  \/ DeleteRows(c) \/ UpsertChunk(c) \/ RecordManifest(c) \/ ProcessFails(c)
        BY <2>1, BeginProcessKeeps, ReadManifestKeeps, CompareChunksKeeps, FindRowsKeeps,
           DeleteRowsKeeps, UpsertChunkKeeps, RecordManifestKeeps, ProcessFailsKeeps
    <2>2. CASE BeginDeletion \/ DeleteSource \/ DeleteManifest \/ DeletionFails
        BY <2>2, DeletionKeeps
    <2>3. CASE \E k \in Chunks : UpsertByHand(k)
        BY <2>3, UpsertByHandKeeps
    <2>4. CASE UNCHANGED indexVars
        <3>1. IndexTypeOK'
            BY <2>4 DEF indexVars, SyncInv, IndexTypeOK
        <3> QED
            BY <2>4, <3>1, SameTables DEF indexVars
    <2> QED
        BY <2>1, <2>2, <2>3, <2>4 DEF IndexNext
<1> QED
    BY <1>1, <1>2, PTL DEF IndexSpec

(* A document that process (knowledge/pipeline.py) has just reported as    *)
(* synchronized, or as unchanged, is in the index as it should be, with    *)
(* the exception that SyncedIsIndexed names.                               *)
THEOREM ReportedSyncsHold == IndexSpec => []SyncedIsIndexed
<1>1. SyncInv => SyncedIsIndexed
    <2> SUFFICES ASSUME SyncInv, NEW c \in Processes, process[c].at \in {"NOOP", "PASS"},
                        process[c].alone
                 PROVE  /\ Indexed = chunksOf[process[c].version]
                        /\ \A k \in Indexed \ loose : row[k] = configOf[process[c].version]
        BY DEF SyncedIsIndexed
    <2>1. Alone(c)
        BY DEF Alone, NotCalled
    <2> QED
        BY <2>1 DEF SyncInv, FoundHolds, Wanted, Config
<1> QED
    BY <1>1, SyncInvariant, PTL

-----------------------------------------------------------------------------
(***************************************************************************)
(* The memories, the settings and the training of memory/store.py.         *)
(***************************************************************************)

(* A row of the memory table.                                              *)
StoredRows == [fact : Facts, until : Nat]

(* What the calls of the two stores hold, by what they are about to do: a  *)
(* save that looks for its fact or inserts it,                             *)
Looking == [at : {"look", "insert"}, table : {"memories"}, fact : Facts, until : Nat]

(* a save that renews the row it has found,                                *)
Renewing == [at : {"renew"}, table : {"memories"}, fact : Facts, until : Nat,
             id : MemoryCalls, found : Nat]

(* an update of a row it has read,                                         *)
Rewriting == [at : {"rewrite"}, table : {"memories"}, id : MemoryCalls, fact : Facts,
              until : Nat]

(* a change of the settings it has read,                                   *)
Configuring == [at : {"configure"}, table : {"settings"}, asked : {"unset", "on", "off"},
                current : BOOLEAN]

(* a save of training entries, with the names still to come,               *)
Learning == [at : {"seek", "count", "update", "insert"}, table : {"training"},
             names : Seq(Lessons) \ {<<>>}]

(* and the removal of an entry it has found.                               *)
Deleting == [at : {"delete"}, table : {"training"}, id : MemoryCalls \X Lessons]

(* A call's record.                                                        *)
MemCalls == {Unused, Done} \cup Looking \cup Renewing \cup Rewriting \cup Configuring
              \cup Learning \cup Deleting

(* What a save has answered.                                               *)
SavedWords == [by : MemoryCalls, says : {"saved"}, until : Nat, kept : BOOLEAN]

(* What a save or a deletion of a lesson has answered.                     *)
LessonWords == {NoWord} \cup [by : MemoryCalls, says : {"there", "gone"}]

(* The types of the two stores, without a bound on the clock.              *)
MemTypes ==
    /\ memory \in [MemoryCalls -> StoredRows \cup {NoMemory}]
    /\ training \subseteq MemoryCalls \X Lessons
    /\ IsFiniteSet(training)
    /\ enabled \in BOOLEAN
    /\ memoryClock \in Nat
    /\ memCall \in [MemoryCalls -> MemCalls]
    /\ off \in BOOLEAN
    /\ blurred \in BOOLEAN
    /\ said \in [Facts -> {NoWord} \cup SavedWords]
    /\ answer \in [Lessons -> LessonWords]

(* Two calls under way on one table have overlapped.                       *)
Together ==
    \A c, d \in MemoryCalls :
        c # d /\ memCall[c].table = memCall[d].table /\ memCall[c].table # "none"
            => {c, d} \in paired

(* The steps of one call.                                                  *)
CallStep(c) ==
    \/ SaveMemory(c) \/ LookMemory(c) \/ InsertMemory(c) \/ RenewMemory(c)
    \/ ReadMemory(c) \/ RewriteMemory(c) \/ RemoveMemories(c)
    \/ ReadSettings(c) \/ WriteSettings(c)
    \/ SaveEntry(c) \/ ImportMarkdown(c) \/ SeekEntry(c) \/ UpdateEntry(c)
    \/ CountEntries(c) \/ InsertEntry(c) \/ SkipEntry(c)
    \/ FindEntry(c) \/ DeleteEntry(c) \/ Breaks(c)

(* Where a call stands says what it holds.                                 *)
LEMMA KindsOfCall ==
    ASSUME NEW x \in MemCalls
    PROVE  /\ x.at = "look" => x \in Looking
           /\ x.at = "insert" /\ x.table = "memories" => x \in Looking
           /\ x.at = "insert" /\ x.table = "training" => x \in Learning
           /\ x.at \in {"seek", "count", "update"} => x \in Learning
           /\ x.at = "renew" => x \in Renewing
           /\ x.at = "rewrite" => x \in Rewriting
           /\ x.at = "configure" => x \in Configuring
           /\ x.at = "delete" => x \in Deleting
           /\ x.table = "none" => x \in {Unused, Done}
<1>1. CASE x \in {Unused, Done} BY <1>1 DEF Unused, Done
<1>2. CASE x \in Looking BY <1>2 DEF Looking
<1>3. CASE x \in Renewing BY <1>3 DEF Renewing
<1>4. CASE x \in Rewriting BY <1>4 DEF Rewriting
<1>5. CASE x \in Configuring BY <1>5 DEF Configuring
<1>6. CASE x \in Learning BY <1>6 DEF Learning
<1>7. CASE x \in Deleting BY <1>7 DEF Deleting
<1> QED BY <1>1, <1>2, <1>3, <1>4, <1>5, <1>6, <1>7 DEF MemCalls

(* What each kind of call holds.                                           *)
LEMMA FieldsOfCall ==
    /\ \A x \in Looking : x.at \in {"look", "insert"} /\ x.table = "memories" /\ x.fact \in Facts /\ x.until \in Nat
    /\ \A x \in Renewing : x.at = "renew" /\ x.table = "memories" /\ x.fact \in Facts /\ x.until \in Nat
                           /\ x.id \in MemoryCalls /\ x.found \in Nat
    /\ \A x \in Rewriting : x.at = "rewrite" /\ x.table = "memories" /\ x.fact \in Facts /\ x.until \in Nat
                            /\ x.id \in MemoryCalls
    /\ \A x \in Configuring : x.at = "configure" /\ x.table = "settings" /\ x.asked \in {"unset", "on", "off"}
                              /\ x.current \in BOOLEAN
    /\ \A x \in Learning : x.at \in {"seek", "count", "update", "insert"} /\ x.table = "training" 
                            /\ x.names \in Seq(Lessons) /\ x.names # <<>>
    /\ \A x \in Deleting : x.at = "delete" /\ x.table = "training" /\ x.id \in MemoryCalls \X Lessons
    /\ Unused.at = "idle" /\ Unused.table = "none"
    /\ Done.at = "done" /\ Done.table = "none" /\ Unused # Done
BY DEF Looking, Renewing, Rewriting, Configuring, Learning, Deleting, Unused, Done

(* The calls the steps build are of those kinds.                           *)
LEMMA MadeCalls ==
    /\ \A f \in Facts, u \in Nat : [at |-> "look", table |-> "memories", fact |-> f, until |-> u] \in Looking
    /\ \A x \in Looking : /\ [x EXCEPT !.at = "insert"] \in Looking
                          /\ [x EXCEPT !.at = "insert"].at = "insert"
                          /\ [x EXCEPT !.at = "insert"].table = "memories"
    /\ \A x \in Learning : /\ [x EXCEPT !.at = "insert"] \in Learning
                           /\ [x EXCEPT !.at = "insert"].at = "insert"
                           /\ [x EXCEPT !.at = "insert"].table = "training"
                           /\ [x EXCEPT !.at = "insert"].names = x.names
    /\ \A f \in Facts, u, v \in Nat, d \in MemoryCalls :
          [at |-> "renew", table |-> "memories", fact |-> f, until |-> u, id |-> d, found |-> v] \in Renewing
    /\ \A f \in Facts, u \in Nat, d \in MemoryCalls :
          [at |-> "rewrite", table |-> "memories", id |-> d, fact |-> f, until |-> u] \in Rewriting
    /\ \A a \in {"unset", "on", "off"}, e \in BOOLEAN :
          [at |-> "configure", table |-> "settings", asked |-> a, current |-> e] \in Configuring
    /\ \A a \in {"seek", "count", "update"}, s \in Seq(Lessons) \ {<<>>} :
          [at |-> a, table |-> "training", names |-> s] \in Learning
    /\ \A r \in MemoryCalls \X Lessons : [at |-> "delete", table |-> "training", id |-> r] \in Deleting
BY DEF Looking, Renewing, Rewriting, Configuring, Learning, Deleting

(* The lessons of an import, one by one.                                   *)
LEMMA SomeNames ==
    /\ \A n \in Lessons : <<n>> \in Seq(Lessons) \ {<<>>} /\ Head(<<n>>) = n
    /\ \A s \in Seq(Lessons) \ {<<>>} : 
          /\ Head(s) \in Lessons
          /\ Len(s) \in Nat \ {0}
          /\ Len(s) # 1 => Tail(s) \in Seq(Lessons) \ {<<>>}
    /\ \A s \in Seq(Lessons), k \in Nat \ {0} : k <= Len(s) => SubSeq(s, 1, k) \in Seq(Lessons) \ {<<>>}
<1>1. ASSUME NEW s \in Seq(Lessons), NEW k \in Nat \ {0}, k <= Len(s)
      PROVE  SubSeq(s, 1, k) \in Seq(Lessons) \ {<<>>}
  <2>1. SubSeq(s, 1, k) \in Seq(Lessons) /\ Len(SubSeq(s, 1, k)) = k BY <1>1
  <2>. QED BY <2>1
<1>2. ASSUME NEW s \in Seq(Lessons) \ {<<>>}
      PROVE  /\ Head(s) \in Lessons
             /\ Len(s) \in Nat \ {0}
             /\ Len(s) # 1 => Tail(s) \in Seq(Lessons) \ {<<>>}
  <2>1. Len(s) \in Nat \ {0} OBVIOUS
  <2>2. Tail(s) \in Seq(Lessons) /\ Len(Tail(s)) = Len(s) - 1 BY <2>1
  <2>3. ASSUME Len(s) # 1 PROVE Tail(s) # <<>>
    <3> PICK t \in Seq(Lessons) : t = Tail(s) BY <2>2
    <3>1. Len(t) # 0 BY <2>1, <2>2, <2>3
    <3>2. t # <<>> BY <3>1
    <3>. QED BY <3>2
  <2>4. Head(s) \in Lessons OBVIOUS
  <2>. QED BY <2>1, <2>2, <2>3, <2>4
<1>3. ASSUME NEW n \in Lessons
      PROVE  <<n>> \in Seq(Lessons) \ {<<>>} /\ Head(<<n>>) = n
  <2>1. <<n>> \in Seq(Lessons) OBVIOUS
  <2>2. Len(<<n>>) = 1 /\ Head(<<n>>) = n OBVIOUS
  <2>3. <<n>> # <<>> BY <2>2
  <2>. QED BY <2>1, <2>2, <2>3
<1>. QED BY <1>1, <1>2, <1>3

(* The bound of the clock, which stands for no expiry, is a number.        *)
LEMMA NeverIsNat == Never \in Nat /\ \A t \in Nat : t + 1 \in Nat
BY MemoryAssumption DEF Never

(* A renewed expiry is a number.                                           *)
LEMMA Renewed ==
    ASSUME NEW u \in Nat, NEW v \in Nat
    PROVE  RenewedUntil(u, v) \in Nat
BY DEF RenewedUntil

(* What a call knows when it comes to the next statement. *)
Reasons(c, y) ==
    /\ y.at = "renew" => memory' = memory /\ y.id \in Alike(y.fact)
    /\ y.at = "count" => training' = training /\ Named(Head(y.names)) = {}
    /\ y.at = "update" => training' = training /\ Named(Head(y.names)) # {}
    /\ y.at = "insert" /\ y.table = "training" =>
          training' = training /\ HasRoom /\ memCall[c].at = "count" /\ y.names = memCall[c].names
    /\ y.at = "delete" => training' = training /\ y.id \in training

(* What every step of a call does to memCall and paired. *)
Shape(c) ==
    /\ paired \subseteq paired'
    /\ \E y \in MemCalls :
          /\ Goes(c, y)
          /\ \/ y.table = "none"
             \/ y.table = memCall[c].table
             \/ memCall[c] = Unused /\ \A d \in Engaged(y.table) : {c, d} \in paired'
          /\ Reasons(c, y)

(* An import goes on to its next section or is over.                       *)
LEMMA OnwardGoes ==
    ASSUME MemTypes, NEW c \in MemoryCalls, memCall[c] \in Learning, Onward(c)
    PROVE  \E y \in MemCalls : /\ Goes(c, y)
                               /\ \/ y.table = "none" /\ y.at = "done"
                                  \/ y.table = "training" /\ y.at = "seek"
<1> PICK x \in Learning : x = memCall[c] OBVIOUS
<1> PICK s \in Seq(Lessons) \ {<<>>} : s = x.names BY FieldsOfCall
<1>1. CASE Len(s) = 1
  BY <1>1, FieldsOfCall DEF Onward, MemCalls
<1>2. CASE Len(s) # 1
  <2>1. Tail(s) \in Seq(Lessons) \ {<<>>} BY <1>2, SomeNames
  <2> PICK t \in Seq(Lessons) \ {<<>>} : t = Tail(s) BY <2>1
  <2> DEFINE y == [at |-> "seek", table |-> "training", names |-> t]
  <2>2. y \in Learning /\ y.table = "training" /\ y.at = "seek" BY MadeCalls
  <2>3. Goes(c, y) BY <1>2 DEF Onward
  <2>. HIDE DEF y
  <2>. QED BY <2>2, <2>3 DEF MemCalls
<1>. QED BY <1>1, <1>2

(* A save that has looked for the name counts or updates.                  *)
LEMMA LooksGoes ==
    ASSUME MemTypes, NEW c \in MemoryCalls, NEW s \in Seq(Lessons) \ {<<>>}, Looks(c, s)
    PROVE  \E y \in Learning : /\ Goes(c, y) /\ y.at \in {"count", "update"} /\ y.names = s
                               /\ y.at = "count" => Named(Head(s)) = {}
                               /\ y.at = "update" => Named(Head(s)) # {}
<1>1. CASE Named(Head(s)) = {} /\ Goes(c, [at |-> "count", table |-> "training", names |-> s])
  BY <1>1, MadeCalls
<1>2. CASE Named(Head(s)) # {} /\ Goes(c, [at |-> "update", table |-> "training", names |-> s])
  BY <1>2, MadeCalls
<1>. QED BY <1>1, <1>2 DEF Looks

(* Every step moves one call, which pairs it with those under way on its   *)
(* table.                                                                  *)
LEMMA ShapeOfSteps ==
    ASSUME MemTypes, NEW c \in MemoryCalls, CallStep(c)
    PROVE  Shape(c)
<1> memCall[c] \in MemCalls BY DEF MemTypes
<1> Done \in MemCalls /\ Done.table = "none" /\ Done.at = "done" BY FieldsOfCall DEF MemCalls
<1>0. ASSUME NEW t, BeginCall(c, t)
      PROVE  /\ memCall[c] = Unused 
             /\ paired \subseteq paired' 
             /\ \A d \in Engaged(t) : {c, d} \in paired'
  BY <1>0 DEF BeginCall
<1>1. CASE SaveMemory(c)
  <2> PICK f \in Facts, u \in {memoryClock + 1, Never} :
          Goes(c, IF enabled
                  THEN [at |-> "look", table |-> "memories", fact |-> f, until |-> u]
                  ELSE Done)
    BY <1>1 DEF SaveMemory
  <2> u \in Nat BY NeverIsNat DEF MemTypes
  <2> DEFINE y == [at |-> "look", table |-> "memories", fact |-> f, until |-> u]
  <2>1. y \in Looking BY MadeCalls
  <2>2. BeginCall(c, "memories") BY <1>1 DEF SaveMemory
  <2>3. Goes(c, y) \/ Goes(c, Done) OBVIOUS
  <2>. HIDE DEF y
  <2>. QED BY <2>1, <2>2, <2>3, <1>0, FieldsOfCall DEF Shape, Reasons, MemCalls
<1>2. CASE LookMemory(c)
  <2>1. memCall[c] \in Looking BY <1>2, KindsOfCall DEF LookMemory
  <2>2. paired' = paired BY <1>2 DEF LookMemory
  <2>3. CASE Goes(c, [memCall[c] EXCEPT !.at = "insert"])
    BY <2>1, <2>2, <2>3, MadeCalls, FieldsOfCall DEF Shape, Reasons, MemCalls
  <2>4. CASE \E d \in Alike(memCall[c].fact) :
               Goes(c, [at |-> "renew", table |-> "memories", fact |-> memCall[c].fact,
                      until |-> memCall[c].until, id |-> d, found |-> memory[d].until])
    <3> PICK d \in Alike(memCall[c].fact) :
               Goes(c, [at |-> "renew", table |-> "memories", fact |-> memCall[c].fact,
                      until |-> memCall[c].until, id |-> d, found |-> memory[d].until])
      BY <2>4
    <3> d \in MemoryCalls BY DEF Alike
    <3> PICK f \in Facts : f = memCall[c].fact BY <2>1, FieldsOfCall
    <3> PICK u \in Nat : u = memCall[c].until BY <2>1, FieldsOfCall
    <3>1. memory[d].until \in Nat BY DEF MemTypes, StoredRows, NoMemory
    <3> PICK v \in Nat : v = memory[d].until BY <3>1
    <3> DEFINE y == [at |-> "renew", table |-> "memories", fact |-> f, until |-> u, id |-> d, found |-> v]
    <3>2. y \in Renewing BY MadeCalls
    <3>3. Goes(c, y) OBVIOUS
    <3>4. memory' = memory BY <1>2 DEF LookMemory, tables
    <3>5. y.id \in Alike(y.fact) OBVIOUS
    <3>. HIDE DEF y
    <3>. QED BY <3>2, <3>3, <3>4, <3>5, <2>1, <2>2, FieldsOfCall DEF Shape, Reasons, MemCalls
  <2>. QED BY <1>2, <2>3, <2>4 DEF LookMemory
<1>3. CASE InsertMemory(c) \/ RenewMemory(c) \/ RewriteMemory(c) \/ WriteSettings(c)
           \/ DeleteEntry(c) \/ Breaks(c)
  <2>1. Goes(c, Done) /\ paired' = paired
    BY <1>3 DEF InsertMemory, RenewMemory, RewriteMemory, WriteSettings, DeleteEntry, Breaks
  <2>. QED BY <2>1 DEF Shape, Reasons
<1>4. CASE ReadMemory(c)
  <2> PICK id \in MemoryCalls, u \in {memoryClock + 1, Never}, f \in Facts :
          Goes(c, [at |-> "rewrite", table |-> "memories", id |-> id, fact |-> f,
                         until |-> RenewedUntil(u, memory[id].until)])
    BY <1>4 DEF ReadMemory
  <2> u \in Nat BY NeverIsNat DEF MemTypes
  <2>1. memory[id].until \in Nat BY DEF MemTypes, StoredRows, NoMemory
  <2> PICK v \in Nat : v = RenewedUntil(u, memory[id].until) BY <2>1, Renewed
  <2> DEFINE y == [at |-> "rewrite", table |-> "memories", id |-> id, fact |-> f, until |-> v]
  <2>2. y \in Rewriting BY MadeCalls
  <2>3. Goes(c, y) OBVIOUS
  <2>4. BeginCall(c, "memories") BY <1>4 DEF ReadMemory
  <2>. HIDE DEF y
  <2>. QED BY <2>2, <2>3, <2>4, <1>0, FieldsOfCall DEF Shape, Reasons, MemCalls
<1>5. CASE RemoveMemories(c)
  BY <1>5, <1>0 DEF RemoveMemories, Shape, Reasons
<1>6. CASE ReadSettings(c)
  <2> PICK a \in {"unset", "on", "off"} :
          Goes(c, [at |-> "configure", table |-> "settings", asked |-> a, current |-> enabled])
    BY <1>6 DEF ReadSettings
  <2> PICK e \in BOOLEAN : e = enabled BY DEF MemTypes
  <2> DEFINE y == [at |-> "configure", table |-> "settings", asked |-> a, current |-> e]
  <2>2. y \in Configuring BY MadeCalls
  <2>3. Goes(c, y) OBVIOUS
  <2>4. BeginCall(c, "settings") BY <1>6 DEF ReadSettings
  <2>. HIDE DEF y
  <2>. QED BY <2>2, <2>3, <2>4, <1>0, FieldsOfCall DEF Shape, Reasons, MemCalls
<1>7. CASE SaveEntry(c)
  <2> PICK n \in Lessons : Looks(c, <<n>>) BY <1>7 DEF SaveEntry
  <2>1. <<n>> \in Seq(Lessons) \ {<<>>} BY SomeNames
  <2>2. training' = training BY <1>7 DEF SaveEntry, tables
  <2> PICK y \in Learning : /\ Goes(c, y) /\ y.at \in {"count", "update"} /\ y.names = <<n>>
                            /\ y.at = "count" => Named(Head(<<n>>)) = {}
                            /\ y.at = "update" => Named(Head(<<n>>)) # {}
    BY <2>1, LooksGoes
  <2>4. BeginCall(c, "training") BY <1>7 DEF SaveEntry
  <2>. QED BY <2>2, <2>4, <1>0, FieldsOfCall DEF Shape, Reasons, MemCalls
<1>8. CASE ImportMarkdown(c)
  <2>4. BeginCall(c, "training") BY <1>8 DEF ImportMarkdown
  <2> PICK s \in Seq(Lessons) \ {<<>>} : 
          Goes(c, [at |-> "seek", table |-> "training", names |-> s])
    <3> PICK file \in Files :
          LET room == MaxPerKind - Cardinality(training)
              some == SubSeq(file, 1, IF Len(file) < room THEN Len(file) ELSE room)
          IN  room > 0 /\ Goes(c, [at |-> "seek", table |-> "training", names |-> some])
      BY <1>8 DEF ImportMarkdown
    <3> DEFINE room == MaxPerKind - Cardinality(training)
               k == IF Len(file) < room THEN Len(file) ELSE room
    <3>1. file \in Seq(Lessons) /\ file # <<>> BY MemoryAssumption
    <3>2. room > 0 OBVIOUS
    <3>3. k \in Nat \ {0} /\ k <= Len(file) 
      <4>1. Len(file) \in Nat \ {0} BY <3>1
      <4>2. room \in Nat \ {0}
        <5>1. Cardinality(training) \in Nat BY FS_CardinalityType DEF MemTypes
        <5>. QED BY <5>1, <3>2, MemoryAssumption
      <4>. QED BY <4>1, <4>2
    <3>4. SubSeq(file, 1, k) \in Seq(Lessons) \ {<<>>} BY <3>1, <3>3, SomeNames
    <3>5. Goes(c, [at |-> "seek", table |-> "training", names |-> SubSeq(file, 1, k)]) OBVIOUS
    <3>. QED BY <3>4, <3>5
  <2> DEFINE y == [at |-> "seek", table |-> "training", names |-> s]
  <2>2. y \in Learning BY MadeCalls
  <2>3. Goes(c, y) /\ y.at = "seek" OBVIOUS
  <2>. HIDE DEF y
  <2>. QED BY <2>2, <2>3, <2>4, <1>0, FieldsOfCall DEF Shape, Reasons, MemCalls
<1>9. CASE SeekEntry(c)
  <2>1. memCall[c] \in Learning /\ paired' = paired BY <1>9, KindsOfCall DEF SeekEntry
  <2> PICK s \in Seq(Lessons) \ {<<>>} : s = memCall[c].names BY <2>1, FieldsOfCall
  <2>2. training' = training BY <1>9 DEF SeekEntry, tables
  <2> PICK y \in Learning : /\ Goes(c, y) /\ y.at \in {"count", "update"} /\ y.names = s
                            /\ y.at = "count" => Named(Head(s)) = {}
                            /\ y.at = "update" => Named(Head(s)) # {}
    BY <1>9, LooksGoes DEF SeekEntry
  <2>. QED BY <2>1, <2>2, FieldsOfCall DEF Shape, Reasons, MemCalls
<1>10. CASE UpdateEntry(c) \/ InsertEntry(c) \/ SkipEntry(c) \/ (CountEntries(c) /\ ~HasRoom)
  <2>1. memCall[c] \in Learning 
    BY <1>10, KindsOfCall DEF UpdateEntry, InsertEntry, SkipEntry, CountEntries
  <2>2. paired' = paired /\ Onward(c)
    BY <1>10 DEF UpdateEntry, InsertEntry, SkipEntry, CountEntries
  <2> PICK y \in MemCalls : /\ Goes(c, y)
                            /\ \/ y.table = "none" /\ y.at = "done"
                               \/ y.table = "training" /\ y.at = "seek"
    BY <2>1, <2>2, OnwardGoes
  <2>. QED BY <2>1, <2>2, FieldsOfCall DEF Shape, Reasons
<1>11. CASE CountEntries(c) /\ HasRoom
  <2>1. memCall[c] \in Learning /\ paired' = paired /\ memCall[c].at = "count" /\ training' = training
    BY <1>11, KindsOfCall DEF CountEntries, tables
  <2> PICK x \in Learning : x = memCall[c] BY <2>1
  <2> DEFINE y == [x EXCEPT !.at = "insert"]
  <2>2. Goes(c, y) BY <1>11 DEF CountEntries
  <2>3. y \in Learning /\ y.at = "insert" /\ y.table = "training" /\ y.names = x.names BY MadeCalls
  <2>. HIDE DEF y
  <2>. QED BY <2>1, <2>2, <2>3, <1>11, FieldsOfCall DEF Shape, Reasons, MemCalls
<1>12. CASE FindEntry(c)
  <2>1. BeginCall(c, "training") BY <1>12 DEF FindEntry
  <2>2. CASE Goes(c, Done) BY <2>1, <2>2, <1>0 DEF Shape, Reasons
  <2>3. CASE \E n \in Lessons : \E r \in Named(n) : Goes(c, [at |-> "delete", table |-> "training", id |-> r])
    <3> PICK n \in Lessons : \E r \in Named(n) : Goes(c, [at |-> "delete", table |-> "training", id |-> r])
      BY <2>3
    <3> PICK r \in Named(n) : Goes(c, [at |-> "delete", table |-> "training", id |-> r])
      OBVIOUS
    <3>1. r \in MemoryCalls \X Lessons BY DEF Named, MemTypes
    <3> DEFINE y == [at |-> "delete", table |-> "training", id |-> r]
    <3>2. y \in Deleting BY <3>1, MadeCalls
    <3>3. Goes(c, y) /\ y.id = r OBVIOUS
    <3>4. training' = training /\ r \in training BY <1>12 DEF FindEntry, tables, Named
    <3>. HIDE DEF y
    <3>. QED BY <3>2, <3>3, <3>4, <2>1, <1>0, FieldsOfCall DEF Shape, Reasons, MemCalls
  <2>. QED BY <1>12, <2>2, <2>3 DEF FindEntry
<1>. QED BY <1>1, <1>2, <1>3, <1>4, <1>5, <1>6, <1>7, <1>8, <1>9, <1>10, <1>11, <1>12 DEF CallStep

(* Every step keeps the overlaps known.                                    *)
LEMMA TogetherKept ==
    ASSUME MemTypes, Together, NEW c \in MemoryCalls, Shape(c)
    PROVE  Together'
<1> PICK y \in MemCalls :
          /\ Goes(c, y)
          /\ \/ y.table = "none"
             \/ y.table = memCall[c].table
             \/ memCall[c] = Unused /\ \A d \in Engaged(y.table) : {c, d} \in paired'
  BY DEF Shape
<1>1. paired \subseteq paired' BY DEF Shape
<1>2. memCall'[c] = y /\ \A d \in MemoryCalls : d # c => memCall'[d] = memCall[d]
  BY DEF Goes, MemTypes
<1>3. ASSUME NEW d \in MemoryCalls, d # c, memCall[d].table = y.table, y.table # "none"
      PROVE  {c, d} \in paired' /\ {d, c} \in paired'
  <2>1. {c, d} = {d, c} OBVIOUS
  <2>2. CASE y.table = memCall[c].table
    BY <2>2, <2>1, <1>1, <1>3 DEF Together
  <2>3. CASE \A e \in Engaged(y.table) : {c, e} \in paired'
    BY <2>3, <2>1, <1>3 DEF Engaged
  <2>. QED BY <2>2, <2>3, <1>3
<1>4. ASSUME NEW a \in MemoryCalls, NEW b \in MemoryCalls, a # b,
             memCall'[a].table = memCall'[b].table, memCall'[a].table # "none"
      PROVE  {a, b} \in paired'
  <2>1. CASE a = c BY <2>1, <1>2, <1>3, <1>4
  <2>2. CASE b = c BY <2>2, <1>2, <1>3, <1>4
  <2>3. CASE a # c /\ b # c BY <2>3, <1>1, <1>2, <1>4 DEF Together
  <2>. QED BY <2>1, <2>2, <2>3
<1>. QED BY <1>4 DEF Together

(* The rows the steps write.                                               *)
LEMMA RowsOfStore ==
    /\ \A f \in Facts, u \in Nat : /\ [fact |-> f, until |-> u] \in StoredRows
                                   /\ [fact |-> f, until |-> u].fact = f
                                   /\ [fact |-> f, until |-> u].until = u
    /\ \A r \in StoredRows : r.fact \in Facts /\ r.until \in Nat /\ r # NoMemory
    /\ \A r \in StoredRows, u \in Nat : /\ [r EXCEPT !.until = u] \in StoredRows
                                        /\ [r EXCEPT !.until = u].fact = r.fact
                                        /\ [r EXCEPT !.until = u].until = u
    /\ NoMemory.fact \notin Facts /\ NoMemory.until = 0
BY MemoryAssumption DEF StoredRows, NoMemory

(* What renewing a row writes.                                             *)
LEMMA RenewSets ==
    ASSUME MemTypes, NEW c \in MemoryCalls, RenewMemory(c)
    PROVE  /\ memCall[c] \in Renewing
           /\ memory' \in [MemoryCalls -> StoredRows \cup {NoMemory}]
           /\ \A d \in MemoryCalls : d # memCall[c].id => memory'[d] = memory[d]
           /\ memory'[memCall[c].id].fact = memory[memCall[c].id].fact
           /\ memory[memCall[c].id] = NoMemory => memory' = memory
           /\ memory[memCall[c].id] # NoMemory =>
                 memory'[memCall[c].id].until = RenewedUntil(memCall[c].until, memCall[c].found)
<1>1. memCall[c] \in Renewing BY KindsOfCall DEF RenewMemory, MemTypes
<1> PICK id \in MemoryCalls : id = memCall[c].id BY <1>1, FieldsOfCall
<1>2. memCall[c].until \in Nat /\ memCall[c].found \in Nat BY <1>1, FieldsOfCall
<1> PICK u \in Nat : u = RenewedUntil(memCall[c].until, memCall[c].found) BY <1>2, Renewed
<1>3. memory \in [MemoryCalls -> StoredRows \cup {NoMemory}] BY DEF MemTypes
<1>4. CASE memory[id] = NoMemory
  BY <1>1, <1>3, <1>4 DEF RenewMemory
<1>5. CASE memory[id] # NoMemory
  <2>1. memory' = [memory EXCEPT ![id].until = u] BY <1>5 DEF RenewMemory
  <2> PICK r \in StoredRows : r = memory[id] BY <1>3, <1>5
  <2> PICK q \in StoredRows : q = [r EXCEPT !.until = u] BY RowsOfStore
  <2>2. memory' = [memory EXCEPT ![id] = q] BY <2>1
  <2>3. q.fact = r.fact /\ q.until = u BY RowsOfStore
  <2>. QED BY <2>2, <2>3, <1>1, <1>3, <1>5
<1>. QED BY <1>4, <1>5

(* What updating a row writes.                                             *)
LEMMA RewriteSets ==
    ASSUME MemTypes, NEW c \in MemoryCalls, RewriteMemory(c)
    PROVE  /\ memCall[c] \in Rewriting
           /\ memory' \in [MemoryCalls -> StoredRows \cup {NoMemory}]
           /\ said' \in [Facts -> {NoWord} \cup SavedWords]
           /\ \A d \in MemoryCalls : d # memCall[c].id => memory'[d] = memory[d]
           /\ memory[memCall[c].id] = NoMemory => memory' = memory /\ said' = said
           /\ memory[memCall[c].id] # NoMemory =>
                 said' = [said EXCEPT ![memory[memCall[c].id].fact] = NoWord]
<1>1. memCall[c] \in Rewriting BY KindsOfCall DEF RewriteMemory, MemTypes
<1> PICK id \in MemoryCalls : id = memCall[c].id BY <1>1, FieldsOfCall
<1> PICK f \in Facts, u \in Nat : f = memCall[c].fact /\ u = memCall[c].until
  BY <1>1, FieldsOfCall
<1>3. memory \in [MemoryCalls -> StoredRows \cup {NoMemory}] /\ said \in [Facts -> {NoWord} \cup SavedWords]
  BY DEF MemTypes
<1>4. CASE memory[id] = NoMemory
  BY <1>1, <1>3, <1>4 DEF RewriteMemory
<1>5. CASE memory[id] # NoMemory
  <2>1. memory' = [memory EXCEPT ![id] = [fact |-> f, until |-> u]] BY <1>5 DEF RewriteMemory
  <2> PICK q \in StoredRows : q = [fact |-> f, until |-> u] BY RowsOfStore
  <2>2. memory' = [memory EXCEPT ![id] = q] BY <2>1
  <2>3. said' = [said EXCEPT ![memory[id].fact] = NoWord] BY <1>5 DEF RewriteMemory
  <2>. QED BY <2>2, <2>3, <1>1, <1>3, <1>5
<1>. QED BY <1>4, <1>5

(* What inserting a row writes.                                            *)
LEMMA InsertSets ==
    ASSUME MemTypes, NEW c \in MemoryCalls, InsertMemory(c)
    PROVE  /\ memCall[c] \in Looking
           /\ memory' \in [MemoryCalls -> StoredRows \cup {NoMemory}]
           /\ \A d \in MemoryCalls : d # c => memory'[d] = memory[d]
           /\ memory'[c].fact = memCall[c].fact
           /\ memory'[c].until = memCall[c].until
<1>1. memCall[c] \in Looking BY KindsOfCall DEF InsertMemory, MemTypes
<1> PICK f \in Facts, u \in Nat : f = memCall[c].fact /\ u = memCall[c].until
  BY <1>1, FieldsOfCall
<1>3. memory \in [MemoryCalls -> StoredRows \cup {NoMemory}] BY DEF MemTypes
<1>4. memory' = [memory EXCEPT ![c] = [fact |-> f, until |-> u]] BY DEF InsertMemory
<1> PICK q \in StoredRows : q = [fact |-> f, until |-> u] BY RowsOfStore
<1>5. memory' = [memory EXCEPT ![c] = q] /\ q.fact = f /\ q.until = u BY <1>4, RowsOfStore
<1>. QED BY <1>1, <1>3, <1>5

(* What removing rows writes.                                              *)
LEMMA RemoveSets ==
    ASSUME MemTypes, NEW c \in MemoryCalls, RemoveMemories(c)
    PROVE  /\ BeginCall(c, "memories")
           /\ memory' \in [MemoryCalls -> StoredRows \cup {NoMemory}]
           /\ said' \in [Facts -> {NoWord} \cup SavedWords]
           /\ \A d \in MemoryCalls : memory'[d] \in {memory[d], NoMemory}
           /\ \A f \in Facts : said'[f] # NoWord =>
                 said'[f] = said[f] /\ \A d \in Alike(f) : memory'[d] = memory[d]
<1> PICK gone \in {{d} : d \in MemoryCalls} \cup {MemoryCalls} :
          /\ memory' = [d \in MemoryCalls |-> IF d \in gone THEN NoMemory ELSE memory[d]]
          /\ said' = [f \in Facts |-> IF Alike(f) \cap gone = {} THEN said[f] ELSE NoWord]
  BY DEF RemoveMemories
<1>1. memory \in [MemoryCalls -> StoredRows \cup {NoMemory}] /\ said \in [Facts -> {NoWord} \cup SavedWords]
  BY DEF MemTypes
<1>2. \A d \in MemoryCalls : memory'[d] = IF d \in gone THEN NoMemory ELSE memory[d] OBVIOUS
<1>3. \A f \in Facts : said'[f] = IF Alike(f) \cap gone = {} THEN said[f] ELSE NoWord OBVIOUS
<1>4. \A f \in Facts : Alike(f) \subseteq MemoryCalls BY DEF Alike
<1>5. BeginCall(c, "memories") BY DEF RemoveMemories
<1>6. memory' \in [MemoryCalls -> StoredRows \cup {NoMemory}] BY <1>1
<1>7. said' \in [Facts -> {NoWord} \cup SavedWords] BY <1>1
<1>8. ASSUME NEW f \in Facts, said'[f] # NoWord
      PROVE said'[f] = said[f] /\ \A d \in Alike(f) : memory'[d] = memory[d]
  <2>1. Alike(f) \cap gone = {} BY <1>3, <1>8
  <2>. QED BY <2>1, <1>2, <1>3, <1>4
<1>. QED BY <1>2, <1>5, <1>6, <1>7, <1>8

(* What a save's answer is.                                                *)
LEMMA AssuresSets ==
    ASSUME MemTypes, NEW c \in MemoryCalls, memCall[c].fact \in Facts, memCall[c].until \in Nat,
           NEW kept \in BOOLEAN, Assures(c, kept)
    PROVE  /\ said' \in [Facts -> {NoWord} \cup SavedWords]
           /\ \A f \in Facts : f # memCall[c].fact => said'[f] = said[f]
           /\ said'[memCall[c].fact].by = c
           /\ said'[memCall[c].fact].until = memCall[c].until
           /\ said'[memCall[c].fact].kept = kept
<1> PICK g \in Facts, u \in Nat : g = memCall[c].fact /\ u = memCall[c].until OBVIOUS
<1> DEFINE w == [by |-> c, says |-> "saved", until |-> u, kept |-> kept]
<1>1. w \in SavedWords /\ w.by = c /\ w.until = u /\ w.kept = kept BY DEF SavedWords
<1>2. said' = [said EXCEPT ![g] = w] BY DEF Assures
<1>3. said \in [Facts -> {NoWord} \cup SavedWords] BY DEF MemTypes
<1>. HIDE DEF w
<1>. QED BY <1>1, <1>2, <1>3

(* Every step of a call keeps the types.                                   *)
LEMMA TypesKept ==
    ASSUME MemTypes, NEW c \in MemoryCalls, CallStep(c)
    PROVE  MemTypes'
<1>1. memory' \in [MemoryCalls -> StoredRows \cup {NoMemory}]
  <2>1. CASE InsertMemory(c) BY <2>1, InsertSets
  <2>2. CASE RenewMemory(c) BY <2>2, RenewSets
  <2>3. CASE RewriteMemory(c) BY <2>3, RewriteSets
  <2>4. CASE RemoveMemories(c) BY <2>4, RemoveSets
  <2>5. CASE memory' = memory BY <2>5 DEF MemTypes
  <2>. QED BY <2>1, <2>2, <2>3, <2>4, <2>5
       DEF CallStep, SaveMemory, LookMemory, ReadMemory, ReadSettings, WriteSettings, SaveEntry,
           ImportMarkdown, SeekEntry, UpdateEntry, CountEntries, InsertEntry, SkipEntry,
           FindEntry, DeleteEntry, Breaks, tables
<1>2. training' \subseteq MemoryCalls \X Lessons /\ IsFiniteSet(training')
  <2>1. CASE InsertEntry(c)
    <3>1. memCall[c] \in Learning BY <2>1, KindsOfCall DEF InsertEntry, MemTypes
    <3> PICK s \in Seq(Lessons) \ {<<>>} : s = memCall[c].names BY <3>1, FieldsOfCall
    <3> PICK n \in Lessons : n = Head(s) BY SomeNames
    <3>2. training' = training \cup {<<c, n>>} BY <2>1 DEF InsertEntry
    <3>3. IsFiniteSet(training) BY DEF MemTypes
    <3>4. IsFiniteSet(training') BY <3>2, <3>3, FS_AddElement
    <3>5. training' \subseteq MemoryCalls \X Lessons BY <3>2 DEF MemTypes
    <3>. QED BY <3>4, <3>5
  <2>2. CASE DeleteEntry(c)
    <3>1. training' \subseteq training BY <2>2 DEF DeleteEntry
    <3>. QED BY <3>1, FS_Subset DEF MemTypes
  <2>3. CASE training' = training BY <2>3 DEF MemTypes
  <2>. QED BY <2>1, <2>2, <2>3
       DEF CallStep, SaveMemory, LookMemory, InsertMemory, RenewMemory, ReadMemory,
           RewriteMemory, RemoveMemories, ReadSettings, WriteSettings, SaveEntry,
           ImportMarkdown, SeekEntry, UpdateEntry, CountEntries, SkipEntry,
           FindEntry, Breaks, tables
<1>3. enabled' \in BOOLEAN /\ off' \in BOOLEAN /\ blurred' \in BOOLEAN
  <2>1. CASE WriteSettings(c)
    <3>1. memCall[c] \in Configuring BY <2>1, KindsOfCall DEF WriteSettings, MemTypes
    <3>2. memCall[c].current \in BOOLEAN BY <3>1, FieldsOfCall
    <3>3. enabled' \in BOOLEAN BY <2>1, <3>2 DEF WriteSettings, NextEnabled
    <3>4. off' \in BOOLEAN BY <2>1 DEF WriteSettings, MemTypes
    <3>5. blurred' \in BOOLEAN BY <2>1 DEF WriteSettings, MemTypes
    <3>. QED BY <3>3, <3>4, <3>5
  <2>2. CASE enabled' = enabled /\ off' = off /\ blurred' = blurred BY <2>2 DEF MemTypes
  <2>. QED BY <2>1, <2>2
       DEF CallStep, SaveMemory, LookMemory, InsertMemory, RenewMemory, ReadMemory,
           RewriteMemory, RemoveMemories, ReadSettings, SaveEntry,
           ImportMarkdown, SeekEntry, UpdateEntry, CountEntries, InsertEntry, SkipEntry,
           FindEntry, DeleteEntry, Breaks, tables, settingsWords
<1>4. memoryClock' \in Nat
  BY DEF CallStep, SaveMemory, LookMemory, InsertMemory, RenewMemory, ReadMemory,
           RewriteMemory, RemoveMemories, ReadSettings, WriteSettings, SaveEntry,
           ImportMarkdown, SeekEntry, UpdateEntry, CountEntries, InsertEntry, SkipEntry,
           FindEntry, DeleteEntry, Breaks, MemTypes
<1>5. memCall' \in [MemoryCalls -> MemCalls]
  <2> PICK y \in MemCalls : Goes(c, y) BY ShapeOfSteps DEF Shape
  <2>. QED BY DEF Goes, MemTypes
<1>6. said' \in [Facts -> {NoWord} \cup SavedWords]
  <2>1. CASE InsertMemory(c)
    <3>1. memCall[c] \in Looking BY <2>1, InsertSets
    <3>. QED BY <3>1, <2>1, FieldsOfCall, AssuresSets DEF InsertMemory
  <2>2. CASE RenewMemory(c)
    <3>1. memCall[c] \in Renewing BY <2>2, RenewSets
    <3> PICK k \in BOOLEAN : k = (memCall[c].until = Never /\ memCall[c].found # Never) OBVIOUS
    <3>2. Assures(c, k) BY <2>2 DEF RenewMemory
    <3>. QED BY <3>1, <3>2, FieldsOfCall, AssuresSets
  <2>3. CASE RewriteMemory(c) BY <2>3, RewriteSets
  <2>4. CASE RemoveMemories(c) BY <2>4, RemoveSets
  <2>5. CASE said' = said BY <2>5 DEF MemTypes
  <2>. QED BY <2>1, <2>2, <2>3, <2>4, <2>5
       DEF CallStep, SaveMemory, LookMemory, ReadMemory, ReadSettings, WriteSettings, SaveEntry,
           ImportMarkdown, SeekEntry, UpdateEntry, CountEntries, InsertEntry, SkipEntry,
           FindEntry, DeleteEntry, Breaks, tables
<1>7. answer' \in [Lessons -> LessonWords]
  <2>1. ASSUME NEW n \in Lessons, NEW w \in {"there", "gone"}, Replies(c, n, w)
        PROVE  answer' \in [Lessons -> LessonWords]
    <3> DEFINE r == [by |-> c, says |-> w]
    <3>1. r \in LessonWords BY DEF LessonWords
    <3>2. answer' = [answer EXCEPT ![n] = r] BY <2>1 DEF Replies
    <3>. HIDE DEF r
    <3>. QED BY <3>1, <3>2 DEF MemTypes
  <2>2. CASE UpdateEntry(c) \/ InsertEntry(c)
    <3>1. memCall[c] \in Learning BY <2>2, KindsOfCall DEF UpdateEntry, InsertEntry, MemTypes
    <3>2. Head(memCall[c].names) \in Lessons BY <3>1, FieldsOfCall, SomeNames
    <3>. QED BY <2>2, <3>2, <2>1 DEF UpdateEntry, InsertEntry
  <2>3. CASE DeleteEntry(c)
    <3>1. memCall[c] \in Deleting BY <2>3, KindsOfCall DEF DeleteEntry, MemTypes
    <3> PICK r \in MemoryCalls \X Lessons : r = memCall[c].id BY <3>1, FieldsOfCall
    <3>2. r[2] \in Lessons OBVIOUS
    <3>. QED BY <2>3, <3>2, <2>1 DEF DeleteEntry
  <2>4. CASE \E n \in Lessons : Replies(c, n, "gone") BY <2>4, <2>1
  <2>5. CASE answer' = answer BY <2>5 DEF MemTypes
  <2>. QED BY <2>2, <2>3, <2>4, <2>5
       DEF CallStep, SaveMemory, LookMemory, InsertMemory, RenewMemory, ReadMemory,
           RewriteMemory, RemoveMemories, ReadSettings, WriteSettings, SaveEntry,
           ImportMarkdown, SeekEntry, CountEntries, SkipEntry,
           FindEntry, Breaks
<1>. QED BY <1>1, <1>2, <1>3, <1>4, <1>5, <1>6, <1>7 DEF MemTypes

-----------------------------------------------------------------------------

(* Every row was inserted by a call that is over.                          *)
Mine == \A c \in MemoryCalls : memory[c] # NoMemory => memCall[c] = Done

(* A save renews a row of its own fact, unless it was overlapped.          *)
RenewsItsOwn(c) ==
    memCall[c].at = "renew" => \/ memory[memCall[c].id].fact = memCall[c].fact
                               \/ Overlapped(c)

(* A row holds a fact as a save has answered it, and nobody is about to    *)
(* renew it as another fact.                                               *)
Holds(d, f) ==
    /\ memory[d].fact = f
    /\ memory[d].until >= said[f].until
    /\ \A c \in MemoryCalls :
          memCall[c].at = "renew" /\ memCall[c].id = d => memCall[c].fact = f

(* What a save that nobody overlapped has answered is in a row.            *)
Listed(f) ==
    said[f] # NoWord /\ ~said[f].kept /\ ~Overlapped(said[f].by)
        => \E d \in MemoryCalls : Holds(d, f)

(* Memory is disabled after a call that said so, and the saves that began  *)
(* then have no row, unless a configuration that did not name the setting  *)
(* wrote over a newer one.                                                 *)
Disabled ==
    /\ off => ~enabled \/ blurred
    /\ \A c \in told : blurred \/ (memCall[c] = Done /\ memory[c] = NoMemory)

(* The inductive invariant of the memory rows.                             *)
SavesInv ==
    /\ MemTypes
    /\ told \subseteq MemoryCalls
    /\ Together
    /\ Mine
    /\ \A c \in MemoryCalls : RenewsItsOwn(c)
    /\ \A f \in Facts : Listed(f)
    /\ Disabled

(* A call that is over takes no step.                                      *)
LEMMA NeverAgain ==
    ASSUME MemTypes, NEW c \in MemoryCalls, CallStep(c)
    PROVE  memCall[c] # Done
BY FieldsOfCall DEF CallStep, SaveMemory, LookMemory, InsertMemory, RenewMemory, ReadMemory,
           RewriteMemory, RemoveMemories, ReadSettings, WriteSettings, SaveEntry,
           ImportMarkdown, SeekEntry, UpdateEntry, CountEntries, InsertEntry, SkipEntry,
           FindEntry, DeleteEntry, Breaks, BeginCall

(* A row appears only by the call whose row it is.                         *)
LEMMA OnlyInserts ==
    ASSUME MemTypes, NEW c \in MemoryCalls, CallStep(c),
           NEW d \in MemoryCalls, memory[d] = NoMemory, memory'[d] # NoMemory
    PROVE  d = c /\ InsertMemory(c)
<1>1. CASE InsertMemory(c) BY <1>1, InsertSets
<1>2. CASE RenewMemory(c) BY <1>2, RenewSets
<1>3. CASE RewriteMemory(c) BY <1>3, RewriteSets
<1>4. CASE RemoveMemories(c) BY <1>4, RemoveSets
<1>5. CASE memory' = memory BY <1>5
<1>. QED BY <1>1, <1>2, <1>3, <1>4, <1>5
       DEF CallStep, SaveMemory, LookMemory, ReadMemory, ReadSettings, WriteSettings, SaveEntry,
           ImportMarkdown, SeekEntry, UpdateEntry, CountEntries, InsertEntry, SkipEntry,
           FindEntry, DeleteEntry, Breaks, tables

(* A step of one call leaves the others, and forgets no overlap.           *)
LEMMA Others ==
    ASSUME MemTypes, NEW c \in MemoryCalls, CallStep(c)
    PROVE  /\ paired \subseteq paired'
           /\ \A d \in MemoryCalls : d # c => memCall'[d] = memCall[d]
           /\ Reasons(c, memCall'[c])
           /\ \A d \in MemoryCalls : Overlapped(d) => Overlapped(d)'
<1>1. Shape(c) BY ShapeOfSteps
<1> PICK y \in MemCalls : Goes(c, y) /\ Reasons(c, y) BY <1>1 DEF Shape
<1>2. paired \subseteq paired' BY <1>1 DEF Shape
<1>3. memCall'[c] = y /\ \A d \in MemoryCalls : d # c => memCall'[d] = memCall[d]
  BY DEF Goes, MemTypes
<1>4. \A d \in MemoryCalls : Overlapped(d) => Overlapped(d)' BY <1>2 DEF Overlapped
<1>5. Reasons(c, memCall'[c])
  <2> PICK z : z = memCall'[c] OBVIOUS
  <2>1. Reasons(c, z) BY <1>3
  <2>. QED BY <2>1
<1>. QED BY <1>2, <1>3, <1>4, <1>5

(* A call that changes the memory rows has overlapped every other call     *)
(* under way on them.                                                      *)
LEMMA WritersOverlap ==
    ASSUME MemTypes, Together, NEW c \in MemoryCalls, CallStep(c), memory' # memory,
           NEW d \in MemoryCalls, d # c, memCall[d].table = "memories"
    PROVE  {d, c} \in paired'
<1>1. CASE InsertMemory(c) \/ RenewMemory(c) \/ RewriteMemory(c)
  <2>1. memCall[c].table = "memories" /\ paired' = paired
    BY <1>1, InsertSets, RenewSets, RewriteSets, FieldsOfCall DEF InsertMemory, RenewMemory, RewriteMemory
  <2>. QED BY <2>1 DEF Together
<1>2. CASE RemoveMemories(c)
  <2>1. BeginCall(c, "memories") BY <1>2, RemoveSets
  <2>2. {c, d} \in paired' BY <2>1 DEF BeginCall, Engaged
  <2>3. {c, d} = {d, c} OBVIOUS
  <2>. QED BY <2>2, <2>3
<1>. QED BY <1>1, <1>2
       DEF CallStep, SaveMemory, LookMemory, ReadMemory, ReadSettings, WriteSettings, SaveEntry,
           ImportMarkdown, SeekEntry, UpdateEntry, CountEntries, InsertEntry, SkipEntry,
           FindEntry, DeleteEntry, Breaks, tables

(* A step keeps each row with its call.                                    *)
LEMMA MineKept ==
    ASSUME SavesInv, NEW c \in MemoryCalls, CallStep(c)
    PROVE  Mine'
<1> USE DEF SavesInv
<1> SUFFICES ASSUME NEW d \in MemoryCalls, memory'[d] # NoMemory
             PROVE  memCall'[d] = Done
  BY DEF Mine
<1>1. CASE memory[d] = NoMemory
  <2>1. d = c /\ InsertMemory(c) BY <1>1, OnlyInserts
  <2>. QED BY <2>1 DEF InsertMemory, Goes, MemTypes
<1>2. CASE memory[d] # NoMemory
  <2>1. memCall[d] = Done BY <1>2 DEF Mine
  <2>2. d # c BY <2>1, NeverAgain
  <2>. QED BY <2>1, <2>2, Others
<1>. QED BY <1>1, <1>2

(* A step keeps the renewals on their own facts.                           *)
LEMMA RenewsKept ==
    ASSUME SavesInv, NEW c \in MemoryCalls, CallStep(c), NEW e \in MemoryCalls
    PROVE  RenewsItsOwn(e)'
<1> USE DEF SavesInv
<1> SUFFICES ASSUME memCall'[e].at = "renew", ~Overlapped(e)'
             PROVE  memory'[memCall'[e].id].fact = memCall'[e].fact
  BY DEF RenewsItsOwn
<1>1. CASE e = c
  <2>1. Reasons(c, memCall'[c]) BY Others
  <2>2. memory' = memory /\ memCall'[c].id \in Alike(memCall'[c].fact) BY <1>1, <2>1 DEF Reasons
  <2>. QED BY <1>1, <2>2 DEF Alike
<1>2. CASE e # c
  <2>1. memCall'[e] = memCall[e] /\ ~Overlapped(e) BY <1>2, Others
  <2>2. memory[memCall[e].id].fact = memCall[e].fact BY <2>1 DEF RenewsItsOwn
  <2>3. memCall[e] \in MemCalls BY DEF MemTypes
  <2>4. memCall[e].table = "memories" BY <2>1, <2>3, KindsOfCall, FieldsOfCall
  <2>5. memory' = memory
    <3>1. SUFFICES ASSUME memory' # memory PROVE FALSE OBVIOUS
    <3>2. {e, c} \in paired' BY <1>2, <2>4, <3>1, WritersOverlap
    <3>. QED BY <1>2, <3>2 DEF Overlapped
  <2>. QED BY <2>1, <2>2, <2>5
<1>. QED BY <1>1, <1>2

(* A step that leaves a row and the answer about its fact leaves the row   *)
(* holding it.                                                             *)
LEMMA HoldsKept ==
    ASSUME SavesInv, NEW c \in MemoryCalls, CallStep(c), NEW f \in Facts,
           NEW d \in MemoryCalls, Holds(d, f), memory'[d] = memory[d], said'[f] = said[f]
    PROVE  Holds(d, f)'
<1> USE DEF SavesInv
<1>1. ASSUME NEW e \in MemoryCalls, memCall'[e].at = "renew", memCall'[e].id = d
      PROVE  memCall'[e].fact = f
  <2>1. CASE e # c
    <3>1. memCall'[e] = memCall[e] BY <2>1, Others
    <3>. QED BY <1>1, <3>1 DEF Holds
  <2>2. CASE e = c
    <3>1. memCall'[c].id \in Alike(memCall'[c].fact) BY <1>1, <2>2, Others DEF Reasons
    <3>. QED BY <1>1, <2>2, <3>1 DEF Alike, Holds
  <2>. QED BY <2>1, <2>2
<1>. QED BY <1>1 DEF Holds

(* A call that ends without having been overlapped leaves the row it wrote *)
(* holding its fact.                                                       *)
LEMMA AloneHolds ==
    ASSUME SavesInv, NEW c \in MemoryCalls, CallStep(c), memCall[c].table = "memories",
           Goes(c, Done), ~Overlapped(c)', NEW f \in Facts, NEW d \in MemoryCalls,
           memory'[d].fact = f, memory'[d].until >= said'[f].until
    PROVE  Holds(d, f)'
<1> USE DEF SavesInv
<1>1. ASSUME NEW e \in MemoryCalls, memCall'[e].at = "renew"
      PROVE  FALSE
  <2>1. memCall'[c] = Done BY DEF Goes, MemTypes
  <2>2. e # c BY <1>1, <2>1, FieldsOfCall
  <2>3. memCall'[e] = memCall[e] BY <2>2, Others
  <2>4. memCall[e] \in MemCalls BY DEF MemTypes
  <2>5. memCall[e].table = "memories" BY <1>1, <2>3, <2>4, KindsOfCall, FieldsOfCall
  <2>6. {c, e} \in paired BY <2>2, <2>5 DEF Together
  <2>. QED BY <2>2, <2>6, Others DEF Overlapped
<1>. QED BY <1>1 DEF Holds

(* A step keeps every answer true.                                         *)
LEMMA ListedKept ==
    ASSUME SavesInv, NEW c \in MemoryCalls, CallStep(c), NEW f \in Facts
    PROVE  Listed(f)'
<1> USE DEF SavesInv
<1> SUFFICES ASSUME said'[f] # NoWord, ~said'[f].kept, ~Overlapped(said[f].by)'
             PROVE  \E d \in MemoryCalls : Holds(d, f)'
  BY DEF Listed
<1>1. ASSUME said'[f] = said[f]
      PROVE  \E d \in MemoryCalls : Holds(d, f)
  <2>1. said[f].by \in MemoryCalls BY <1>1 DEF MemTypes, SavedWords
  <2>2. ~Overlapped(said[f].by)
    <3> PICK b \in MemoryCalls : b = said[f].by BY <2>1
    <3>1. ~Overlapped(b)' BY <1>1
    <3>. QED BY <3>1, Others
  <2>. QED BY <1>1, <2>2 DEF Listed
<1>2. CASE InsertMemory(c)
  <2>1. memCall[c] \in Looking BY <1>2, InsertSets
  <2>2. memCall[c].fact \in Facts /\ memCall[c].until \in Nat BY <2>1, FieldsOfCall
  <2>3. Assures(c, FALSE) /\ Goes(c, Done) BY <1>2 DEF InsertMemory
  <2>4. CASE f = memCall[c].fact
    <3>1. said'[f].by = c /\ said'[f].until = memCall[c].until BY <2>2, <2>3, <2>4, AssuresSets
    <3>2. memory'[c].fact = f /\ memory'[c].until = memCall[c].until BY <1>2, <2>4, InsertSets
    <3>3. ~Overlapped(c)' BY <3>1 DEF Overlapped
    <3>4. memory'[c].until >= said'[f].until BY <2>2, <3>1, <3>2
    <3>. QED BY <2>1, <2>3, <3>2, <3>3, <3>4, AloneHolds, FieldsOfCall
  <2>5. CASE f # memCall[c].fact
    <3>1. said'[f] = said[f] BY <2>2, <2>3, <2>5, AssuresSets
    <3> PICK d \in MemoryCalls : Holds(d, f) BY <1>1, <3>1
    <3>2. memory[d] # NoMemory BY RowsOfStore DEF Holds
    <3>3. d # c BY <2>1, <3>2, FieldsOfCall DEF Mine
    <3>4. memory'[d] = memory[d] BY <1>2, <3>3, InsertSets
    <3>. QED BY <3>1, <3>4, HoldsKept
  <2>. QED BY <2>4, <2>5
<1>3. CASE RenewMemory(c)
  <2>1. memCall[c] \in Renewing BY <1>3, RenewSets
  <2>2. /\ memCall[c].fact \in Facts /\ memCall[c].until \in Nat /\ memCall[c].found \in Nat
        /\ memCall[c].id \in MemoryCalls /\ memCall[c].at = "renew" /\ memCall[c].table = "memories"
    BY <2>1, FieldsOfCall
  <2> PICK id \in MemoryCalls : id = memCall[c].id BY <2>2
  <2> PICK k \in BOOLEAN : k = (memCall[c].until = Never /\ memCall[c].found # Never) OBVIOUS
  <2>3. Assures(c, k) /\ Goes(c, Done) BY <1>3 DEF RenewMemory
  <2>4. CASE f = memCall[c].fact
    <3>1. said'[f].by = c /\ said'[f].until = memCall[c].until /\ said'[f].kept = k
      BY <2>2, <2>3, <2>4, AssuresSets
    <3>2. ~Overlapped(c)' BY <3>1 DEF Overlapped
    <3>3. ~Overlapped(c) BY <3>2, Others
    <3>4. memory[id].fact = f BY <2>2, <2>4, <3>3 DEF RenewsItsOwn
    <3>5. memory[id] # NoMemory BY <3>4, RowsOfStore
    <3>6. memory'[id].fact = f /\ memory'[id].until = RenewedUntil(memCall[c].until, memCall[c].found)
      BY <1>3, <3>4, <3>5, RenewSets
    <3>7. ~k BY <3>1
    <3>8. memory'[id].until = memCall[c].until BY <3>6, <3>7 DEF RenewedUntil
    <3>9. memory'[id].until >= said'[f].until BY <2>2, <3>1, <3>8
    <3>. QED BY <2>2, <2>3, <3>2, <3>6, <3>9, AloneHolds
  <2>5. CASE f # memCall[c].fact
    <3>1. said'[f] = said[f] BY <2>2, <2>3, <2>5, AssuresSets
    <3> PICK d \in MemoryCalls : Holds(d, f) BY <1>1, <3>1
    <3>2. d # id BY <2>2, <2>5 DEF Holds
    <3>3. memory'[d] = memory[d] BY <1>3, <3>2, RenewSets
    <3>. QED BY <3>1, <3>3, HoldsKept
  <2>. QED BY <2>4, <2>5
<1>4. CASE RewriteMemory(c)
  <2>1. memCall[c] \in Rewriting BY <1>4, RewriteSets
  <2> PICK id \in MemoryCalls : id = memCall[c].id BY <2>1, FieldsOfCall
  <2>2. CASE memory[id] = NoMemory
    <3>1. memory' = memory /\ said' = said BY <1>4, <2>2, RewriteSets
    <3>. QED BY <1>1, <3>1, HoldsKept
  <2>3. CASE memory[id] # NoMemory
    <3>1. said' = [said EXCEPT ![memory[id].fact] = NoWord] BY <1>4, <2>3, RewriteSets
    <3>2. f # memory[id].fact /\ said'[f] = said[f] BY <3>1 DEF MemTypes
    <3> PICK d \in MemoryCalls : Holds(d, f) BY <1>1, <3>2
    <3>3. d # id BY <3>2 DEF Holds
    <3>4. memory'[d] = memory[d] BY <1>4, <3>3, RewriteSets
    <3>. QED BY <3>2, <3>4, HoldsKept
  <2>. QED BY <2>2, <2>3
<1>5. CASE RemoveMemories(c)
  <2>1. said'[f] = said[f] /\ \A d \in Alike(f) : memory'[d] = memory[d] BY <1>5, RemoveSets
  <2> PICK d \in MemoryCalls : Holds(d, f) BY <1>1, <2>1
  <2>2. d \in Alike(f) BY DEF Holds, Alike
  <2>. QED BY <2>1, <2>2, HoldsKept
<1>6. CASE memory' = memory /\ said' = said
  <2> PICK d \in MemoryCalls : Holds(d, f) BY <1>1, <1>6
  <2>. QED BY <1>6, HoldsKept
<1>. QED BY <1>2, <1>3, <1>4, <1>5, <1>6
       DEF CallStep, SaveMemory, LookMemory, ReadMemory, ReadSettings, WriteSettings, SaveEntry,
           ImportMarkdown, SeekEntry, UpdateEntry, CountEntries, InsertEntry, SkipEntry,
           FindEntry, DeleteEntry, Breaks, tables

(* A step keeps memory that was turned off off.                            *)
LEMMA DisabledKept ==
    ASSUME SavesInv, NEW c \in MemoryCalls, CallStep(c)
    PROVE  Disabled' /\ told' \subseteq MemoryCalls
<1> USE DEF SavesInv
<1>1. CASE WriteSettings(c)
  <2>0. memCall[c] \in Configuring BY <1>1, KindsOfCall DEF WriteSettings, MemTypes
  <2> PICK want \in {"unset", "on", "off"}, current \in BOOLEAN :
         want = memCall[c].asked /\ current = memCall[c].current
    BY <2>0, FieldsOfCall
  <2>1. /\ enabled' = NextEnabled(want, current)
        /\ off' = IF want = "unset" THEN off ELSE want = "off"
        /\ blurred' = (blurred \/ (want = "unset" /\ current # enabled))
        /\ told' = told
    BY <1>1 DEF WriteSettings
  <2>2. enabled \in BOOLEAN /\ off \in BOOLEAN /\ blurred \in BOOLEAN BY DEF MemTypes
  <2>3. off' => ~enabled' \/ blurred'
    <3>1. CASE want = "unset" BY <2>1, <2>2, <3>1 DEF NextEnabled, Disabled
    <3>2. CASE want = "on" BY <2>1, <2>2, <3>2 DEF NextEnabled
    <3>3. CASE want = "off" BY <2>1, <2>2, <3>3 DEF NextEnabled
    <3>. QED BY <3>1, <3>2, <3>3
  <2>4. blurred => blurred' BY <2>1, <2>2
  <2>5. memory' = memory /\ memCall[c] # Done BY <1>1, NeverAgain DEF WriteSettings
  <2>6. \A d \in told : blurred' \/ (memCall'[d] = Done /\ memory'[d] = NoMemory)
    BY <2>4, <2>5, Others DEF Disabled
  <2>. QED BY <2>1, <2>3, <2>6 DEF Disabled
<1>2. CASE ~WriteSettings(c)
  <2>1. enabled' = enabled /\ off' = off /\ blurred' = blurred
    BY <1>2 DEF CallStep, SaveMemory, LookMemory, InsertMemory, RenewMemory, ReadMemory,
           RewriteMemory, RemoveMemories, ReadSettings, SaveEntry,
           ImportMarkdown, SeekEntry, UpdateEntry, CountEntries, InsertEntry, SkipEntry,
           FindEntry, DeleteEntry, Breaks, tables, settingsWords
  <2>2. ASSUME NEW d \in told
        PROVE  blurred \/ (memCall'[d] = Done /\ memory'[d] = NoMemory)
    <3>0. CASE blurred BY <3>0
    <3>1. CASE ~blurred
      <4>1. memCall[d] = Done /\ memory[d] = NoMemory /\ d \in MemoryCalls BY <3>1 DEF Disabled
      <4>2. d # c BY <4>1, NeverAgain
      <4>. QED BY <4>1, <4>2, OnlyInserts, Others
    <3>. QED BY <3>0, <3>1
  <2>3. CASE told' = told BY <2>1, <2>2, <2>3 DEF Disabled
  <2>4. CASE SaveMemory(c) /\ told' # told
    <3>1. off /\ told' = told \cup {c} /\ memory' = memory BY <2>4 DEF SaveMemory, tables
    <3>2. CASE blurred BY <2>1, <3>1, <3>2 DEF Disabled
    <3>3. CASE ~blurred
      <4>1. ~enabled BY <3>1, <3>3 DEF Disabled
      <4>2. Goes(c, Done) /\ memCall[c] = Unused BY <2>4, <4>1 DEF SaveMemory, BeginCall
      <4>3. memory[c] = NoMemory BY <4>2, FieldsOfCall DEF Mine
      <4>4. memCall'[c] = Done BY <4>2 DEF Goes, MemTypes
      <4>5. \A d \in told' : memCall'[d] = Done /\ memory'[d] = NoMemory
        BY <2>2, <3>1, <3>3, <4>3, <4>4
      <4>6. off' => ~enabled' BY <2>1, <4>1
      <4>. QED BY <3>1, <4>5, <4>6 DEF Disabled
    <3>. QED BY <3>2, <3>3
  <2>. QED BY <1>2, <2>3, <2>4
       DEF CallStep, SaveMemory, LookMemory, InsertMemory, RenewMemory, ReadMemory,
           RewriteMemory, RemoveMemories, ReadSettings, SaveEntry,
           ImportMarkdown, SeekEntry, UpdateEntry, CountEntries, InsertEntry, SkipEntry,
           FindEntry, DeleteEntry, Breaks, settingsWords
<1>. QED BY <1>1, <1>2

(* The types hold of empty stores.                                         *)
LEMMA MemoryInitTypes == MemoryInit => MemTypes
<1> SUFFICES ASSUME MemoryInit PROVE MemTypes OBVIOUS
<1>1. IsFiniteSet({}) BY FS_EmptySet
<1>. QED BY <1>1 DEF MemoryInit, MemTypes, MemCalls, LessonWords

(* The passing of time changes nothing but the time.                       *)
LEMMA StillClock ==
    ASSUME MemTypes, MemoryTick \/ UNCHANGED memoryVars
    PROVE  /\ MemTypes'
           /\ memory' = memory /\ training' = training /\ enabled' = enabled
           /\ memCall' = memCall /\ off' = off /\ blurred' = blurred /\ told' = told
           /\ paired' = paired /\ said' = said /\ answer' = answer
<1>1. memoryClock' \in Nat BY DEF MemoryTick, MemTypes, memoryVars
<1>2. /\ memory' = memory /\ training' = training /\ enabled' = enabled
      /\ memCall' = memCall /\ off' = off /\ blurred' = blurred /\ told' = told
      /\ paired' = paired /\ said' = said /\ answer' = answer
  BY DEF MemoryTick, tables, settingsWords, memoryVars
<1>. QED BY <1>1, <1>2 DEF MemTypes

(* The passing of time keeps the invariant.                                *)
LEMMA SavesStill ==
    ASSUME SavesInv, MemoryTick \/ UNCHANGED memoryVars
    PROVE  SavesInv'
<1>1. /\ MemTypes'
      /\ memory' = memory /\ training' = training /\ enabled' = enabled
      /\ memCall' = memCall /\ off' = off /\ blurred' = blurred /\ told' = told
      /\ paired' = paired /\ said' = said /\ answer' = answer
  BY StillClock DEF SavesInv
<1>2. told' \subseteq MemoryCalls /\ Together' /\ Mine' BY <1>1 DEF SavesInv, Together, Mine
<1>3. \A c \in MemoryCalls : RenewsItsOwn(c)'
  BY <1>1 DEF SavesInv, RenewsItsOwn, Overlapped
<1>4. ASSUME NEW f \in Facts PROVE Listed(f)'
  <2>1. Listed(f) BY DEF SavesInv
  <2>2. \A d \in MemoryCalls : Holds(d, f)' <=> Holds(d, f) BY <1>1 DEF Holds
  <2>3. Overlapped(said[f].by)' <=> Overlapped(said[f].by) BY <1>1 DEF Overlapped
  <2>. QED BY <1>1, <2>1, <2>2, <2>3 DEF Listed
<1>5. Disabled' BY <1>1 DEF SavesInv, Disabled
<1>. QED BY <1>1, <1>2, <1>3, <1>4, <1>5 DEF SavesInv

(* The inductive invariant of the memory rows holds in every state, for    *)
(* any number of calls and facts.                                          *)
THEOREM SavesInvariant == MemorySpec => []SavesInv
<1>1. MemoryInit => SavesInv
  <2> SUFFICES ASSUME MemoryInit PROVE SavesInv OBVIOUS
  <2>1. MemTypes BY MemoryInitTypes
  <2>2. \A c \in MemoryCalls : memCall[c].at = "idle" /\ memCall[c].table = "none" /\ memory[c] = NoMemory
    BY FieldsOfCall DEF MemoryInit
  <2>3. \A f \in Facts : said[f] = NoWord BY DEF MemoryInit
  <2>4. told = {} /\ ~off BY DEF MemoryInit
  <2>. QED BY <2>1, <2>2, <2>3, <2>4
       DEF SavesInv, Together, Mine, RenewsItsOwn, Listed, Disabled
<1>2. SavesInv /\ [MemoryNext]_memoryVars => SavesInv'
  <2> SUFFICES ASSUME SavesInv, [MemoryNext]_memoryVars PROVE SavesInv' OBVIOUS
  <2>1. ASSUME NEW c \in MemoryCalls, CallStep(c) PROVE SavesInv'
    <3>0. MemTypes /\ Together BY DEF SavesInv
    <3>1. MemTypes' BY <2>1, <3>0, TypesKept
    <3>2. Together' BY <2>1, <3>0, TogetherKept, ShapeOfSteps
    <3>3. Mine' BY <2>1, MineKept
    <3>4. \A e \in MemoryCalls : RenewsItsOwn(e)' BY <2>1, RenewsKept
    <3>5. \A f \in Facts : Listed(f)' BY <2>1, ListedKept
    <3>6. Disabled' /\ told' \subseteq MemoryCalls BY <2>1, DisabledKept
    <3>. QED BY <3>1, <3>2, <3>3, <3>4, <3>5, <3>6 DEF SavesInv
  <2>2. CASE MemoryTick \/ UNCHANGED memoryVars
    BY <2>2, SavesStill
  <2>. QED BY <2>1, <2>2 DEF MemoryNext, CallStep
<1>. QED BY <1>1, <1>2, PTL DEF MemorySpec

(* A fact answered as saved is listed until it expires, and a save that    *)
(* began with memory disabled has no row (save_memory, list_memories,      *)
(* configure_memory of memory/store.py), with the exceptions that          *)
(* MemoryAnswersHold names.                                                *)
THEOREM MemoryAnswersAreTrue == MemorySpec => []MemoryAnswersHold
<1>1. SavesInv => MemoryAnswersHold
  <2> SUFFICES ASSUME SavesInv PROVE MemoryAnswersHold OBVIOUS
  <2>1. ASSUME NEW f \in Facts, said[f] # NoWord, ~said[f].kept, ~Overlapped(said[f].by),
               ~(said[f].until <= memoryClock)
        PROVE  \E c \in Alike(f) : memory[c].until > memoryClock
    <3> PICK d \in MemoryCalls : Holds(d, f) BY <2>1 DEF SavesInv, Listed
    <3>1. said[f].until \in Nat /\ memoryClock \in Nat BY <2>1 DEF SavesInv, MemTypes, SavedWords
    <3>2. memory[d].until \in Nat BY RowsOfStore DEF SavesInv, MemTypes
    <3>3. memory[d].until > memoryClock BY <2>1, <3>1, <3>2 DEF Holds
    <3>4. d \in Alike(f) BY DEF Holds, Alike
    <3>. QED BY <3>3, <3>4
  <2>2. SavedIsListed BY <2>1 DEF SavedIsListed
  <2>3. DisabledStoresNothing BY DEF DisabledStoresNothing, SavesInv, Disabled
  <2>. QED BY <2>2, <2>3 DEF MemoryAnswersHold
<1>. QED BY <1>1, SavesInvariant, PTL

-----------------------------------------------------------------------------

(* A save that did not find its lesson has overlapped whoever has added it *)
(* since.                                                                  *)
Waits(c) ==
    memCall[c].at \in {"count", "insert"} /\ memCall[c].table = "training"
        => \A r \in Named(Head(memCall[c].names)) : {r[1], c} \in paired

(* A save about to update its lesson finds it still, or was overlapped.    *)
Finds(c) ==
    memCall[c].at = "update" => Named(Head(memCall[c].names)) # {} \/ Overlapped(c)

(* A deletion holds the only entry of its lesson, or the others were added *)
(* by calls that were overlapped.                                          *)
FindsAll(c) ==
    memCall[c].at = "delete"
        => \A r \in Named(memCall[c].id[2]) : r = memCall[c].id \/ Overlapped(r[1])

(* The lessons a call knows of: those added by calls it did not overlap.   *)
Beside(c) == {r \in training : {r[1], c} \notin paired}

(* A save about to insert a lesson has counted fewer than the limit among  *)
(* those.                                                                  *)
RoomFor(c) ==
    memCall[c].at = "insert" /\ memCall[c].table = "training"
        => Cardinality(Beside(c)) < MaxPerKind

(* Entries whose calls did not overlap each other.                         *)
Apart(S) == \A r, s \in S : r # s => {r[1], s[1]} \notin paired

(* No more than the limit of entries were added one after the other.       *)
Limited == \A S \in SUBSET training : Apart(S) => Cardinality(S) <= MaxPerKind

(* What was answered about a lesson is so, or the call was overlapped, and *)
(* two entries of a lesson come from calls that overlapped.                *)
Answered(n) ==
    /\ answer[n].says = "there" => Named(n) # {} \/ Overlapped(answer[n].by)
    /\ answer[n].says = "gone" => \A r \in Named(n) : Overlapped(r[1])
    /\ \A r, s \in Named(n) : r # s => {r[1], s[1]} \in paired

(* The inductive invariant of the lessons.                                 *)
LessonsInv ==
    /\ MemTypes
    /\ Together
    /\ \A c \in MemoryCalls : Waits(c) /\ Finds(c) /\ FindsAll(c) /\ RoomFor(c)
    /\ \A n \in Lessons : Answered(n)
    /\ Limited

(* A new entry is the lesson its call was saving.                          *)
LEMMA NewEntries ==
    ASSUME MemTypes, NEW c \in MemoryCalls, CallStep(c), NEW r \in training' \ training
    PROVE  /\ InsertEntry(c)
           /\ r = <<c, Head(memCall[c].names)>>
           /\ r[1] = c /\ r[2] = Head(memCall[c].names) /\ r[2] \in Lessons
<1>1. CASE InsertEntry(c)
  <2>1. training' = training \cup {<<c, Head(memCall[c].names)>>} BY <1>1 DEF InsertEntry
  <2>2. memCall[c] \in Learning BY <1>1, KindsOfCall DEF InsertEntry, MemTypes
  <2>3. Head(memCall[c].names) \in Lessons BY <2>2, FieldsOfCall, SomeNames
  <2>. QED BY <1>1, <2>1, <2>3
<1>2. CASE DeleteEntry(c) BY <1>2 DEF DeleteEntry
<1>3. CASE training' = training BY <1>3
<1>. QED BY <1>1, <1>2, <1>3
       DEF CallStep, SaveMemory, LookMemory, InsertMemory, RenewMemory, ReadMemory,
           RewriteMemory, RemoveMemories, ReadSettings, WriteSettings, SaveEntry,
           ImportMarkdown, SeekEntry, UpdateEntry, CountEntries, SkipEntry,
           FindEntry, Breaks, tables

(* A call that changes the lessons has overlapped every other call under   *)
(* way on them.                                                            *)
LEMMA EditorsOverlap ==
    ASSUME MemTypes, Together, NEW c \in MemoryCalls, CallStep(c), training' # training,
           NEW d \in MemoryCalls, d # c, memCall[d].table = "training"
    PROVE  {d, c} \in paired' /\ {c, d} \in paired'
<1>1. InsertEntry(c) \/ DeleteEntry(c)
  BY DEF CallStep, SaveMemory, LookMemory, InsertMemory, RenewMemory, ReadMemory,
           RewriteMemory, RemoveMemories, ReadSettings, WriteSettings, SaveEntry,
           ImportMarkdown, SeekEntry, UpdateEntry, CountEntries, SkipEntry,
           FindEntry, Breaks, tables
<1>2. memCall[c] \in MemCalls BY DEF MemTypes
<1>3. memCall[c].table = "training" /\ paired' = paired
  BY <1>1, <1>2, KindsOfCall, FieldsOfCall DEF InsertEntry, DeleteEntry
<1>. QED BY <1>3 DEF Together

(* The calls that stand within a save or a deletion of lessons work on the *)
(* lessons.                                                                *)
LEMMA EditingCalls ==
    ASSUME MemTypes, NEW e \in MemoryCalls
    PROVE  memCall[e].at \in {"seek", "count", "update", "delete"} => memCall[e].table = "training"
<1>1. memCall[e] \in MemCalls BY DEF MemTypes
<1>. QED BY <1>1, KindsOfCall, FieldsOfCall

(* A step keeps the saves that did not find their lesson right.            *)
LEMMA WaitsKept ==
    ASSUME LessonsInv, NEW c \in MemoryCalls, CallStep(c), NEW e \in MemoryCalls
    PROVE  Waits(e)'
<1> USE DEF LessonsInv
<1> SUFFICES ASSUME memCall'[e].at \in {"count", "insert"}, memCall'[e].table = "training",
                    NEW r \in training', r[2] = Head(memCall'[e].names)
             PROVE  {r[1], e} \in paired'
  BY DEF Waits, Named
<1>1. CASE e = c
  <2>1. Reasons(c, memCall'[c]) BY Others
  <2>2. CASE memCall'[c].at = "count"
    BY <1>1, <2>1, <2>2 DEF Reasons, Named
  <2>3. CASE memCall'[c].at = "insert"
    <3>1. /\ training' = training /\ memCall[c].at = "count"
          /\ memCall'[c].names = memCall[c].names
      BY <1>1, <2>1, <2>3 DEF Reasons
    <3>2. memCall[c].table = "training" BY <3>1, EditingCalls
    <3>3. r \in Named(Head(memCall[c].names)) BY <1>1, <3>1 DEF Named
    <3>4. {r[1], c} \in paired BY <3>1, <3>2, <3>3 DEF Waits
    <3>. QED BY <1>1, <3>4, Others
  <2>. QED BY <1>1, <2>2, <2>3
<1>2. CASE e # c
  <2>1. memCall'[e] = memCall[e] BY <1>2, Others
  <2>2. CASE r \in training
    <3>1. r \in Named(Head(memCall[e].names)) BY <2>1, <2>2 DEF Named
    <3>. QED BY <2>1, <3>1, Others DEF Waits
  <2>3. CASE r \notin training
    BY <1>2, <2>1, <2>3, NewEntries, EditorsOverlap
  <2>. QED BY <2>2, <2>3
<1>. QED BY <1>1, <1>2

(* A step keeps the saves that found their lesson right.                   *)
LEMMA FindsKept ==
    ASSUME LessonsInv, NEW c \in MemoryCalls, CallStep(c), NEW e \in MemoryCalls
    PROVE  Finds(e)'
<1> USE DEF LessonsInv
<1> SUFFICES ASSUME memCall'[e].at = "update", ~Overlapped(e)'
             PROVE  \E r \in training' : r[2] = Head(memCall'[e].names)
  BY DEF Finds, Named
<1>1. CASE e = c
  BY <1>1, Others DEF Reasons, Named
<1>2. CASE e # c
  <2>1. memCall'[e] = memCall[e] /\ ~Overlapped(e) BY <1>2, Others
  <2>2. Named(Head(memCall[e].names)) # {} BY <2>1 DEF Finds
  <2>3. memCall[e].table = "training" BY <2>1, EditingCalls
  <2>4. training' = training
    <3> SUFFICES ASSUME training' # training PROVE FALSE OBVIOUS
    <3>1. {e, c} \in paired' BY <1>2, <2>3, EditorsOverlap
    <3>. QED BY <1>2, <3>1 DEF Overlapped
  <2>. QED BY <2>1, <2>2, <2>4 DEF Named
<1>. QED BY <1>1, <1>2

(* A step keeps the deletions right.                                       *)
LEMMA FindsAllKept ==
    ASSUME LessonsInv, NEW c \in MemoryCalls, CallStep(c), NEW e \in MemoryCalls
    PROVE  FindsAll(e)'
<1> USE DEF LessonsInv
<1> SUFFICES ASSUME memCall'[e].at = "delete", NEW r \in training', r[2] = memCall'[e].id[2],
                    r # memCall'[e].id
             PROVE  Overlapped(r[1])'
  BY DEF FindsAll, Named
<1>1. CASE e = c
  <2>1. training' = training /\ memCall'[c].id \in training BY <1>1, Others DEF Reasons
  <2> PICK q \in training : q = memCall'[c].id BY <2>1
  <2>2. r \in training /\ r # q /\ r[2] = q[2] BY <1>1, <2>1
  <2>3. q \in MemoryCalls \X Lessons /\ r \in MemoryCalls \X Lessons BY <2>2 DEF MemTypes
  <2>4. r \in Named(q[2]) /\ q \in Named(q[2]) /\ q[2] \in Lessons BY <2>2, <2>3 DEF Named
  <2>5. {r[1], q[1]} \in paired BY <2>2, <2>4 DEF Answered
  <2>6. r[1] # q[1] /\ q[1] \in MemoryCalls BY <2>2, <2>3
  <2>. QED BY <2>5, <2>6, Others DEF Overlapped
<1>2. CASE e # c
  <2>1. memCall'[e] = memCall[e] BY <1>2, Others
  <2>2. CASE r \in training
    <3>1. r \in Named(memCall[e].id[2]) BY <2>1, <2>2 DEF Named
    <3>2. r[1] \in MemoryCalls BY <2>2 DEF MemTypes
    <3> PICK d \in MemoryCalls : d = r[1] BY <3>2
    <3>3. Overlapped(d) BY <2>1, <3>1 DEF FindsAll
    <3>4. Overlapped(d)' BY <3>3, Others
    <3>. QED BY <3>4
  <2>3. CASE r \notin training
    <3>1. r[1] = c /\ {c, e} \in paired'
      BY <1>2, <2>1, <2>3, NewEntries, EditorsOverlap, EditingCalls
    <3>. QED BY <1>2, <3>1 DEF Overlapped
  <2>. QED BY <2>2, <2>3
<1>. QED BY <1>1, <1>2

(* A part of a finite set has no more members.                             *)
LEMMA Fewer ==
    ASSUME NEW S, NEW T, IsFiniteSet(T), S \subseteq T
    PROVE  /\ IsFiniteSet(S) /\ Cardinality(S) \in Nat /\ Cardinality(T) \in Nat
           /\ Cardinality(S) <= Cardinality(T)
BY FS_Subset, FS_CardinalityType

(* A step keeps the counts of the saves about to insert.                   *)
LEMMA RoomKept ==
    ASSUME LessonsInv, NEW c \in MemoryCalls, CallStep(c), NEW e \in MemoryCalls
    PROVE  RoomFor(e)'
<1> USE DEF LessonsInv
<1> SUFFICES ASSUME memCall'[e].at = "insert", memCall'[e].table = "training"
             PROVE  Cardinality(Beside(e)') < MaxPerKind
  BY DEF RoomFor
<1>0. IsFiniteSet(training) /\ MaxPerKind \in Nat BY MemoryAssumption DEF MemTypes
<1>1. CASE e = c
  <2>1. training' = training /\ Cardinality(training) < MaxPerKind
    BY <1>1, Others DEF Reasons, HasRoom
  <2>2. Beside(e)' \subseteq training BY <2>1 DEF Beside
  <2>. QED BY <1>0, <2>1, <2>2, Fewer
<1>2. CASE e # c
  <2>1. memCall'[e] = memCall[e] BY <1>2, Others
  <2>2. Cardinality(Beside(e)) < MaxPerKind BY <2>1 DEF RoomFor
  <2>3. ASSUME NEW r \in Beside(e)' PROVE r \in Beside(e)
    <3>1. r \in training' /\ {r[1], e} \notin paired' BY <2>3 DEF Beside
    <3>2. r \in training
      <4> SUFFICES ASSUME r \notin training PROVE FALSE OBVIOUS
      <4>1. r[1] = c /\ {c, e} \in paired'
        BY <1>2, <2>1, <3>1, NewEntries, EditorsOverlap
      <4>. QED BY <3>1, <4>1
    <3>. QED BY <3>1, <3>2, Others DEF Beside
  <2>4. IsFiniteSet(Beside(e))
    <3>1. Beside(e) \subseteq training BY DEF Beside
    <3>. QED BY <1>0, <3>1, Fewer
  <2>5. Beside(e)' \subseteq Beside(e) BY <2>3
  <2>. QED BY <1>0, <2>2, <2>4, <2>5, Fewer
<1>. QED BY <1>1, <1>2

(* A step keeps the limit.                                                 *)
LEMMA LimitedKept ==
    ASSUME LessonsInv, NEW c \in MemoryCalls, CallStep(c)
    PROVE  Limited'
<1> USE DEF LessonsInv
<1> SUFFICES ASSUME NEW S \in SUBSET training',
                    \A r, s \in S : r # s => {r[1], s[1]} \notin paired'
             PROVE  Cardinality(S) <= MaxPerKind
  BY DEF Limited, Apart
<1>0. IsFiniteSet(training) /\ MaxPerKind \in Nat BY MemoryAssumption DEF MemTypes
<1>1. CASE S \subseteq training
  BY <1>1, Others DEF Limited, Apart
<1>2. CASE \E r \in S : r \notin training
  <2> PICK q \in S : q \notin training BY <1>2
  <2>1. InsertEntry(c) /\ q = <<c, Head(memCall[c].names)>> /\ q[1] = c
    BY NewEntries
  <2>2. S \ {q} \subseteq Beside(c)
    <3> SUFFICES ASSUME NEW r \in S, r # q PROVE r \in Beside(c) OBVIOUS
    <3>1. r \in training BY <2>1, NewEntries
    <3>2. {r[1], q[1]} \notin paired' BY <3>1
    <3>. QED BY <2>1, <3>1, <3>2, Others DEF Beside
  <2>3. Cardinality(Beside(c)) < MaxPerKind BY <2>1 DEF InsertEntry, RoomFor
  <2>4. Beside(c) \subseteq training BY DEF Beside
  <2>5. IsFiniteSet(Beside(c)) BY <1>0, <2>4, Fewer
  <2>6. /\ IsFiniteSet(S \ {q}) /\ Cardinality(S \ {q}) \in Nat /\ Cardinality(Beside(c)) \in Nat
        /\ Cardinality(S \ {q}) <= Cardinality(Beside(c))
    BY <2>2, <2>5, Fewer
  <2>7. S = (S \ {q}) \cup {q} OBVIOUS
  <2>8. Cardinality((S \ {q}) \cup {q}) = Cardinality(S \ {q}) + 1
    BY <2>6, FS_AddElement
  <2>9. Cardinality(S) = Cardinality(S \ {q}) + 1 BY <2>7, <2>8
  <2>. QED BY <1>0, <2>3, <2>6, <2>9
<1>. QED BY <1>1, <1>2

(* A step keeps every answer true.                                         *)
LEMMA AnsweredKept ==
    ASSUME LessonsInv, NEW c \in MemoryCalls, CallStep(c), NEW n \in Lessons
    PROVE  Answered(n)'
<1> USE DEF LessonsInv
<1>0. /\ paired \subseteq paired'
      /\ \A d \in MemoryCalls : Overlapped(d) => Overlapped(d)'
  BY Others
<1>1. ASSUME NEW r \in Named(n)', NEW s \in Named(n)', r # s
      PROVE  {r[1], s[1]} \in paired'
  <2>1. r \in training' /\ s \in training' /\ r[2] = n /\ s[2] = n BY <1>1 DEF Named
  <2>2. ASSUME NEW q \in training' \ training, q[2] = n, NEW t \in training, t[2] = n
        PROVE  {t[1], q[1]} \in paired' /\ {q[1], t[1]} \in paired'
    <3>1. InsertEntry(c) /\ q[1] = c /\ q[2] = Head(memCall[c].names) BY <2>2, NewEntries
    <3>2. t \in Named(Head(memCall[c].names)) BY <2>2, <3>1 DEF Named
    <3>3. {t[1], c} \in paired BY <3>1, <3>2 DEF InsertEntry, Waits
    <3>4. {t[1], c} = {c, t[1]} OBVIOUS
    <3>. QED BY <1>0, <3>1, <3>3, <3>4
  <2>3. CASE r \in training /\ s \in training
    <3>1. r \in Named(n) /\ s \in Named(n) BY <2>1, <2>3 DEF Named
    <3>. QED BY <1>0, <1>1, <3>1 DEF Answered
  <2>4. CASE r \in training /\ s \notin training BY <2>1, <2>2, <2>4
  <2>5. CASE r \notin training /\ s \in training BY <2>1, <2>2, <2>5
  <2>6. CASE r \notin training /\ s \notin training BY <1>1, <2>1, <2>6, NewEntries
  <2>. QED BY <2>3, <2>4, <2>5, <2>6
<1>2. ASSUME NEW m \in Lessons, NEW w \in {"there", "gone"}, Replies(c, m, w)
      PROVE  /\ m # n => answer'[n] = answer[n]
             /\ answer'[m] = [by |-> c, says |-> w]
             /\ answer'[m].by = c /\ answer'[m].says = w
  BY <1>2 DEF Replies, MemTypes
<1>3. ASSUME answer'[n].says = "there"
      PROVE  Named(n)' # {} \/ Overlapped(answer[n].by)'
  <2>1. CASE InsertEntry(c) /\ Head(memCall[c].names) = n
    <3>1. <<c, n>> \in training' BY <2>1 DEF InsertEntry
    <3>2. <<c, n>> \in Named(n)' BY <3>1 DEF Named
    <3>. QED BY <3>2
  <2>2. CASE UpdateEntry(c) /\ Head(memCall[c].names) = n
    <3>1. answer'[n].by = c BY <1>2, <2>2 DEF UpdateEntry
    <3>2. Named(n) # {} \/ Overlapped(c) BY <2>2 DEF UpdateEntry, Finds
    <3>3. training' = training BY <2>2 DEF UpdateEntry, tables
    <3>4. CASE Named(n) # {} BY <3>3, <3>4 DEF Named
    <3>5. CASE Overlapped(c) BY <1>0, <3>1, <3>5 DEF Overlapped
    <3>. QED BY <3>2, <3>4, <3>5
  <2>3. CASE answer'[n] = answer[n] /\ Named(n) \subseteq Named(n)'
    <3>1. CASE Named(n) # {} BY <2>3, <3>1
    <3>2. CASE Overlapped(answer[n].by) BY <1>0, <2>3, <3>2 DEF Overlapped
    <3>. QED BY <1>3, <2>3, <3>1, <3>2 DEF Answered
  <2>4. CASE InsertEntry(c) /\ Head(memCall[c].names) # n
    <3>1. memCall[c] \in Learning BY <2>4, KindsOfCall DEF InsertEntry, MemTypes
    <3>2. Head(memCall[c].names) \in Lessons BY <3>1, FieldsOfCall, SomeNames
    <3>3. answer'[n] = answer[n] BY <1>2, <2>4, <3>2 DEF InsertEntry
    <3>4. training \subseteq training' BY <2>4 DEF InsertEntry
    <3>. QED BY <2>3, <3>3, <3>4 DEF Named
  <2>5. CASE UpdateEntry(c) /\ Head(memCall[c].names) # n
    <3>1. memCall[c] \in Learning BY <2>5, KindsOfCall DEF UpdateEntry, MemTypes
    <3>2. Head(memCall[c].names) \in Lessons BY <3>1, FieldsOfCall, SomeNames
    <3>3. answer'[n] = answer[n] BY <1>2, <2>5, <3>2 DEF UpdateEntry
    <3>4. training' = training BY <2>5 DEF UpdateEntry, tables
    <3>. QED BY <2>3, <3>3, <3>4 DEF Named
  <2>6. CASE DeleteEntry(c)
    <3>1. memCall[c] \in Deleting BY <2>6, KindsOfCall DEF DeleteEntry, MemTypes
    <3> PICK q \in MemoryCalls \X Lessons : q = memCall[c].id BY <3>1, FieldsOfCall
    <3>2. q[2] \in Lessons /\ Replies(c, q[2], "gone") /\ training' = training \ {q}
      BY <2>6 DEF DeleteEntry
    <3>3. n # q[2] BY <1>2, <1>3, <3>2
    <3>4. answer'[n] = answer[n] BY <1>2, <3>2, <3>3
    <3>5. Named(n) \subseteq Named(n)' BY <3>2, <3>3 DEF Named
    <3>. QED BY <2>3, <3>4, <3>5
  <2>7. CASE FindEntry(c)
    <3>1. answer'[n] = answer[n] BY <1>2, <1>3, <2>7 DEF FindEntry
    <3>2. training' = training BY <2>7 DEF FindEntry, tables
    <3>. QED BY <2>3, <3>1, <3>2 DEF Named
  <2>8. CASE answer' = answer /\ training' = training
    BY <2>3, <2>8 DEF Named
  <2>. QED BY <2>1, <2>2, <2>4, <2>5, <2>6, <2>7, <2>8
       DEF CallStep, SaveMemory, LookMemory, InsertMemory, RenewMemory, ReadMemory,
           RewriteMemory, RemoveMemories, ReadSettings, WriteSettings, SaveEntry,
           ImportMarkdown, SeekEntry, CountEntries, SkipEntry, Breaks, tables
<1>4. ASSUME answer'[n].says = "gone", NEW r \in training', r[2] = n
      PROVE  Overlapped(r[1])'
  <2>0. r[1] \in MemoryCalls
    <3>1. MemTypes' BY TypesKept
    <3>2. r \in MemoryCalls \X Lessons BY <1>4, <3>1 DEF MemTypes
    <3>. QED BY <3>2
  <2> PICK a \in MemoryCalls : a = r[1] BY <2>0
  <2>1. CASE answer'[n] = answer[n] /\ r \in training
    <3>1. r \in Named(n) BY <1>4, <2>1 DEF Named
    <3>2. Overlapped(a) BY <1>4, <2>1, <3>1 DEF Answered
    <3>. QED BY <1>0, <3>2 DEF Overlapped
  <2>2. CASE InsertEntry(c) \/ UpdateEntry(c)
    <3>1. memCall[c] \in Learning BY <2>2, KindsOfCall DEF InsertEntry, UpdateEntry, MemTypes
    <3> PICK m \in Lessons : m = Head(memCall[c].names) BY <3>1, FieldsOfCall, SomeNames
    <3>2. Replies(c, m, "there") BY <2>2 DEF InsertEntry, UpdateEntry
    <3>3. m # n BY <1>2, <1>4, <3>2
    <3>4. answer'[n] = answer[n] BY <1>2, <3>2, <3>3
    <3>5. r \in training BY <1>4, <3>3, NewEntries
    <3>. QED BY <2>1, <3>4, <3>5
  <2>3. CASE DeleteEntry(c)
    <3>1. memCall[c] \in Deleting BY <2>3, KindsOfCall DEF DeleteEntry, MemTypes
    <3> PICK q \in MemoryCalls \X Lessons : q = memCall[c].id BY <3>1, FieldsOfCall
    <3>2. q[2] \in Lessons /\ Replies(c, q[2], "gone") /\ training' = training \ {q}
      BY <2>3 DEF DeleteEntry
    <3>3. r \in training /\ r # q BY <3>2
    <3>4. CASE q[2] # n BY <1>2, <2>1, <3>2, <3>3, <3>4
    <3>5. CASE q[2] = n
      <4>1. r \in Named(memCall[c].id[2]) BY <1>4, <3>3, <3>5 DEF Named
      <4>2. Overlapped(a) BY <2>3, <3>3, <4>1 DEF FindsAll, DeleteEntry
      <4>. QED BY <1>0, <4>2 DEF Overlapped
    <3>. QED BY <3>4, <3>5
  <2>4. CASE FindEntry(c)
    <3>1. training' = training BY <2>4 DEF FindEntry, tables
    <3>2. CASE answer' = answer BY <2>1, <3>1, <3>2
    <3>3. CASE \E m \in Lessons : Named(m) = {} /\ Replies(c, m, "gone")
      <4> PICK m \in Lessons : Named(m) = {} /\ Replies(c, m, "gone") BY <3>3
      <4>1. m # n BY <1>4, <3>1 DEF Named
      <4>. QED BY <1>2, <2>1, <3>1, <4>1
    <3>. QED BY <2>4, <3>2, <3>3 DEF FindEntry
  <2>5. CASE answer' = answer /\ training' = training
    BY <2>1, <2>5
  <2>. QED BY <2>2, <2>3, <2>4, <2>5
       DEF CallStep, SaveMemory, LookMemory, InsertMemory, RenewMemory, ReadMemory,
           RewriteMemory, RemoveMemories, ReadSettings, WriteSettings, SaveEntry,
           ImportMarkdown, SeekEntry, CountEntries, SkipEntry, Breaks, tables
<1>5. answer'[n].says = "gone" => \A r \in Named(n)' : Overlapped(r[1])'
  BY <1>4 DEF Named
<1>. QED BY <1>1, <1>3, <1>5 DEF Answered

(* The inductive invariant of the lessons holds in every state, for any    *)
(* number of calls and lessons and any limit.                              *)
THEOREM LessonsInvariant == MemorySpec => []LessonsInv
<1>1. MemoryInit => LessonsInv
  <2> SUFFICES ASSUME MemoryInit PROVE LessonsInv OBVIOUS
  <2>1. MemTypes BY MemoryInitTypes
  <2>2. \A c \in MemoryCalls : memCall[c].at = "idle" /\ memCall[c].table = "none"
    BY FieldsOfCall DEF MemoryInit
  <2>3. \A n \in Lessons : answer[n].says = "nothing" BY DEF MemoryInit, NoWord
  <2>4. training = {} BY DEF MemoryInit
  <2>5. Limited
    <3> SUFFICES ASSUME NEW S \in SUBSET {} PROVE Cardinality(S) <= MaxPerKind
      BY <2>4 DEF Limited
    <3>1. S = {} OBVIOUS
    <3>. QED BY <3>1, FS_EmptySet, MemoryAssumption
  <2>6. \A n : Named(n) = {} BY <2>4 DEF Named
  <2>7. Together /\ \A c \in MemoryCalls : Waits(c) /\ Finds(c) /\ FindsAll(c) /\ RoomFor(c)
    BY <2>2 DEF Together, Waits, Finds, FindsAll, RoomFor
  <2>. QED BY <2>1, <2>3, <2>5, <2>6, <2>7 DEF LessonsInv, Answered
<1>2. LessonsInv /\ [MemoryNext]_memoryVars => LessonsInv'
  <2> SUFFICES ASSUME LessonsInv, [MemoryNext]_memoryVars PROVE LessonsInv' OBVIOUS
  <2>1. ASSUME NEW c \in MemoryCalls, CallStep(c) PROVE LessonsInv'
    <3>0. MemTypes /\ Together BY DEF LessonsInv
    <3>1. MemTypes' BY <2>1, <3>0, TypesKept
    <3>2. Together' BY <2>1, <3>0, TogetherKept, ShapeOfSteps
    <3>3. \A e \in MemoryCalls : Waits(e)' BY <2>1, WaitsKept
    <3>4. \A e \in MemoryCalls : Finds(e)' BY <2>1, FindsKept
    <3>5. \A e \in MemoryCalls : FindsAll(e)' BY <2>1, FindsAllKept
    <3>6. \A e \in MemoryCalls : RoomFor(e)' BY <2>1, RoomKept
    <3>7. \A n \in Lessons : Answered(n)' BY <2>1, AnsweredKept
    <3>8. Limited' BY <2>1, LimitedKept
    <3>. QED BY <3>1, <3>2, <3>3, <3>4, <3>5, <3>6, <3>7, <3>8 DEF LessonsInv
  <2>2. CASE MemoryTick \/ UNCHANGED memoryVars
    <3>1. /\ MemTypes'
          /\ training' = training /\ memCall' = memCall /\ paired' = paired /\ answer' = answer
      BY <2>2, StillClock DEF LessonsInv
    <3>2. Together' BY <3>1 DEF LessonsInv, Together
    <3>3. \A e \in MemoryCalls : Waits(e)' /\ Finds(e)' BY <3>1 DEF LessonsInv, Waits, Finds, Named, Overlapped
    <3>4. \A e \in MemoryCalls : FindsAll(e)' /\ RoomFor(e)'
      BY <3>1 DEF LessonsInv, FindsAll, RoomFor, Beside, Named, Overlapped
    <3>5. \A n \in Lessons : Answered(n)' BY <3>1 DEF LessonsInv, Answered, Named, Overlapped
    <3>6. Limited' BY <3>1 DEF LessonsInv, Limited, Apart
    <3>. QED BY <3>1, <3>2, <3>3, <3>4, <3>5, <3>6 DEF LessonsInv
  <2>. QED BY <2>1, <2>2 DEF MemoryNext, CallStep
<1>. QED BY <1>1, <1>2, PTL DEF MemorySpec

(* A lesson answered as saved is there, one answered as removed is not,    *)
(* and there are no two rows of a name nor more rows than the limit        *)
(* (save_named_training, remove_named_training, import_markdown), with the *)
(* exceptions that TrainingAnswersHold names.                              *)
THEOREM TrainingAnswersAreTrue == MemorySpec => []TrainingAnswersHold
<1>1. LessonsInv => TrainingAnswersHold
  <2> SUFFICES ASSUME LessonsInv PROVE TrainingAnswersHold OBVIOUS
  <2>1. Cardinality(training) \in Nat /\ MaxPerKind \in Nat
    BY FS_CardinalityType, MemoryAssumption DEF LessonsInv, MemTypes
  <2>2. ~Apart(training) \/ Cardinality(training) <= MaxPerKind BY DEF LessonsInv, Limited
  <2>3. \A n \in Lessons : Answered(n) BY DEF LessonsInv
  <2>4. ASSUME Cardinality(training) > MaxPerKind
        PROVE  \E r, s \in training : r # s /\ {r[1], s[1]} \in paired
    <3>1. ~Apart(training) BY <2>1, <2>2, <2>4
    <3>. QED BY <3>1 DEF Apart
  <2>. QED BY <2>3, <2>4 DEF TrainingAnswersHold, Answered
<1>. QED BY <1>1, LessonsInvariant, PTL

=============================================================================
