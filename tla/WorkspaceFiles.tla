---------------------------- MODULE WorkspaceFiles ----------------------------
(***************************************************************************)
(* The governed file operations of workspace_files.py.  A mutation is      *)
(* planned, approved by the fingerprint of its plan, and applied by a call *)
(* that plans again: it copies what it is about to change to a directory   *)
(* named by the fingerprint, writes a manifest there, changes the file,    *)
(* runs a verification command, compares the result, and on failure undoes *)
(* the change from the copies.  Anyone may undo it so later.               *)
(*                                                                         *)
(* Calls overlap, and editors and the verification commands write to the   *)
(* same files.  A plan is computed, and a file read, copied or renamed, in *)
(* one step; a file is written in two, truncated first.                    *)
(***************************************************************************)
EXTENDS Naturals

CONSTANTS
    Paths,
    Contents,
    Arguments, \* the mutations that may be asked for
    InitialDisk,
    Applies,   \* calls of workspace_file_apply
    MaxMishaps \* bound: writes by others and crashes of the process

Operations == {"create", "write", "patch", "delete", "move"}

ASSUME ContentsAssumption == Contents \cap {"MISSING", "TORN", "NONE"} = {}
ASSUME ArgumentsAssumption ==
    /\ Arguments # {}
    /\ \A a \in Arguments : /\ a.op \in Operations
                            /\ a.path \in Paths
                            /\ a.dest \in Paths \cup {"NONE"}
                            /\ a.op = "move" <=> a.dest # "NONE"
                            /\ a.dest # a.path
                            /\ a.content \in Contents
ASSUME InitialDiskAssumption == InitialDisk \in [Paths -> Contents \cup {"MISSING"}]
ASSUME WorkspaceBoundsAssumption == MaxMishaps \in Nat

VARIABLES
    disk,      \* the content of each path
    apply,     \* where each call stands
    asked,     \* the arguments of each call
    source,    \* the content of its path that the approved plan was made for
    seen,      \* what its snapshots found: [source, dest]
    rollback,  \* .ade/rollback/files/<fingerprint>
    disturbed, \* history: calls beside which another wrote to their files,
               \* or which were undone by the manifest of another
    mishaps    \* bound used so far

workspaceVars == <<disk, apply, asked, source, seen, rollback, disturbed, mishaps>>

-----------------------------------------------------------------------------

(* A file that was truncated and not written yet reads as empty.           *)
OnDisk == Contents \cup {"MISSING", "TORN"}

Active == {"planned", "snapped", "copied", "guarded", "torn", "mutated", "verified",
           "rolling", "rolled", "undoing", "restored"}

(* Before the manifest of the call itself.                                 *)
Unguarded == {"planned", "snapped", "copied"}

(* lapsed: dead before the manifest; a refused call has changed nothing.   *)
Over == {"passed", "rolledback", "raised", "undone", "lapsed", "dead"}

(* The digest of a plan: its arguments with the hash of the source; the    *)
(* content of a patch is its result.                                       *)
Fingerprints == Arguments \X OnDisk

Digest(c) == <<asked[c], source[c]>>

NoRollback == [written |-> FALSE, hadSource |-> FALSE, hadDest |-> FALSE,
               source |-> "NONE", dest |-> "NONE"]

WorkspaceInit ==
    /\ disk = InitialDisk
    /\ apply = [c \in Applies |-> "idle"]
    /\ asked = [c \in Applies |-> CHOOSE a \in Arguments : TRUE]
    /\ source = [c \in Applies |-> "MISSING"]
    /\ seen = [c \in Applies |-> [source |-> FALSE, dest |-> FALSE]]
    /\ rollback = [f \in Fingerprints |-> NoRollback]
    /\ disturbed = {}
    /\ mishaps = 0

(* disturbed, when c writes to these paths or to its own directory.        *)
Writing(c, paths) ==
    disturbed \cup {d \in Applies \ {c} : {asked[d].path, asked[d].dest} \cap paths # {}}

Guarding(c) == disturbed \cup {d \in Applies \ {c} : Digest(d) = Digest(c)}

-----------------------------------------------------------------------------
(* workspace_file_plan.                                                    *)

Plannable(a) ==
    \/ a.op = "create" /\ disk[a.path] = "MISSING"
    \/ a.op \in {"write", "delete"} /\ disk[a.path] # "MISSING"
    \/ a.op = "patch" /\ disk[a.path] \in Contents
    \/ a.op = "move" /\ disk[a.path] # "MISSING" /\ disk[a.dest] = "MISSING"

(* A plan is made, and its fingerprint approved.                           *)
Ask(c) ==
    /\ apply[c] = "idle"
    /\ \E a \in Arguments :
          /\ Plannable(a)
          /\ asked' = [asked EXCEPT ![c] = a]
          /\ source' = [source EXCEPT ![c] = disk[a.path]]
    /\ apply' = [apply EXCEPT ![c] = "asked"]
    /\ UNCHANGED <<disk, seen, rollback, disturbed, mishaps>>

-----------------------------------------------------------------------------
(* workspace_file_apply.                                                   *)

Moves(c, from, to) ==
    /\ apply[c] = from
    /\ apply' = [apply EXCEPT ![c] = to]
    /\ UNCHANGED <<asked, source, mishaps>>

Replan(c) ==
    /\ Moves(c, "asked", "planned")
    /\ Plannable(asked[c])
    /\ disk[asked[c].path] = source[c]
    /\ disturbed' = disturbed \ {c}
    /\ UNCHANGED <<disk, seen, rollback>>

RefuseStale(c) ==
    /\ Moves(c, "asked", "refused")
    /\ ~(Plannable(asked[c]) /\ disk[asked[c].path] = source[c])
    /\ UNCHANGED <<disk, seen, rollback, disturbed>>

(* An older copy stays where there is nothing to copy.                     *)
SnapshotSource(c) ==
    LET there == disk[asked[c].path] # "MISSING"
    IN  /\ Moves(c, "planned", IF asked[c].op = "move" THEN "snapped" ELSE "copied")
        /\ seen' = [seen EXCEPT ![c] = [source |-> there, dest |-> FALSE]]
        /\ rollback' = [rollback EXCEPT ![Digest(c)].source =
                            IF there THEN disk[asked[c].path] ELSE @]
        /\ disturbed' = Guarding(c)
        /\ UNCHANGED disk

SnapshotDest(c) ==
    LET there == disk[asked[c].dest] # "MISSING"
    IN  /\ Moves(c, "snapped", "copied")
        /\ seen' = [seen EXCEPT ![c].dest = there]
        /\ rollback' = [rollback EXCEPT ![Digest(c)].dest =
                            IF there THEN disk[asked[c].dest] ELSE @]
        /\ disturbed' = Guarding(c)
        /\ UNCHANGED disk

(* Variant: the manifest is written when the change is made.               *)
SkipManifest(c) ==
    /\ Moves(c, "copied", "guarded")
    /\ UNCHANGED <<disk, seen, rollback, disturbed>>

WriteManifest(c) ==
    /\ Moves(c, "copied", "guarded")
    /\ rollback' = [rollback EXCEPT ![Digest(c)].written = TRUE,
                                    ![Digest(c)].hadSource = seen[c].source,
                                    ![Digest(c)].hadDest = seen[c].dest]
    /\ disturbed' = Guarding(c)
    /\ UNCHANGED <<disk, seen>>

Rename(c) ==
    /\ asked[c].op = "move"
    /\ disk[asked[c].path] # "MISSING"
    /\ Moves(c, "guarded", "mutated")
    /\ disk' = [disk EXCEPT ![asked[c].dest] = disk[asked[c].path], ![asked[c].path] = "MISSING"]
    /\ disturbed' = Writing(c, {asked[c].path, asked[c].dest})
    /\ UNCHANGED <<seen, rollback>>

Unlink(c) ==
    /\ asked[c].op = "delete"
    /\ disk[asked[c].path] # "MISSING"
    /\ Moves(c, "guarded", "mutated")
    /\ disk' = [disk EXCEPT ![asked[c].path] = "MISSING"]
    /\ disturbed' = Writing(c, {asked[c].path})
    /\ UNCHANGED <<seen, rollback>>

(* A patch reads its file again; the text it replaces occurs once in what  *)
(* it was planned for and in no other content.                             *)
Truncate(c) ==
    /\ asked[c].op \in {"create", "write", "patch"}
    /\ asked[c].op = "patch" => disk[asked[c].path] = source[c]
    /\ Moves(c, "guarded", "torn")
    /\ disk' = [disk EXCEPT ![asked[c].path] = "TORN"]
    /\ disturbed' = Writing(c, {asked[c].path})
    /\ UNCHANGED <<seen, rollback>>

Fill(c) ==
    /\ Moves(c, "torn", "mutated")
    /\ disk' = [disk EXCEPT ![asked[c].path] = asked[c].content]
    /\ disturbed' = Writing(c, {asked[c].path})
    /\ UNCHANGED <<seen, rollback>>

MutationRaises(c) ==
    /\ \/ asked[c].op \in {"move", "delete"} /\ disk[asked[c].path] = "MISSING"
       \/ asked[c].op = "patch" /\ disk[asked[c].path] # source[c]
    /\ Moves(c, "guarded", "raised")
    /\ UNCHANGED <<disk, seen, rollback, disturbed>>

(* The verification command succeeds, fails, or cannot be started.         *)
Verify(c) ==
    /\ \E to \in {"verified", "rolling", "raised"} : Moves(c, "mutated", to)
    /\ UNCHANGED <<disk, seen, rollback, disturbed>>

Resulting(c) ==
    CASE asked[c].op = "move" -> disk[asked[c].dest] = source[c]
      [] asked[c].op = "delete" -> disk[asked[c].path] = "MISSING"
      [] OTHER -> disk[asked[c].path] = asked[c].content

CheckResult(c) ==
    /\ Moves(c, "verified", IF Resulting(c) THEN "passed" ELSE "rolling")
    /\ UNCHANGED <<disk, seen, rollback, disturbed>>

-----------------------------------------------------------------------------
(* workspace_file_undo, in a call or for itself.                           *)

(* For a call that lapsed, it finds the manifest of an earlier call with   *)
(* the same fingerprint.                                                   *)
BeginUndo(c) ==
    /\ rollback[Digest(c)].written
    /\ \E from \in Over : Moves(c, from, "undoing")
    /\ disturbed' = disturbed \cup ({c} \cap {d \in Applies : apply[d] = "lapsed"})
    /\ UNCHANGED <<disk, seen, rollback>>

(* Variant: a file that the change created stays.                          *)
UndoSourceKeeping(c) ==
    LET saved == rollback[Digest(c)]
        after == IF apply[c] = "rolling" THEN "rolled" ELSE "restored"
    IN  /\ \E from \in {"rolling", "undoing"} : Moves(c, from, after)
        /\ disk' = [disk EXCEPT ![asked[c].path] = IF saved.hadSource THEN saved.source ELSE @]
        /\ disturbed' = Writing(c, {asked[c].path})
        /\ UNCHANGED <<seen, rollback>>

UndoSource(c) ==
    LET saved == rollback[Digest(c)]
        after == IF apply[c] = "rolling" THEN "rolled" ELSE "restored"
    IN  /\ \E from \in {"rolling", "undoing"} : Moves(c, from, after)
        /\ disk' = [disk EXCEPT ![asked[c].path] =
                        IF saved.hadSource THEN saved.source ELSE "MISSING"]
        /\ disturbed' = Writing(c, {asked[c].path})
        /\ UNCHANGED <<seen, rollback>>

UndoDest(c) ==
    LET saved == rollback[Digest(c)]
        after == IF apply[c] = "rolled" THEN "rolledback" ELSE "undone"
    IN  /\ \E from \in {"rolled", "restored"} : Moves(c, from, after)
        /\ \/ /\ asked[c].op = "move"
              /\ disk' = [disk EXCEPT ![asked[c].dest] =
                              IF saved.hadDest THEN saved.dest ELSE "MISSING"]
              /\ disturbed' = Writing(c, {asked[c].dest})
           \/ /\ asked[c].op # "move"
              /\ UNCHANGED <<disk, disturbed>>
        /\ UNCHANGED <<seen, rollback>>

-----------------------------------------------------------------------------
(* Editors, commands, and the death of the process.                        *)

Edit(p) ==
    /\ mishaps < MaxMishaps
    /\ mishaps' = mishaps + 1
    /\ \E content \in (Contents \cup {"MISSING"}) \ {disk[p]} : disk' = [disk EXCEPT ![p] = content]
    /\ disturbed' = disturbed \cup {c \in Applies : p \in {asked[c].path, asked[c].dest}}
    /\ UNCHANGED <<apply, asked, source, seen, rollback>>

Die ==
    /\ mishaps < MaxMishaps
    /\ mishaps' = mishaps + 1
    /\ apply' = [c \in Applies |-> IF apply[c] \in Unguarded THEN "lapsed"
                                   ELSE IF apply[c] \in Active THEN "dead" ELSE apply[c]]
    /\ UNCHANGED <<disk, asked, source, seen, rollback, disturbed>>

WorkspaceNext ==
    \/ \E c \in Applies :
          \/ Ask(c) \/ Replan(c) \/ RefuseStale(c) \/ SnapshotSource(c) \/ SnapshotDest(c)
          \/ WriteManifest(c) \/ Rename(c) \/ Unlink(c) \/ Truncate(c) \/ Fill(c)
          \/ MutationRaises(c) \/ Verify(c) \/ CheckResult(c)
          \/ BeginUndo(c) \/ UndoSource(c) \/ UndoDest(c)
    \/ \E p \in Paths : Edit(p)
    \/ Die

WorkspaceSpec == WorkspaceInit /\ [][WorkspaceNext]_workspaceVars

-----------------------------------------------------------------------------

WorkspaceTypeOK ==
    /\ disk \in [Paths -> OnDisk]
    /\ apply \in [Applies -> {"idle", "asked", "refused"} \cup Active \cup Over]
    /\ asked \in [Applies -> Arguments]
    /\ source \in [Applies -> OnDisk]
    /\ seen \in [Applies -> [source : BOOLEAN, dest : BOOLEAN]]
    /\ rollback \in [Fingerprints -> [written : BOOLEAN, hadSource : BOOLEAN, hadDest : BOOLEAN,
                                       source : OnDisk \cup {"NONE"}, dest : OnDisk \cup {"NONE"}]]
    /\ disturbed \subseteq Applies
    /\ mishaps \in 0..MaxMishaps

(* What the call found: its source as approved, its destination missing.   *)
Unchanged(c) ==
    /\ disk[asked[c].path] = source[c]
    /\ asked[c].op = "move" => disk[asked[c].dest] = "MISSING"

(* An undo by the fingerprint of the call brings that back.                *)
Restorable(c) ==
    LET saved == rollback[Digest(c)]
    IN  /\ saved.written
        /\ saved.hadSource = (source[c] # "MISSING")
        /\ saved.hadSource => saved.source = source[c]
        /\ asked[c].op = "move" => ~saved.hadDest

(* At every instant of workspace_file_apply and workspace_file_undo        *)
(* (workspace_files.py), in a crash too, the files are what the approved   *)
(* plan found, or the directory of its fingerprint holds all it takes to   *)
(* bring that back, unless someone else wrote to the files or the          *)
(* directory, or it died before its manifest and was undone by an older    *)
(* one.                                                                    *)
NothingIsLost ==
    \A c \in Applies \ disturbed :
        apply[c] \in Active \cup Over => Unchanged(c) \/ Restorable(c)

(* A call that workspace_file_apply answers as rolled back, or             *)
(* workspace_file_undo as undone, has left nothing behind.                 *)
RolledBackIsUnchanged ==
    \A c \in Applies \ disturbed : apply[c] \in {"rolledback", "undone"} => Unchanged(c)
=============================================================================
