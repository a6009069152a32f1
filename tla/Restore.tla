------------------------------- MODULE Restore -------------------------------
(***************************************************************************)
(* Restoring an official backup over the world (backups.py): the safety    *)
(* copy, the staging directory, the replacement component by component,    *)
(* the journal row that survives a crash (persistence.py), and resume and  *)
(* rollback, which start again from whatever the journal and the disk say. *)
(*                                                                         *)
(* A directory is a tree: one content per component.  Its checksums are    *)
(* the tree itself, so two trees have equal checksums exactly when their   *)
(* contents are equal.  The thread holds the control lock from its first   *)
(* step to its last: pc = "idle" is the same as the lock being free.       *)
(***************************************************************************)
EXTENDS Naturals, FiniteSets

CONSTANTS
  Versions,    \* contents a component can have when it was written in full
  GameWorlds,  \* the worlds the game saves, one content per component
  Torn,        \* content of a component whose copy or removal was cut short
  Absent,      \* the component does not exist
  NoTree,      \* the directory does not exist, or no checksum is recorded
  MaxCopies,   \* directories under backup/world over the whole run
  MaxCrashes,  \* console crashes
  MaxFaults,   \* file operations that fail with an I/O error
  MaxMeddles   \* directories under backup/world damaged from outside

ASSUME ContentsDistinct ==
  /\ Torn \notin Versions /\ Absent \notin Versions /\ Torn # Absent
ASSUME GameWorldsWhole == GameWorlds \subseteq [{1, 2, 3} -> Versions]
ASSUME BoundsAreNat ==
  /\ MaxCopies \in Nat \ {0}
  /\ MaxCrashes \in Nat /\ MaxFaults \in Nat /\ MaxMeddles \in Nat

VARIABLES
  world,     \* the live world
  copies,    \* backup/world: official backups and safety copies, by age
  staging,   \* the staging directory of the current journal
  journal,   \* the row of restore_journal
  pc,        \* where the thread that holds the control lock is
  todo,      \* components this thread has still to copy
  running,   \* TRUE while PalServer runs
  origin,    \* history: the world when the current restore began
  spent      \* crashes, faults and meddles used up so far

vars == <<world, copies, staging, journal, pc, todo, running, origin, spent>>

\* RESTORE_COMPONENTS, in the order in which they are replaced.
Components == {1, 2, 3}
Level == 1
LevelMeta == 2
Players == 3

CopyIds == 1..MaxCopies
Contents == Versions \union {Torn, Absent}
Trees == [Components -> Contents]
Nothing == [c \in Components |-> Absent]

ASSUME NoTreeIsFresh == NoTree \notin Trees

Phases == {"none", "safety_copy", "staging", "ready", "replacing", "committing",
           "completed", "rollback_pending", "rolled_back", "rollback_failed"}
RestoreTerminalPhases == {"none", "completed", "rolled_back"}
\* Mutant: "replacing" counts as a phase in which nothing was replaced.
EarlyAndReplacing == {"safety_copy", "staging", "ready", "replacing"}

EarlyPhases == {"safety_copy", "staging", "ready"}

Points == {"idle", "prepareSafety", "copySafety", "prepareStaging", "copyStaging",
           "forward", "replace", "verify", "commit", "failure", "giveUp",
           "rollback", "undo", "undone", "rollbackFailed"}

Journals ==
  [phase : Phases, source : CopyIds, safety : CopyIds, completed : SUBSET Components,
   sourceSum : Trees \union {NoTree}, safetySum : Trees \union {NoTree},
   stagingSum : Trees \union {NoTree}]

NoJournal ==
  [phase |-> "none", source |-> 1, safety |-> 1, completed |-> {},
   sourceSum |-> NoTree, safetySum |-> NoTree, stagingSum |-> NoTree]

\* _component_checksums raises on a tree that lacks a component.
Readable(tree) == tree # NoTree /\ \A c \in Components : tree[c] # Absent

RecoveryActive == journal.phase \notin RestoreTerminalPhases

First(set) == CHOOSE c \in set : \A d \in set : c <= d

Safety == copies[journal.safety]
Source == copies[journal.source]

Init ==
  /\ world \in GameWorlds
  /\ \E backup \in GameWorlds :
       copies = [i \in CopyIds |-> IF i = 1 THEN backup ELSE NoTree]
  /\ staging = NoTree
  /\ journal = NoJournal
  /\ pc = "idle"
  /\ todo = {}
  /\ running = FALSE
  /\ origin = world
  /\ spent = [crashes |-> 0, faults |-> 0, meddles |-> 0]

(***************************************************************************)
(* restore, resume and rollback requests                                   *)
(***************************************************************************)

\* The safety copy gets the name of the current second: later than every
\* directory that exists.
FreshId(i) == copies[i] = NoTree /\ \A j \in CopyIds : copies[j] # NoTree => j < i

\* Mutant: an unfinished restore does not stop the next one.
BeginRestoreAgain(source, safety) ==
  /\ pc = "idle"
  /\ ~running
  /\ Readable(copies[source])
  /\ FreshId(safety)
  /\ journal' = [NoJournal EXCEPT !.phase = "safety_copy", !.source = source,
                   !.safety = safety, !.sourceSum = copies[source]]
  /\ staging' = NoTree
  /\ origin' = world
  /\ pc' = "prepareSafety"
  /\ UNCHANGED <<world, copies, todo, running, spent>>

BeginRestore(source, safety) ==
  /\ pc = "idle"
  /\ ~running
  /\ ~RecoveryActive
  /\ Readable(copies[source])
  /\ FreshId(safety)
  /\ journal' = [NoJournal EXCEPT !.phase = "safety_copy", !.source = source,
                   !.safety = safety, !.sourceSum = copies[source]]
  /\ staging' = NoTree
  /\ origin' = world
  /\ pc' = "prepareSafety"
  /\ UNCHANGED <<world, copies, todo, running, spent>>

ResumeRestore ==
  /\ pc = "idle"
  /\ ~running
  /\ RecoveryActive
  /\ journal.phase # "rollback_failed"
  /\ pc' = "prepareSafety"
  /\ UNCHANGED <<world, copies, staging, journal, todo, running, origin, spent>>

RollbackRestore ==
  /\ pc = "idle"
  /\ ~running
  /\ RecoveryActive
  /\ pc' = "rollback"
  /\ UNCHANGED <<world, copies, staging, journal, todo, running, origin, spent>>

(***************************************************************************)
(* _prepare_safety_copy                                                    *)
(***************************************************************************)

\* Mutant: the phase moves on without the checksum.
PhaseOnly(tree) == [journal EXCEPT !.phase = IF @ = "safety_copy" THEN "staging" ELSE @]

\* The safety checksum is recorded; only the first phase moves on.
Sealed(tree) ==
  [journal EXCEPT !.safetySum = tree,
                  !.phase = IF @ = "safety_copy" THEN "staging" ELSE @]

\* A directory that can be read and has no recorded checksum is taken as the
\* safety copy, whoever wrote it and however far.
AdoptSafety ==
  /\ Readable(Safety)
  /\ journal.safetySum = NoTree
  /\ journal' = Sealed(Safety)
  /\ pc' = "prepareStaging"
  /\ UNCHANGED <<world, copies, staging, todo, running, origin, spent>>

KeepSafety ==
  /\ Readable(Safety)
  /\ journal.safetySum = Safety
  /\ pc' = "prepareStaging"
  /\ UNCHANGED <<world, copies, staging, journal, todo, running, origin, spent>>

SafetyInvalid ==
  /\ Safety # NoTree
  /\ journal.safetySum # NoTree
  /\ journal.safetySum # Safety
  /\ pc' = "failure"
  /\ UNCHANGED <<world, copies, staging, journal, todo, running, origin, spent>>

\* No directory, or an unreadable one that no checksum speaks for.
StartSafetyCopy ==
  /\ \/ Safety = NoTree
     \/ ~Readable(Safety) /\ journal.safetySum = NoTree
  /\ copies' = [copies EXCEPT ![journal.safety] = Nothing]
  /\ todo' = Components
  /\ pc' = "copySafety"
  /\ UNCHANGED <<world, staging, journal, running, origin, spent>>

PrepareSafety ==
  /\ pc = "prepareSafety"
  /\ AdoptSafety \/ KeepSafety \/ SafetyInvalid \/ StartSafetyCopy

\* copytree visits the entries in the order of the file system.
CopySafety(c) ==
  /\ pc = "copySafety"
  /\ c \in todo
  /\ IF Safety # NoTree
     THEN /\ copies' = [copies EXCEPT ![journal.safety][c] = world[c]]
          /\ todo' = todo \ {c}
          /\ UNCHANGED pc
     ELSE pc' = "failure" /\ UNCHANGED <<copies, todo>>
  /\ UNCHANGED <<world, staging, journal, running, origin, spent>>

SealSafety ==
  /\ pc = "copySafety"
  /\ todo = {}
  /\ IF Readable(Safety)
     THEN journal' = Sealed(Safety) /\ pc' = "prepareStaging"
     ELSE pc' = "failure" /\ UNCHANGED journal
  /\ UNCHANGED <<world, copies, staging, todo, running, origin, spent>>

(***************************************************************************)
(* _prepare_staging                                                        *)
(***************************************************************************)

StagingReady ==
  [journal EXCEPT !.stagingSum = staging,
                  !.phase = IF @ \in {"safety_copy", "staging"} THEN "ready" ELSE @]

BackupChanged == Source # journal.sourceSum

StagingIntact == Readable(staging) /\ staging = journal.stagingSum

PrepareStaging ==
  /\ pc = "prepareStaging"
  /\ \/ /\ BackupChanged
        /\ pc' = "failure"
        /\ UNCHANGED <<staging, journal, todo>>
     \/ /\ ~BackupChanged
        /\ StagingIntact
        /\ journal' = StagingReady
        /\ pc' = "forward"
        /\ UNCHANGED <<staging, todo>>
     \/ /\ ~BackupChanged
        /\ ~StagingIntact
        /\ staging' = Nothing
        /\ todo' = Components
        /\ pc' = "copyStaging"
        /\ UNCHANGED journal
  /\ UNCHANGED <<world, copies, running, origin, spent>>

CopyStaging ==
  /\ pc = "copyStaging"
  /\ todo # {}
  /\ IF Source # NoTree /\ Source[First(todo)] # Absent
     THEN /\ staging' = [staging EXCEPT ![First(todo)] = Source[First(todo)]]
          /\ todo' = todo \ {First(todo)}
          /\ UNCHANGED pc
     ELSE pc' = "failure" /\ UNCHANGED <<staging, todo>>
  /\ UNCHANGED <<world, copies, journal, running, origin, spent>>

SealStaging ==
  /\ pc = "copyStaging"
  /\ todo = {}
  /\ journal' = StagingReady
  /\ pc' = "forward"
  /\ UNCHANGED <<world, copies, staging, todo, running, origin, spent>>

(***************************************************************************)
(* _execute_forward                                                        *)
(***************************************************************************)

Current == First(Components \ journal.completed)

Replacing(done) ==
  journal' = [journal EXCEPT !.phase = "replacing", !.completed = done]

\* The next component is already in place, or is staged and may be replaced.
Forward ==
  /\ pc = "forward"
  /\ journal.completed # Components
  /\ \/ /\ world[Current] = journal.sourceSum[Current]
        /\ Replacing(journal.completed \union {Current})
        /\ UNCHANGED pc
     \/ /\ world[Current] # journal.sourceSum[Current]
        /\ staging[Current] = journal.sourceSum[Current]
        /\ Replacing(journal.completed)
        /\ pc' = "replace"
     \/ /\ world[Current] # journal.sourceSum[Current]
        /\ staging[Current] # journal.sourceSum[Current]
        /\ pc' = "failure"
        /\ UNCHANGED journal
  /\ UNCHANGED <<world, copies, staging, todo, running, origin, spent>>

\* os.replace moves a file over its target; a directory is removed first.
Replace ==
  /\ pc = "replace"
  /\ IF Current = Players /\ world[Players] # Absent
     THEN /\ world' = [world EXCEPT ![Players] = Absent]
          /\ UNCHANGED <<staging, pc>>
     ELSE /\ world' = [world EXCEPT ![Current] = staging[Current]]
          /\ staging' = [staging EXCEPT ![Current] = Absent]
          /\ pc' = "verify"
  /\ UNCHANGED <<copies, journal, todo, running, origin, spent>>

VerifyTarget ==
  /\ pc = "verify"
  /\ IF world[Current] = journal.sourceSum[Current]
     THEN Replacing(journal.completed \union {Current}) /\ pc' = "forward"
     ELSE pc' = "failure" /\ UNCHANGED journal
  /\ UNCHANGED <<world, copies, staging, todo, running, origin, spent>>

StartCommit ==
  /\ pc = "forward"
  /\ journal.completed = Components
  /\ journal' = [journal EXCEPT !.phase = "committing"]
  /\ pc' = "commit"
  /\ UNCHANGED <<world, copies, staging, todo, running, origin, spent>>

\* Mutant: the list of completed components is believed.
NoFinalCheck == journal.completed = Components

FinalCheck == world = journal.sourceSum

Commit ==
  /\ pc = "commit"
  /\ IF FinalCheck
     THEN /\ journal' = [journal EXCEPT !.phase = "completed"]
          /\ staging' = NoTree
          /\ pc' = "idle"
     ELSE pc' = "failure" /\ UNCHANGED <<staging, journal>>
  /\ UNCHANGED <<world, copies, todo, running, origin, spent>>

(***************************************************************************)
(* _handle_restore_failure and _rollback_from_safety                       *)
(***************************************************************************)

HandleFailure ==
  /\ pc = "failure"
  /\ journal' = [journal EXCEPT !.phase = "rollback_pending"]
  /\ pc' = IF journal.phase \in EarlyPhases THEN "giveUp" ELSE "rollback"
  /\ UNCHANGED <<world, copies, staging, todo, running, origin, spent>>

\* The journal ends.  The staging directory is removed or left under a name
\* that no later journal uses.
RolledBack ==
  /\ journal' = [journal EXCEPT !.phase = "rolled_back"]
  /\ staging' = NoTree
  /\ pc' = "idle"
  /\ UNCHANGED <<world, copies, todo, running, origin, spent>>

\* A failure in an early phase: nothing was replaced, nothing is copied back.
GiveUp == pc = "giveUp" /\ RolledBack

SafetyUsable == Readable(Safety) /\ Safety = journal.safetySum

StartUndo ==
  /\ pc = "rollback"
  /\ IF SafetyUsable
     THEN pc' = "undo" /\ todo' = Components
     ELSE pc' = "rollbackFailed" /\ UNCHANGED todo
  /\ UNCHANGED <<world, copies, staging, journal, running, origin, spent>>

\* Mutant: copytree finds the old Players directory and refuses.
UndoWithoutRemoving ==
  /\ pc = "undo"
  /\ todo # {}
  /\ IF Safety = NoTree \/ (First(todo) = Players /\ world[Players] # Absent)
     THEN pc' = "rollbackFailed" /\ UNCHANGED <<world, todo>>
     ELSE /\ world' = [world EXCEPT ![First(todo)] = Safety[First(todo)]]
          /\ todo' = todo \ {First(todo)}
          /\ UNCHANGED pc
  /\ UNCHANGED <<copies, staging, journal, running, origin, spent>>

Undo ==
  /\ pc = "undo"
  /\ todo # {}
  /\ IF Safety # NoTree /\ Safety[First(todo)] # Absent
     THEN /\ world' = [world EXCEPT ![First(todo)] = Safety[First(todo)]]
          /\ todo' = todo \ {First(todo)}
          /\ UNCHANGED pc
     ELSE /\ world' = IF First(todo) = Players
                       THEN [world EXCEPT ![Players] = Absent] ELSE world
          /\ pc' = "rollbackFailed"
          /\ UNCHANGED todo
  /\ UNCHANGED <<copies, staging, journal, running, origin, spent>>

VerifyUndo ==
  /\ pc = "undo"
  /\ todo = {}
  /\ IF world = journal.safetySum
     THEN /\ journal' = [journal EXCEPT !.phase = "rollback_pending"]
          /\ pc' = "undone"
     ELSE pc' = "rollbackFailed" /\ UNCHANGED journal
  /\ UNCHANGED <<world, copies, staging, todo, running, origin, spent>>

EndRollback == pc = "undone" /\ RolledBack

RollbackFailed ==
  /\ pc = "rollbackFailed"
  /\ journal' = [journal EXCEPT !.phase = "rollback_failed"]
  /\ pc' = "idle"
  /\ UNCHANGED <<world, copies, staging, todo, running, origin, spent>>

(***************************************************************************)
(* Crashes and I/O errors                                                  *)
(***************************************************************************)

WorkingPoints == {"copySafety", "copyStaging", "replace", "undo"}
ForwardPoints == {"prepareSafety", "copySafety", "prepareStaging", "copyStaging",
                  "forward", "replace", "verify", "commit"}
BackwardPoints == {"rollback", "undo"}

\* The component under way may be left as it was, partial or missing.
CutShort(tree, component, left) ==
  {tree} \union {[tree EXCEPT ![component] = content] : content \in left}

Interrupted ==
  /\ world' \in CASE pc = "replace" /\ Current = Players ->
                       CutShort(world, Players, {Torn, Absent})
                  [] pc = "undo" /\ todo # {} ->
                       CutShort(world, First(todo),
                                IF First(todo) = Players THEN {Torn, Absent} ELSE {Torn})
                  [] OTHER -> {world}
  /\ copies' \in IF pc = "copySafety" /\ Safety # NoTree
                 THEN {copies} \union
                      {[copies EXCEPT ![journal.safety][c] = Torn] : c \in todo}
                 ELSE {copies}
  /\ staging' \in IF pc = "copyStaging" /\ todo # {}
                  THEN CutShort(staging, First(todo), {Torn})
                  ELSE {staging}
  /\ todo' = {}

\* The process dies; the lock is released and the journal stays.
Crash ==
  /\ pc # "idle"
  /\ spent.crashes < MaxCrashes
  /\ Interrupted
  /\ spent' = [spent EXCEPT !.crashes = @ + 1]
  /\ pc' = "idle"
  /\ UNCHANGED <<journal, running, origin>>

\* Disk full, a file held open by a scanner, ...: the step raises.
Fault ==
  /\ pc \in ForwardPoints \union BackwardPoints
  /\ spent.faults < MaxFaults
  /\ Interrupted
  /\ spent' = [spent EXCEPT !.faults = @ + 1]
  /\ pc' = IF pc \in ForwardPoints THEN "failure" ELSE "rollbackFailed"
  /\ UNCHANGED <<journal, running, origin>>

(***************************************************************************)
(* Other operations on backups, the server and the outside world           *)
(***************************************************************************)

\* Mutant: an unfinished restore does not protect its directories.
DeleteAnyTime(i) ==
  /\ pc = "idle"
  /\ ~running
  /\ copies[i] # NoTree
  /\ copies' = [copies EXCEPT ![i] = NoTree]
  /\ UNCHANGED <<world, staging, journal, pc, todo, running, origin, spent>>

Delete(i) ==
  /\ pc = "idle"
  /\ ~running
  /\ ~RecoveryActive
  /\ copies[i] # NoTree
  /\ copies' = [copies EXCEPT ![i] = NoTree]
  /\ UNCHANGED <<world, staging, journal, pc, todo, running, origin, spent>>

\* cleanup after set_retention: of the valid directories the newest n stay.
Newer(i) == {j \in CopyIds : j > i /\ Readable(copies[j])}

SetRetention(n) ==
  /\ pc = "idle"
  /\ ~running
  /\ ~RecoveryActive
  /\ copies' = [i \in CopyIds |->
       IF Readable(copies[i]) /\ Cardinality(Newer(i)) >= n THEN NoTree ELSE copies[i]]
  /\ UNCHANGED <<world, staging, journal, pc, todo, running, origin, spent>>

\* The server is not started while a restore is unfinished: the operations that
\* would are refused (module Lifecycle), and the operator is assumed not to.
StartServer ==
  /\ pc = "idle"
  /\ ~RecoveryActive
  /\ ~running
  /\ running' = TRUE
  /\ UNCHANGED <<world, copies, staging, journal, pc, todo, origin, spent>>

StopServer ==
  /\ running
  /\ running' = FALSE
  /\ UNCHANGED <<world, copies, staging, journal, pc, todo, origin, spent>>

GameSaves ==
  /\ running
  /\ world' \in GameWorlds
  /\ UNCHANGED <<copies, staging, journal, pc, todo, running, origin, spent>>

GameBackup(i) ==
  /\ running
  /\ FreshId(i)
  /\ copies' = [copies EXCEPT ![i] = world]
  /\ UNCHANGED <<world, staging, journal, pc, todo, running, origin, spent>>

\* Somebody removes a directory under backup/world, or part of it.
Meddle(i) ==
  /\ spent.meddles < MaxMeddles
  /\ copies[i] # NoTree
  /\ copies' \in {[copies EXCEPT ![i] = NoTree]} \union
                 {[copies EXCEPT ![i][Players] = content] : content \in {Torn, Absent}}
  /\ spent' = [spent EXCEPT !.meddles = @ + 1]
  /\ UNCHANGED <<world, staging, journal, pc, todo, running, origin>>

\* "Repair the safety copy, then roll back": the operator puts back what the
\* journal has the checksum of.
RepairSafety ==
  /\ pc = "idle"
  /\ journal.phase = "rollback_failed"
  /\ journal.safetySum # NoTree
  /\ Safety # journal.safetySum
  /\ copies' = [copies EXCEPT ![journal.safety] = journal.safetySum]
  /\ UNCHANGED <<world, staging, journal, pc, todo, running, origin, spent>>

(***************************************************************************)
(* Specification                                                           *)
(***************************************************************************)

Request ==
  \/ \E source, safety \in CopyIds : BeginRestore(source, safety)
  \/ ResumeRestore \/ RollbackRestore
  \/ \E i \in CopyIds : Delete(i)
  \/ \E n \in 0..MaxCopies : SetRetention(n)

Step ==
  \/ PrepareSafety \/ SealSafety \/ \E c \in Components : CopySafety(c)
  \/ PrepareStaging \/ CopyStaging \/ SealStaging
  \/ Forward \/ Replace \/ VerifyTarget \/ StartCommit \/ Commit
  \/ HandleFailure \/ GiveUp
  \/ StartUndo \/ Undo \/ VerifyUndo \/ EndRollback \/ RollbackFailed

Environment ==
  \/ Crash \/ Fault \/ RepairSafety
  \/ StartServer \/ StopServer \/ GameSaves
  \/ \E i \in CopyIds : GameBackup(i) \/ Meddle(i)

Next == Request \/ Step \/ Environment

Spec == Init /\ [][Next]_vars

\* The thread runs.  The operator answers the page's warning of an unfinished
\* restore with one of its two buttons, whichever, and does not ignore for ever
\* the advice to repair the safety copy.
Fairness ==
  /\ WF_vars(Step)
  /\ WF_vars(ResumeRestore \/ RollbackRestore)
  /\ SF_vars(RepairSafety)

FairSpec == Spec /\ Fairness

(***************************************************************************)
(* Properties                                                              *)
(***************************************************************************)

\* Every variable has its type.
TypeOK ==
  /\ world \in Trees
  /\ copies \in [CopyIds -> Trees \union {NoTree}]
  /\ staging \in Trees \union {NoTree}
  /\ journal \in Journals
  /\ pc \in Points
  /\ todo \in SUBSET Components
  /\ running \in BOOLEAN
  /\ origin \in Trees
  /\ spent \in [crashes : 0..MaxCrashes, faults : 0..MaxFaults, meddles : 0..MaxMeddles]

\* A restore reported as completed has put every component of the backup in
\* place, however many crashes, resumes and half-done rollbacks came before.
CompletedIsSource ==
  [][journal'.phase = "completed" /\ journal.phase # "completed"
       => world' = journal.sourceSum]_vars

\* The world is not touched before the checksum of the safety copy is on record.
UntouchedUntilSafe ==
  RecoveryActive /\ journal.safetySum = NoTree => world = origin

\* While a restore is unfinished, the world it began with exists in full: in
\* place or as the safety copy.  (What was recorded as the safety copy is the
\* world, and nobody damaged it: see SafetyIsOrigin.)
NothingLost ==
  RecoveryActive /\ journal.safetySum \in {NoTree, origin} /\ spent.meddles = 0
    => world = origin \/ Safety = origin

\* What is on record as the safety copy is the world the restore began with.
SafetyIsOrigin == RecoveryActive => journal.safetySum \in {NoTree, origin}

\* There is a way out: an unfinished restore, which blocks starts, saves and
\* every other use of the backups, comes to an end by the two buttons and the
\* repair that backups.py:360 advises, whatever crashed, failed or was damaged
\* before.  Excepted is a restore without a safety checksum on record: rolled
\* back, it stays in rollback_failed for ever (backups.py:358).
RestoreIsOver == RecoveryActive /\ journal.safetySum # NoTree ~> ~RecoveryActive

\* The owner of the world sees the old world or the backup, nothing between.
Atomic == INSTANCE AtomicRestore
            WITH Worlds <- Trees \union {NoTree},
                 visible <- IF RecoveryActive THEN origin ELSE world,
                 busy <- RecoveryActive,
                 goal <- journal.sourceSum
RestoreIsAtomic == Atomic!Spec
=============================================================================
