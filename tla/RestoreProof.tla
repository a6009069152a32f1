---------------------------- MODULE RestoreProof ----------------------------
(***************************************************************************)
(* What a restore guarantees through every crash, I/O error and request,    *)
(* for any contents, directories and bounds.  The inductive invariant says   *)
(* what each point of the thread may rely on.                                *)
(***************************************************************************)
EXTENDS Restore, TLAPS

(* A thread works only while a restore is unfinished, and then no server runs. *)
WorkIsRecovery == pc # "idle" => RecoveryActive
ServerRests == running => ~RecoveryActive

(* What is replaced is staged, and something is left to replace. *)
StagingExists == pc \in {"copyStaging", "forward", "replace", "verify"} => staging # NoTree
ComponentLeft == pc \in {"replace", "verify"} => journal.completed # Components

(* The points behind the safety copy have its checksum. *)
SealedFirst ==
  pc \in {"prepareStaging", "copyStaging", "forward", "replace", "verify", "commit", "undo", "undone"}
    => journal.safetySum # NoTree

(* Unless a directory is damaged, the copy is as recorded, and only one that *)
(* is not on record is copied again.                                         *)
CopyUnsealed == pc = "copySafety" /\ spent.meddles = 0 => journal.safetySum = NoTree
SafetyKept ==
  RecoveryActive /\ spent.meddles = 0 /\ journal.safetySum # NoTree => Safety = journal.safetySum

Typed == TypeOK /\ StagingExists /\ ComponentLeft

Guarded == WorkIsRecovery /\ ServerRests /\ SealedFirst /\ UntouchedUntilSafe

Kept == CopyUnsealed /\ SafetyKept

RInv == Typed /\ Guarded /\ Kept

-----------------------------------------------------------------------------
(* The next component is one of those that are left. *)
LEMMA FirstIn == ASSUME NEW S \in SUBSET Components, S # {} PROVE First(S) \in S
  <1>1. \E c \in S : \A d \in S : c <= d
    <2>1. CASE 1 \in S BY <2>1 DEF Components
    <2>2. CASE 1 \notin S /\ 2 \in S BY <2>2 DEF Components
    <2>3. CASE 1 \notin S /\ 2 \notin S
      <3>1. S = {3} BY <2>3 DEF Components
      <3> QED BY <3>1
    <2> QED BY <2>1, <2>2, <2>3
  <1> QED BY <1>1 DEF First

LEMMA NothingIsTree == Nothing \in Trees
  BY DEF Nothing, Trees, Contents

LEMMA WorldsAreTrees == GameWorlds \subseteq Trees
  BY GameWorldsWhole DEF Trees, Contents, Components

(* A tree with one component changed is a tree. *)
LEMMA PutTree ==
  ASSUME NEW t \in Trees, NEW c \in Components, NEW v \in Contents
  PROVE  [t EXCEPT ![c] = v] \in Trees
  BY DEF Trees

(* A component that is cut short leaves a tree. *)
LEMMA CutTree ==
  ASSUME NEW t \in Trees, NEW c \in Components, NEW left \in SUBSET {Torn, Absent}
  PROVE  CutShort(t, c, left) \subseteq Trees
  BY PutTree DEF CutShort, Contents

LEMMA InitInv == Init => RInv
  <1> SUFFICES ASSUME Init PROVE RInv
    OBVIOUS
  <1> USE BoundsAreNat, WorldsAreTrees
  <1>1. 1 \in CopyIds
    BY DEF CopyIds
  <1>2. TypeOK
    <2>1. copies \in [CopyIds -> Trees \union {NoTree}]
      BY DEF Init
    <2>2. journal \in Journals
      BY <1>1 DEF Init, NoJournal, Phases, Journals
    <2>3. world \in Trees /\ origin \in Trees
      BY DEF Init
    <2>4. spent \in [crashes : 0..MaxCrashes, faults : 0..MaxFaults, meddles : 0..MaxMeddles]
      BY DEF Init
    <2>5. pc \in Points /\ todo \in SUBSET Components /\ running \in BOOLEAN
      BY DEF Init, Points
    <2> QED BY <2>1, <2>2, <2>3, <2>4, <2>5 DEF Init, TypeOK
  <1> QED BY <1>2
      DEF Init, RInv, Typed, Guarded, Kept, StagingExists, ComponentLeft, WorkIsRecovery, ServerRests,
        SealedFirst, UntouchedUntilSafe, CopyUnsealed, SafetyKept, RecoveryActive, NoJournal,
        RestoreTerminalPhases

(* What an interruption leaves is of the right type and changes only what the *)
(* thread was at.                                                             *)
LEMMA InterruptedTypes ==
  ASSUME Typed, Interrupted
  PROVE  /\ world' \in Trees
         /\ copies' \in [CopyIds -> Trees \union {NoTree}]
         /\ staging' \in Trees \union {NoTree}
         /\ todo' = {}
         /\ pc \notin {"replace", "undo"} => world' = world
         /\ pc # "copySafety" => copies' = copies
         /\ \A i \in CopyIds : i # journal.safety => copies'[i] = copies[i]
         /\ staging # NoTree => staging' # NoTree
  <1> USE DEF Typed
  <1>1. world' \in Trees /\ (pc \notin {"replace", "undo"} => world' = world)
    <2>1. CASE pc = "replace" /\ Current = Players
      <3>1. world' \in CutShort(world, Players, {Torn, Absent})
        BY <2>1 DEF Interrupted
      <3> QED BY <3>1, <2>1, CutTree DEF TypeOK, Components, Players
    <2>2. CASE pc = "undo" /\ todo # {}
      <3>1. world' \in CutShort(world, First(todo), {Torn, Absent})
        BY <2>2 DEF Interrupted, CutShort
      <3>2. First(todo) \in Components
        BY <2>2, FirstIn DEF TypeOK
      <3> QED BY <3>1, <3>2, <2>2, CutTree DEF TypeOK
    <2>3. CASE ~(pc = "replace" /\ Current = Players) /\ ~(pc = "undo" /\ todo # {})
      <3>1. world' = world
        BY <2>3 DEF Interrupted
      <3> QED BY <3>1 DEF TypeOK
    <2> QED BY <2>1, <2>2, <2>3
  <1>2. /\ copies' \in [CopyIds -> Trees \union {NoTree}]
        /\ pc # "copySafety" => copies' = copies
        /\ \A i \in CopyIds : i # journal.safety => copies'[i] = copies[i]
    <2>1. CASE copies' = copies
      BY <2>1 DEF TypeOK
    <2>2. CASE copies' # copies
      <3>1. PICK c \in todo : copies' = [copies EXCEPT ![journal.safety][c] = Torn]
        BY <2>2 DEF Interrupted
      <3>2. Safety # NoTree /\ pc = "copySafety"
        BY <2>2 DEF Interrupted
      <3>3. Safety \in Trees /\ journal.safety \in CopyIds /\ c \in Components
        BY <3>2 DEF TypeOK, Safety, Journals
      <3>4. [Safety EXCEPT ![c] = Torn] \in Trees
        BY <3>3, PutTree DEF Contents
      <3> QED BY <3>1, <3>2, <3>3, <3>4 DEF TypeOK, Safety
    <2> QED BY <2>1, <2>2
  <1>3. staging' \in Trees \union {NoTree} /\ (staging # NoTree => staging' # NoTree)
    <2>1. CASE pc = "copyStaging" /\ todo # {}
      <3>1. staging' \in CutShort(staging, First(todo), {Torn})
        BY <2>1 DEF Interrupted
      <3>2. First(todo) \in Components /\ staging \in Trees
        BY <2>1, FirstIn DEF TypeOK, StagingExists
      <3> QED BY <3>1, <3>2, CutTree, NoTreeIsFresh DEF TypeOK
    <2>2. CASE ~(pc = "copyStaging" /\ todo # {})
      <3>1. staging' = staging
        BY <2>2 DEF Interrupted
      <3> QED BY <3>1 DEF TypeOK
    <2> QED BY <2>1, <2>2
  <1> QED BY <1>1, <1>2, <1>3 DEF Interrupted
-----------------------------------------------------------------------------
(* The journal keeps its type. *)
LEMMA JournalFields ==
  ASSUME NEW j \in Journals
  PROVE  /\ j.phase \in Phases /\ j.source \in CopyIds /\ j.safety \in CopyIds
         /\ j.completed \in SUBSET Components
         /\ {j.sourceSum, j.safetySum, j.stagingSum} \subseteq Trees \union {NoTree}
         /\ \A p \in Phases : [j EXCEPT !.phase = p] \in Journals
  BY DEF Journals

LEMMA JournalSteps ==
  ASSUME journal \in Journals
  PROVE  /\ \A t \in Trees \union {NoTree} : Sealed(t) \in Journals
         /\ staging \in Trees \union {NoTree} => StagingReady \in Journals
         /\ \A d \in SUBSET Components : Replacing(d) => journal' \in Journals
  BY DEF Journals, Sealed, StagingReady, Replacing, Phases

LEMMA CurrentIn ==
  ASSUME journal \in Journals, journal.completed # Components
  PROVE  Current \in Components \ journal.completed
  <1>1. Components \ journal.completed \in SUBSET Components /\ Components \ journal.completed # {}
    BY JournalFields
  <1> QED BY <1>1, FirstIn DEF Current

LEMMA Opened ==
  ASSUME NEW source \in CopyIds, NEW safety \in CopyIds, NEW t \in Trees \union {NoTree}
  PROVE  [NoJournal EXCEPT !.phase = "safety_copy", !.source = source, !.safety = safety,
  !.sourceSum = t]
           \in Journals
  BY DEF NoJournal, Journals, Phases

(* Typed is kept by every action. *)

LEMMA BeginTyped ==
  ASSUME NEW source \in CopyIds, NEW safety \in CopyIds, Typed, BeginRestore(source, safety)
  PROVE  Typed'
  <1>1. journal' \in Journals
    BY Opened DEF BeginRestore, Typed, TypeOK
  <1> QED BY <1>1, SMT DEF BeginRestore, Typed, TypeOK, StagingExists, ComponentLeft, Points

LEMMA ResumeTyped == ASSUME Typed, ResumeRestore PROVE Typed'
  BY SMT DEF Typed, TypeOK, StagingExists, ComponentLeft, Points, ResumeRestore

LEMMA RollbackTyped == ASSUME Typed, RollbackRestore PROVE Typed'
  BY SMT DEF Typed, TypeOK, StagingExists, ComponentLeft, Points, RollbackRestore

LEMMA PrepareSafetyTyped == ASSUME Typed, PrepareSafety PROVE Typed'
  BY NothingIsTree, JournalFields, JournalSteps, SMT
    DEF Typed, TypeOK, StagingExists, ComponentLeft, Points, PrepareSafety, AdoptSafety, KeepSafety,
        SafetyInvalid, StartSafetyCopy, Safety, Readable

LEMMA CopySafetyTyped == ASSUME NEW c \in Components, Typed, CopySafety(c) PROVE Typed'
  <1>1. CASE Safety = NoTree
    BY <1>1, SMT DEF CopySafety, Typed, TypeOK, StagingExists, ComponentLeft, Points
  <1>2. CASE Safety # NoTree
    <2>1. Safety \in Trees /\ world[c] \in Contents /\ journal.safety \in CopyIds
      BY <1>2, JournalFields DEF Typed, TypeOK, Trees, Safety
    <2>2. [Safety EXCEPT ![c] = world[c]] \in Trees
      BY <2>1, PutTree
    <2>3. copies' = [copies EXCEPT ![journal.safety] = [Safety EXCEPT ![c] = world[c]]]
      BY <1>2 DEF CopySafety, Safety
    <2> QED BY <1>2, <2>1, <2>2, <2>3, SMT
        DEF CopySafety, Typed, TypeOK, StagingExists, ComponentLeft, Points
  <1> QED BY <1>1, <1>2

LEMMA SealSafetyTyped == ASSUME Typed, SealSafety PROVE Typed'
  BY JournalFields, JournalSteps, SMT
    DEF Typed, TypeOK, StagingExists, ComponentLeft, Points, SealSafety, Safety, Readable

LEMMA PrepareStagingTyped == ASSUME Typed, PrepareStaging PROVE Typed'
  BY NothingIsTree, NoTreeIsFresh, JournalSteps, SMT
    DEF Typed, TypeOK, StagingExists, ComponentLeft, Points, PrepareStaging, StagingIntact, Readable

LEMMA CopyStagingTyped == ASSUME Typed, CopyStaging PROVE Typed'
  <1>1. First(todo) \in Components /\ staging \in Trees
    BY FirstIn DEF CopyStaging, Typed, TypeOK, StagingExists
  <1>2. Source # NoTree => [staging EXCEPT ![First(todo)] = Source[First(todo)]] \in Trees
    <2>1. Source # NoTree => Source[First(todo)] \in Contents
      BY <1>1, JournalFields DEF Source, Typed, TypeOK, Trees
    <2> QED BY <1>1, <2>1, PutTree
  <1> QED BY <1>2, NoTreeIsFresh, SMT
      DEF CopyStaging, Typed, TypeOK, StagingExists, ComponentLeft, Points

LEMMA SealStagingTyped == ASSUME Typed, SealStaging PROVE Typed'
  BY JournalSteps, SMT DEF Typed, TypeOK, StagingExists, ComponentLeft, Points, SealStaging

LEMMA ForwardTyped == ASSUME Typed, Forward PROVE Typed'
  <1>1. Current \in Components
    BY CurrentIn DEF Forward, Typed, TypeOK
  <1>2. journal' \in Journals
    <2>1. journal.completed \union {Current} \in SUBSET Components /\ journal.completed \in SUBSET Components
      BY <1>1, JournalFields DEF Typed, TypeOK
    <2> QED BY <2>1, JournalSteps DEF Forward, Typed, TypeOK
  <1>3. pc' = "replace" => journal'.completed # Components
    BY DEF Forward, Replacing, Typed, TypeOK, Journals
  <1> QED BY <1>2, <1>3, SMT DEF Forward, Typed, TypeOK, StagingExists, ComponentLeft, Points

LEMMA ReplaceTyped == ASSUME Typed, Replace PROVE Typed'
  <1>1. Current \in Components /\ staging \in Trees
    BY CurrentIn DEF Replace, Typed, TypeOK, StagingExists, ComponentLeft
  <1>2. world' \in Trees
    <2>1. staging[Current] \in Contents /\ Absent \in Contents /\ Players \in Components
      BY <1>1 DEF Trees, Contents, Players, Components
    <2> QED BY <1>1, <2>1, PutTree DEF Replace, Typed, TypeOK
  <1>3. staging' \in Trees
    <2>1. Absent \in Contents
      BY DEF Contents
    <2> QED BY <1>1, <2>1, PutTree DEF Replace
  <1> QED BY <1>2, <1>3, NoTreeIsFresh, SMT
      DEF Replace, Typed, TypeOK, StagingExists, ComponentLeft, Points

LEMMA VerifyTyped == ASSUME Typed, VerifyTarget PROVE Typed'
  <1>1. Current \in Components
    BY CurrentIn DEF VerifyTarget, Typed, TypeOK, ComponentLeft
  <1>2. journal.completed \union {Current} \in SUBSET Components
    BY <1>1, JournalFields DEF Typed, TypeOK
  <1> QED BY <1>2, JournalSteps, SMT
      DEF VerifyTarget, Typed, TypeOK, StagingExists, ComponentLeft, Points

LEMMA CommitTyped == ASSUME Typed, StartCommit \/ Commit PROVE Typed'
  <1>1. "committing" \in Phases /\ "completed" \in Phases
    BY DEF Phases
  <1> QED BY <1>1, JournalFields, SMT
      DEF StartCommit, Commit, Typed, TypeOK, StagingExists, ComponentLeft, Points

LEMMA FailureTyped == ASSUME Typed, HandleFailure \/ GiveUp PROVE Typed'
  <1>1. "rollback_pending" \in Phases /\ "rolled_back" \in Phases
    BY DEF Phases
  <1> QED BY <1>1, JournalFields, SMT
      DEF HandleFailure, GiveUp, RolledBack, Typed, TypeOK, StagingExists, ComponentLeft, Points

LEMMA UndoTyped == ASSUME Typed, Undo PROVE Typed'
  <1>1. First(todo) \in Components
    BY FirstIn DEF Undo, Typed, TypeOK
  <1>2. world' \in Trees
    <2>1. Absent \in Contents /\ Players \in Components
      BY DEF Contents, Players, Components
    <2>2. Safety # NoTree => Safety[First(todo)] \in Contents
      BY <1>1, JournalFields DEF Safety, Typed, TypeOK, Trees
    <2> QED BY <1>1, <2>1, <2>2, PutTree DEF Undo, Typed, TypeOK
  <1> QED BY <1>2, SMT DEF Undo, Typed, TypeOK, StagingExists, ComponentLeft, Points

LEMMA BackTyped == ASSUME Typed, StartUndo \/ VerifyUndo \/ EndRollback \/ RollbackFailed PROVE Typed'
  <1>1. {"rollback_pending", "rolled_back", "rollback_failed"} \subseteq Phases
    BY DEF Phases
  <1> QED BY <1>1, JournalFields, SMT
    DEF StartUndo, VerifyUndo, EndRollback, RollbackFailed, RolledBack, Typed, TypeOK, StagingExists,
        ComponentLeft, Points

LEMMA InterruptTyped == ASSUME Typed, Crash \/ Fault PROVE Typed'
  <1>1. spent' \in [crashes : 0..MaxCrashes, faults : 0..MaxFaults, meddles : 0..MaxMeddles]
    BY BoundsAreNat DEF Crash, Fault, Typed, TypeOK
  <1>2. Interrupted /\ UNCHANGED <<journal, running, origin>> /\ pc' \in {"idle", "failure",
  "rollbackFailed"}
    BY DEF Crash, Fault
  <1> QED BY <1>1, <1>2, InterruptedTypes, SMT DEF Typed, TypeOK, StagingExists, ComponentLeft, Points

LEMMA CleanTyped ==
  ASSUME NEW i \in CopyIds, NEW n \in 0..MaxCopies, Typed, Delete(i) \/ SetRetention(n)
  PROVE  Typed'
  BY SMT DEF Typed, TypeOK, StagingExists, ComponentLeft, Points, Delete, SetRetention

LEMMA ServerTyped ==
  ASSUME NEW i \in CopyIds, Typed, StartServer \/ StopServer \/ GameSaves \/ GameBackup(i)
  PROVE  Typed'
  <1>1. world' \in Trees /\ copies' \in [CopyIds -> Trees \union {NoTree}] /\ running' \in BOOLEAN
    BY WorldsAreTrees DEF StartServer, StopServer, GameSaves, GameBackup, Typed, TypeOK
  <1> QED BY <1>1, SMT
    DEF StartServer, StopServer, GameSaves, GameBackup, Typed, TypeOK, StagingExists, ComponentLeft,
    Points

LEMMA MeddleTyped == ASSUME NEW i \in CopyIds, Typed, Meddle(i) PROVE Typed'
  <1>1. spent' \in [crashes : 0..MaxCrashes, faults : 0..MaxFaults, meddles : 0..MaxMeddles]
    BY BoundsAreNat DEF Meddle, Typed, TypeOK
  <1>2. copies' \in [CopyIds -> Trees \union {NoTree}]
    <2>1. CASE copies' = [copies EXCEPT ![i] = NoTree]
      BY <2>1 DEF Typed, TypeOK
    <2>2. CASE copies' # [copies EXCEPT ![i] = NoTree]
      <3>1. PICK v \in {Torn,
      Absent} : copies' = [copies EXCEPT ![i] = [copies[i] EXCEPT ![Players] = v]]
        BY <2>2 DEF Meddle
      <3>2. copies[i] \in Trees /\ Players \in Components /\ v \in Contents
        BY DEF Meddle, Typed, TypeOK, Players, Components, Contents
      <3> QED BY <3>1, <3>2, PutTree DEF Typed, TypeOK
    <2> QED BY <2>1, <2>2
  <1> QED BY <1>1, <1>2, SMT DEF Meddle, Typed, TypeOK, StagingExists, ComponentLeft, Points

LEMMA RepairTyped == ASSUME Typed, RepairSafety PROVE Typed'
  BY JournalFields, SMT DEF Typed, TypeOK, StagingExists, ComponentLeft, Points, RepairSafety

LEMMA StepTyped == ASSUME Typed, [Next]_vars PROVE Typed'
  <1>1. CASE Request
    <2>1. 0 \in 0..MaxCopies /\ 1 \in CopyIds
      BY BoundsAreNat DEF CopyIds
    <2> QED BY <1>1, <2>1, BeginTyped, ResumeTyped, RollbackTyped, CleanTyped DEF Request
  <1>2. CASE Step
    BY <1>2, PrepareSafetyTyped, CopySafetyTyped, SealSafetyTyped, PrepareStagingTyped,
    CopyStagingTyped,
       SealStagingTyped, ForwardTyped, ReplaceTyped, VerifyTyped, CommitTyped, FailureTyped, UndoTyped,
       BackTyped
    DEF Step
  <1>3. CASE Environment
    <2>1. 1 \in CopyIds
      BY BoundsAreNat DEF CopyIds
    <2> QED BY <1>3, <2>1, InterruptTyped, RepairTyped, ServerTyped, MeddleTyped DEF Environment
  <1>4. CASE UNCHANGED vars
    BY <1>4 DEF vars, Typed, TypeOK, StagingExists, ComponentLeft
  <1> QED BY <1>1, <1>2, <1>3, <1>4 DEF Next

-----------------------------------------------------------------------------
(* What the steps of the journal change. *)
LEMMA PhaseChanged ==
  ASSUME NEW j \in Journals, NEW p
  PROVE  LET k == [j EXCEPT !.phase = p]
         IN /\ k.phase = p /\ k.source = j.source /\ k.safety = j.safety /\ k.completed = j.completed
            /\ k.sourceSum = j.sourceSum /\ k.safetySum = j.safetySum /\ k.stagingSum = j.stagingSum
  BY DEF Journals

LEMMA JournalChanged ==
  ASSUME journal \in Journals
  PROVE  /\ \A t : /\ Sealed(t).safetySum = t /\ Sealed(t).safety = journal.safety
                   /\ Sealed(t).phase = IF journal.phase = "safety_copy" THEN "staging" ELSE journal.phase
         /\ StagingReady.safetySum = journal.safetySum /\ StagingReady.safety = journal.safety
         /\ StagingReady.phase
              = IF journal.phase \in {"safety_copy", "staging"} THEN "ready" ELSE journal.phase
         /\ \A d : Replacing(d) =>
              /\ journal'.phase = "replacing" /\ journal'.completed = d
              /\ journal'.safety = journal.safety /\ journal'.safetySum = journal.safetySum
  BY DEF Journals, Sealed, StagingReady, Replacing

LEMMA TypedFacts ==
  ASSUME Typed
  PROVE  /\ journal \in Journals /\ journal.safety \in CopyIds
         /\ copies \in [CopyIds -> Trees \union {NoTree}]
         /\ world \in Trees /\ origin \in Trees
  BY JournalFields DEF Typed, TypeOK

(* Guarded and Kept are kept by every action. *)

LEMMA BeginKept ==
  ASSUME NEW source \in CopyIds, NEW safety \in CopyIds, RInv, BeginRestore(source, safety)
  PROVE  (Guarded /\ Kept)'
  BY TypedFacts, PhaseChanged, JournalChanged, SMT
    DEF RInv, Guarded, Kept, WorkIsRecovery, ServerRests, SealedFirst, UntouchedUntilSafe, CopyUnsealed,
        SafetyKept, RecoveryActive, RestoreTerminalPhases, Safety, BeginRestore, NoJournal

LEMMA ResumeKept == ASSUME RInv, ResumeRestore \/ RollbackRestore PROVE (Guarded /\ Kept)'
  BY TypedFacts, PhaseChanged, JournalChanged, SMT
    DEF RInv, Guarded, Kept, WorkIsRecovery, ServerRests, SealedFirst, UntouchedUntilSafe, CopyUnsealed,
        SafetyKept, RecoveryActive, RestoreTerminalPhases, Safety, ResumeRestore, RollbackRestore

LEMMA PrepareSafetyKept == ASSUME RInv, PrepareSafety PROVE (Guarded /\ Kept)'
  BY TypedFacts, PhaseChanged, JournalChanged, SMT
    DEF RInv, Guarded, Kept, WorkIsRecovery, ServerRests, SealedFirst, UntouchedUntilSafe, CopyUnsealed,
        SafetyKept, RecoveryActive, RestoreTerminalPhases, Safety, PrepareSafety, AdoptSafety,
        KeepSafety, SafetyInvalid, StartSafetyCopy, Readable

LEMMA CopySafetyKept == ASSUME NEW c \in Components, RInv, CopySafety(c) PROVE (Guarded /\ Kept)'
  BY TypedFacts, PhaseChanged, JournalChanged, SMT
    DEF RInv, Guarded, Kept, WorkIsRecovery, ServerRests, SealedFirst, UntouchedUntilSafe, CopyUnsealed,
        SafetyKept, RecoveryActive, RestoreTerminalPhases, Safety, CopySafety

LEMMA SealSafetyKept == ASSUME RInv, SealSafety PROVE (Guarded /\ Kept)'
  BY TypedFacts, PhaseChanged, JournalChanged, SMT
    DEF RInv, Guarded, Kept, WorkIsRecovery, ServerRests, SealedFirst, UntouchedUntilSafe, CopyUnsealed,
        SafetyKept, RecoveryActive, RestoreTerminalPhases, Safety, SealSafety, Readable

LEMMA StagingKept == ASSUME RInv, PrepareStaging \/ CopyStaging \/ SealStaging PROVE (Guarded /\ Kept)'
  BY TypedFacts, PhaseChanged, JournalChanged, SMT
    DEF RInv, Guarded, Kept, WorkIsRecovery, ServerRests, SealedFirst, UntouchedUntilSafe, CopyUnsealed,
        SafetyKept, RecoveryActive, RestoreTerminalPhases, Safety, PrepareStaging, CopyStaging,
        SealStaging

LEMMA ForwardKept == ASSUME RInv, Forward \/ VerifyTarget \/ StartCommit PROVE (Guarded /\ Kept)'
  <1>1. /\ journal'.safety = journal.safety /\ journal'.safetySum = journal.safetySum
        /\ journal'.phase \in {journal.phase, "replacing", "committing"}
    <2>1. CASE journal' = journal
      BY <2>1
    <2>2. CASE \E d : Replacing(d)
      BY <2>2, TypedFacts, JournalChanged DEF RInv
    <2>3. CASE StartCommit
      BY <2>3, TypedFacts, PhaseChanged DEF StartCommit, RInv
    <2> QED BY <2>1, <2>2, <2>3 DEF Forward, VerifyTarget
  <1>2. /\ UNCHANGED <<world, copies, running, origin, spent>>
        /\ pc \in {"forward", "verify"} /\ pc' \in {"forward", "replace", "failure", "commit"}
    BY DEF Forward, VerifyTarget, StartCommit
  <1> QED BY <1>1, <1>2, SMT
    DEF RInv, Guarded, Kept, WorkIsRecovery, ServerRests, SealedFirst, UntouchedUntilSafe, CopyUnsealed,
        SafetyKept, RecoveryActive, RestoreTerminalPhases, Safety

LEMMA ReplaceKept == ASSUME RInv, Replace PROVE (Guarded /\ Kept)'
  BY TypedFacts, PhaseChanged, JournalChanged, SMT
    DEF RInv, Guarded, Kept, WorkIsRecovery, ServerRests, SealedFirst, UntouchedUntilSafe, CopyUnsealed,
        SafetyKept, RecoveryActive, RestoreTerminalPhases, Safety, Replace

LEMMA CommitKept == ASSUME RInv, Commit PROVE (Guarded /\ Kept)'
  BY TypedFacts, SMT
    DEF RInv, Guarded, Kept, WorkIsRecovery, ServerRests, SealedFirst, UntouchedUntilSafe, CopyUnsealed,
        SafetyKept, RecoveryActive, RestoreTerminalPhases, Safety, Journals,
        Commit

LEMMA FailureKept == ASSUME RInv, HandleFailure \/ GiveUp PROVE (Guarded /\ Kept)'
  BY TypedFacts, SMT
    DEF RInv, Guarded, Kept, WorkIsRecovery, ServerRests, SealedFirst, UntouchedUntilSafe, CopyUnsealed,
        SafetyKept, RecoveryActive, RestoreTerminalPhases, Safety, Journals,
        HandleFailure, GiveUp, RolledBack

LEMMA StartUndoKept == ASSUME RInv, StartUndo PROVE (Guarded /\ Kept)'
  BY TypedFacts, PhaseChanged, JournalChanged, SMT
    DEF RInv, Guarded, Kept, WorkIsRecovery, ServerRests, SealedFirst, UntouchedUntilSafe, CopyUnsealed,
        SafetyKept, RecoveryActive, RestoreTerminalPhases, Safety, StartUndo, SafetyUsable, Readable

LEMMA UndoKept ==
  ASSUME RInv, Undo \/ VerifyUndo \/ EndRollback \/ RollbackFailed
  PROVE  (Guarded /\ Kept)'
  BY TypedFacts, SMT
    DEF RInv, Guarded, Kept, WorkIsRecovery, ServerRests, SealedFirst, UntouchedUntilSafe, CopyUnsealed,
        SafetyKept, RecoveryActive, RestoreTerminalPhases, Safety, Journals,
        Undo, VerifyUndo, EndRollback, RollbackFailed, RolledBack

LEMMA InterruptKept == ASSUME RInv, Crash \/ Fault PROVE (Guarded /\ Kept)'
  <1>1. /\ Interrupted /\ UNCHANGED <<journal, running, origin>> /\ pc # "idle"
        /\ pc' \in {"idle", "failure", "rollbackFailed"} /\ spent'.meddles = spent.meddles
    BY DEF Crash, Fault, ForwardPoints, BackwardPoints, RInv, Typed, TypeOK
  <1>2. /\ pc \notin {"replace", "undo"} => world' = world
        /\ pc # "copySafety" => copies' = copies
    BY <1>1, InterruptedTypes DEF RInv
  <1> QED BY <1>1, <1>2, SMT
    DEF RInv, Guarded, Kept, WorkIsRecovery, ServerRests, SealedFirst, UntouchedUntilSafe, CopyUnsealed,
        SafetyKept, RecoveryActive, RestoreTerminalPhases, Safety

LEMMA CleanKept ==
  ASSUME NEW i \in CopyIds, NEW n \in 0..MaxCopies, RInv, Delete(i) \/ SetRetention(n)
  PROVE  (Guarded /\ Kept)'
  BY TypedFacts, PhaseChanged, JournalChanged, SMT
    DEF RInv, Guarded, Kept, WorkIsRecovery, ServerRests, SealedFirst, UntouchedUntilSafe, CopyUnsealed,
        SafetyKept, RecoveryActive, RestoreTerminalPhases, Safety, Delete, SetRetention

LEMMA ServerKept ==
  ASSUME NEW i \in CopyIds, RInv, StartServer \/ StopServer \/ GameSaves \/ GameBackup(i)
  PROVE  (Guarded /\ Kept)'
  BY TypedFacts, PhaseChanged, JournalChanged, SMT
    DEF RInv, Guarded, Kept, WorkIsRecovery, ServerRests, SealedFirst, UntouchedUntilSafe, CopyUnsealed,
        SafetyKept, RecoveryActive, RestoreTerminalPhases, Safety, StartServer, StopServer, GameSaves,
        GameBackup

LEMMA MeddleKept == ASSUME NEW i \in CopyIds, RInv, Meddle(i) PROVE (Guarded /\ Kept)'
  <1>1. spent'.meddles # 0 /\ UNCHANGED <<world, journal, pc, running, origin>>
    BY BoundsAreNat DEF Meddle, RInv, Typed, TypeOK
  <1> QED BY <1>1, SMT
    DEF RInv, Guarded, Kept, WorkIsRecovery, ServerRests, SealedFirst, UntouchedUntilSafe, CopyUnsealed,
        SafetyKept, RecoveryActive, RestoreTerminalPhases, Safety

LEMMA RepairKept == ASSUME RInv, RepairSafety PROVE (Guarded /\ Kept)'
  BY TypedFacts, PhaseChanged, JournalChanged, SMT
    DEF RInv, Guarded, Kept, WorkIsRecovery, ServerRests, SealedFirst, UntouchedUntilSafe, CopyUnsealed,
        SafetyKept, RecoveryActive, RestoreTerminalPhases, Safety, RepairSafety

LEMMA StepInv == ASSUME RInv, [Next]_vars PROVE RInv'
  <1>1. Typed'
    BY StepTyped DEF RInv
  <1>2. (Guarded /\ Kept)'
    <2>1. CASE Request
      <3>1. 0 \in 0..MaxCopies /\ 1 \in CopyIds
        BY BoundsAreNat DEF CopyIds
      <3> QED BY <2>1, <3>1, BeginKept, ResumeKept, CleanKept DEF Request
    <2>2. CASE Step
      BY <2>2, PrepareSafetyKept, CopySafetyKept, SealSafetyKept, StagingKept, ForwardKept, ReplaceKept,
         CommitKept, FailureKept, StartUndoKept, UndoKept
      DEF Step
    <2>3. CASE Environment
      <3>1. 1 \in CopyIds
        BY BoundsAreNat DEF CopyIds
      <3> QED BY <2>3, <3>1, InterruptKept, RepairKept, ServerKept, MeddleKept DEF Environment
    <2>4. CASE UNCHANGED vars
      BY <2>4
        DEF vars, RInv, Guarded, Kept, WorkIsRecovery, ServerRests, SealedFirst, UntouchedUntilSafe,
         CopyUnsealed, SafetyKept, RecoveryActive, Safety
    <2> QED BY <2>1, <2>2, <2>3, <2>4 DEF Next
  <1> QED BY <1>1, <1>2 DEF RInv

THEOREM RInvAlways == Spec => []RInv
  <1>1. Init => RInv
    BY InitInv
  <1>2. RInv /\ [Next]_vars => RInv'
    BY StepInv
  <1> QED BY <1>1, <1>2, PTL DEF Spec

-----------------------------------------------------------------------------
(* World, directories, journal and thread keep their types. *)
THEOREM TypeCorrect == Spec => []TypeOK
  <1>1. RInv => TypeOK
    BY DEF RInv, Typed
  <1> QED BY <1>1, RInvAlways, PTL

(* The world is not touched before the safety copy is on record, wherever a  *)
(* restore, resume or rollback is interrupted.                               *)
THEOREM UntouchedUntilSafeAlways == Spec => []UntouchedUntilSafe
  <1>1. RInv => UntouchedUntilSafe
    BY DEF RInv, Guarded
  <1> QED BY <1>1, RInvAlways, PTL

(* Unless what is on record is not the world, or a directory is damaged, the *)
(* world a restore began with is in place or in the safety copy.             *)
THEOREM NothingLostAlways == Spec => []NothingLost
  <1>1. RInv => NothingLost
    BY DEF RInv, Guarded, Kept, UntouchedUntilSafe, SafetyKept, NothingLost
  <1> QED BY <1>1, RInvAlways, PTL

(* Only a restore whose backup is in place in full is recorded as completed. *)
LEMMA CompletedStep ==
  ASSUME RInv, [Next]_vars, journal'.phase = "completed", journal.phase # "completed"
  PROVE  Commit /\ world' = journal.sourceSum
  <1> USE TypedFacts DEF RInv
  <1>1. CASE Commit
    BY <1>1 DEF Commit, FinalCheck
  <1>2. CASE Request
    BY <1>2 DEF Request, BeginRestore, ResumeRestore, RollbackRestore, Delete, SetRetention, NoJournal
  <1>3. CASE Step /\ ~Commit
    <2>1. CASE PrepareSafety \/ SealSafety \/ PrepareStaging \/ SealStaging
      BY <2>1, JournalChanged
      DEF PrepareSafety, AdoptSafety, KeepSafety, SafetyInvalid, StartSafetyCopy, SealSafety,
      PrepareStaging,
          SealStaging
    <2>2. CASE Forward \/ VerifyTarget
      <3>1. journal' = journal \/ \E d : Replacing(d)
        BY <2>2 DEF Forward, VerifyTarget
      <3> QED BY <3>1, JournalChanged
    <2>3. CASE StartCommit
      BY <2>3, PhaseChanged DEF StartCommit
    <2>4. CASE HandleFailure \/ GiveUp \/ VerifyUndo \/ EndRollback \/ RollbackFailed
      BY <2>4, PhaseChanged
      DEF HandleFailure, GiveUp, RolledBack, VerifyUndo, EndRollback, RollbackFailed, Journals
    <2>5. CASE CopyStaging \/ Replace \/ StartUndo \/ Undo \/ \E c \in Components : CopySafety(c)
      BY <2>5 DEF CopyStaging, Replace, StartUndo, Undo, CopySafety
    <2> QED BY <1>3, <2>1, <2>2, <2>3, <2>4, <2>5 DEF Step
  <1>4. CASE Environment
    BY <1>4
      DEF Environment, Crash, Fault, RepairSafety, StartServer, StopServer, GameSaves, GameBackup,
          Meddle
  <1>5. CASE UNCHANGED vars
    BY <1>5 DEF vars
  <1> QED BY <1>1, <1>2, <1>3, <1>4, <1>5 DEF Next

(* A restore recorded as completed has every component of the backup in place. *)
THEOREM CompletedIsSourceAlways == Spec => CompletedIsSource
  <1>1. RInv /\ [Next]_vars =>
          [journal'.phase = "completed" /\ journal.phase # "completed" => world' = journal.sourceSum]_vars
    BY CompletedStep
  <1> QED BY <1>1, RInvAlways, PTL DEF Spec, CompletedIsSource

(***************************************************************************)
(* A console that does not crash, over directories nobody damages, keeps    *)
(* the promise of AtomicRestore whatever file operations fail: Restore      *)
(* implements AtomicRestore, for any contents, directories and errors.      *)
(***************************************************************************)

NoHarm == MaxCrashes = 0 /\ MaxMeddles = 0

(* Without a crash a restore is left unfinished only by a roll back that failed. *)
RestsFailed == RecoveryActive /\ pc = "idle" => journal.phase = "rollback_failed"

(* The safety copy begins with nothing and takes over the world as it was. *)
CopiedIsOrigin ==
  /\ pc = "prepareSafety" => Safety = NoTree /\ journal.safetySum = NoTree
  /\ pc = "copySafety" => /\ Safety # NoTree /\ journal.safetySum = NoTree
                          /\ \A c \in Components \ todo : Safety[c] = origin[c]

(* In an early phase nothing was replaced, and a roll back has put all back. *)
EarlyIsOrigin ==
  /\ journal.phase \in EarlyPhases => world = origin
  /\ pc \in {"giveUp", "undone"} => world = origin

(* The phase tells which way the thread goes. *)
WorkPhase ==
  /\ pc \in {"prepareSafety", "copySafety"} => journal.phase = "safety_copy"
  /\ pc \in {"rollback", "undo", "undone", "rollbackFailed"} => journal.phase \notin EarlyPhases
  /\ pc \in {"replace", "verify"} => journal.phase = "replacing"

Unharmed == RestsFailed /\ CopiedIsOrigin /\ EarlyIsOrigin /\ WorkPhase /\ SafetyIsOrigin

-----------------------------------------------------------------------------
LEMMA InitUnharmed == Init => Unharmed
  BY DEF Init, Unharmed, RestsFailed, CopiedIsOrigin, EarlyIsOrigin, WorkPhase, SafetyIsOrigin,
     RecoveryActive, NoJournal, RestoreTerminalPhases, EarlyPhases

LEMMA NoMeddles == ASSUME NoHarm, TypeOK PROVE spent.meddles = 0 /\ spent.crashes = 0
  BY DEF NoHarm, TypeOK

LEMMA Calm == ASSUME NoHarm, RInv PROVE ~Crash /\ \A i \in CopyIds : ~Meddle(i)
  BY NoMeddles DEF RInv, Typed, Crash, Meddle, NoHarm

LEMMA BeginUnharmed ==
  ASSUME NEW source \in CopyIds, NEW safety \in CopyIds, RInv, Unharmed, BeginRestore(source, safety)
  PROVE  Unharmed'
  BY TypedFacts, PhaseChanged, JournalChanged, SMT
    DEF Unharmed, RestsFailed, CopiedIsOrigin, EarlyIsOrigin, WorkPhase, SafetyIsOrigin, RecoveryActive,
        RestoreTerminalPhases, EarlyPhases, Safety,
        RInv, Guarded, WorkIsRecovery, ServerRests, SealedFirst, BeginRestore, NoJournal, FreshId

LEMMA ResumeUnharmed == ASSUME RInv, Unharmed, ResumeRestore \/ RollbackRestore PROVE Unharmed'
  BY TypedFacts, PhaseChanged, JournalChanged, SMT
    DEF Unharmed, RestsFailed, CopiedIsOrigin, EarlyIsOrigin, WorkPhase, SafetyIsOrigin, RecoveryActive,
        RestoreTerminalPhases, EarlyPhases, Safety,
        RInv, Guarded, WorkIsRecovery, ServerRests, SealedFirst, ResumeRestore, RollbackRestore

LEMMA PrepareSafetyUnharmed == ASSUME RInv, Unharmed, PrepareSafety PROVE Unharmed'
  BY TypedFacts, NothingIsTree, NoTreeIsFresh, SMT
    DEF Unharmed, RestsFailed, CopiedIsOrigin, EarlyIsOrigin, WorkPhase, SafetyIsOrigin, RecoveryActive,
        RestoreTerminalPhases, EarlyPhases, Safety,
        RInv, Guarded, WorkIsRecovery, ServerRests, SealedFirst, PrepareSafety, AdoptSafety,
        KeepSafety, SafetyInvalid, StartSafetyCopy, Readable

LEMMA CopySafetyUnharmed == ASSUME NEW c \in Components, RInv, Unharmed, CopySafety(c) PROVE Unharmed'
  <1>1. /\ Safety \in Trees /\ world = origin /\ c \in todo /\ journal.safety \in CopyIds
        /\ \A d \in Components \ todo : Safety[d] = origin[d]
    BY TypedFacts
      DEF CopySafety, Unharmed, RestsFailed, CopiedIsOrigin, EarlyIsOrigin, WorkPhase, SafetyIsOrigin,
          RecoveryActive, RestoreTerminalPhases, EarlyPhases, Safety, RInv
  <1>2. /\ Safety' = [Safety EXCEPT ![c] = world[c]] /\ todo' = todo \ {c}
        /\ UNCHANGED <<world, journal, pc, origin>>
    BY <1>1, TypedFacts, NoTreeIsFresh DEF CopySafety, Safety, RInv
  <1>3. Safety' \in Trees /\ \A d \in Components \ todo' : Safety'[d] = origin[d]
    <2>1. world[c] \in Contents
      BY TypedFacts DEF RInv, Trees
    <2>2. Safety' \in Trees
      BY <1>1, <1>2, <2>1, PutTree
    <2>3. \A d \in Components : Safety'[d] = IF d = c THEN origin[c] ELSE Safety[d]
      BY <1>1, <1>2 DEF Trees
    <2> QED BY <1>1, <1>2, <2>2, <2>3
  <1>4. RecoveryActive' = RecoveryActive /\ pc = "copySafety"
    BY <1>2 DEF RecoveryActive, CopySafety
  <1> QED BY <1>2, <1>3, <1>4, NoTreeIsFresh
    DEF Unharmed, RestsFailed, CopiedIsOrigin, EarlyIsOrigin, WorkPhase, SafetyIsOrigin

LEMMA SealSafetyUnharmed == ASSUME RInv, Unharmed, SealSafety PROVE Unharmed'
  <1>1. Safety = origin /\ world = origin /\ journal.phase = "safety_copy"
    <2>1. /\ Safety # NoTree /\ \A c \in Components : Safety[c] = origin[c]
          /\ world = origin /\ journal.phase = "safety_copy"
      BY DEF SealSafety, Unharmed, CopiedIsOrigin, EarlyIsOrigin, WorkPhase, EarlyPhases
    <2>2. Safety \in Trees /\ origin \in Trees
      BY <2>1, TypedFacts DEF RInv, Safety
    <2> QED BY <2>1, <2>2 DEF Trees
  <1>2. /\ UNCHANGED <<world, origin>> /\ pc = "copySafety"
        /\ \/ pc' = "failure" /\ UNCHANGED journal
           \/ pc' = "prepareStaging" /\ journal'.safetySum = origin /\ journal'.phase = "staging"
    BY <1>1, TypedFacts, JournalChanged DEF SealSafety, RInv
  <1> QED BY <1>1, <1>2, SMT
    DEF Unharmed, RestsFailed, CopiedIsOrigin, EarlyIsOrigin, WorkPhase, SafetyIsOrigin, RecoveryActive,
        RestoreTerminalPhases, EarlyPhases, Safety

LEMMA StagingUnharmed ==
  ASSUME RInv, Unharmed, PrepareStaging \/ CopyStaging \/ SealStaging
  PROVE  Unharmed'
  BY TypedFacts, PhaseChanged, JournalChanged, SMT
    DEF Unharmed, RestsFailed, CopiedIsOrigin, EarlyIsOrigin, WorkPhase, SafetyIsOrigin, RecoveryActive,
        RestoreTerminalPhases, EarlyPhases, Safety,
        RInv, Guarded, WorkIsRecovery, ServerRests, SealedFirst, PrepareStaging, CopyStaging,
        SealStaging

LEMMA ForwardUnharmed == ASSUME RInv, Unharmed, Forward \/ VerifyTarget \/ StartCommit PROVE Unharmed'
  <1>1. /\ journal'.safety = journal.safety /\ journal'.safetySum = journal.safetySum
        /\ \/ pc' \in {"forward", "replace"} /\ journal'.phase = "replacing"
           \/ pc' = "failure" /\ journal' = journal
           \/ pc' = "commit" /\ journal'.phase = "committing"
    <2>1. CASE pc' = "failure" /\ journal' = journal
      BY <2>1
    <2>2. CASE pc' \in {"forward", "replace"} /\ \E d : Replacing(d)
      BY <2>2, TypedFacts, JournalChanged DEF RInv
    <2>3. CASE StartCommit
      BY <2>3, TypedFacts, PhaseChanged DEF StartCommit, RInv
    <2> QED BY <2>1, <2>2, <2>3 DEF Forward, VerifyTarget
  <1>2. /\ UNCHANGED <<world, copies, origin>> /\ RecoveryActive
        /\ pc \in {"forward", "verify"}
    BY DEF Forward, VerifyTarget, StartCommit, RInv, Guarded, WorkIsRecovery
  <1> QED BY <1>1, <1>2, SMT
    DEF Unharmed, RestsFailed, CopiedIsOrigin, EarlyIsOrigin, WorkPhase, SafetyIsOrigin, RecoveryActive,
        RestoreTerminalPhases, EarlyPhases, Safety

LEMMA ReplaceUnharmed == ASSUME RInv, Unharmed, Replace PROVE Unharmed'
  BY TypedFacts, PhaseChanged, JournalChanged, SMT
    DEF Unharmed, RestsFailed, CopiedIsOrigin, EarlyIsOrigin, WorkPhase, SafetyIsOrigin, RecoveryActive,
        RestoreTerminalPhases, EarlyPhases, Safety,
        RInv, Guarded, WorkIsRecovery, ServerRests, SealedFirst, Replace

LEMMA CommitUnharmed == ASSUME RInv, Unharmed, Commit PROVE Unharmed'
  BY TypedFacts, SMT
    DEF Unharmed, RestsFailed, CopiedIsOrigin, EarlyIsOrigin, WorkPhase, SafetyIsOrigin, RecoveryActive,
        RestoreTerminalPhases, EarlyPhases, Safety,
        RInv, Guarded, WorkIsRecovery, ServerRests, SealedFirst, Commit, Journals

LEMMA FailureUnharmed == ASSUME RInv, Unharmed, HandleFailure \/ GiveUp PROVE Unharmed'
  BY TypedFacts, SMT
    DEF Unharmed, RestsFailed, CopiedIsOrigin, EarlyIsOrigin, WorkPhase, SafetyIsOrigin, RecoveryActive,
        RestoreTerminalPhases, EarlyPhases, Safety,
        RInv, Guarded, WorkIsRecovery, ServerRests, SealedFirst, HandleFailure, GiveUp, RolledBack,
        Journals

LEMMA UndoUnharmed == ASSUME RInv, Unharmed, StartUndo \/ Undo PROVE Unharmed'
  BY TypedFacts, PhaseChanged, JournalChanged, SMT
    DEF Unharmed, RestsFailed, CopiedIsOrigin, EarlyIsOrigin, WorkPhase, SafetyIsOrigin, RecoveryActive,
        RestoreTerminalPhases, EarlyPhases, Safety,
        RInv, Guarded, WorkIsRecovery, ServerRests, SealedFirst, StartUndo, Undo

LEMMA UndoneUnharmed ==
  ASSUME RInv, Unharmed, VerifyUndo \/ EndRollback \/ RollbackFailed
  PROVE  Unharmed'
  BY TypedFacts, NoTreeIsFresh, SMT
    DEF Unharmed, RestsFailed, CopiedIsOrigin, EarlyIsOrigin, WorkPhase, SafetyIsOrigin, RecoveryActive,
        RestoreTerminalPhases, EarlyPhases, Safety,
        RInv, Guarded, WorkIsRecovery, ServerRests, SealedFirst, VerifyUndo, EndRollback,
        RollbackFailed, RolledBack, Journals

LEMMA FaultUnharmed == ASSUME RInv, Unharmed, Fault PROVE Unharmed'
  <1>1. /\ UNCHANGED <<journal, origin>>
        /\ \/ pc \in ForwardPoints /\ pc' = "failure"
           \/ pc \in BackwardPoints /\ pc' = "rollbackFailed"
    BY DEF Fault, BackwardPoints, ForwardPoints
  <1>2. pc \notin {"replace", "undo"} => world' = world
    BY InterruptedTypes DEF Fault, RInv
  <1> QED BY <1>1, <1>2, SMT
    DEF Unharmed, RestsFailed, CopiedIsOrigin, EarlyIsOrigin, WorkPhase, SafetyIsOrigin, RecoveryActive,
        RestoreTerminalPhases, EarlyPhases, Safety,
        ForwardPoints, BackwardPoints

LEMMA OtherUnharmed == ASSUME NEW i \in CopyIds, NEW n \in 0..MaxCopies, RInv, Unharmed, 
         \/ Delete(i) \/ SetRetention(n) \/ StartServer \/ StopServer \/ GameSaves \/ GameBackup(i)
         \/ RepairSafety PROVE Unharmed'
  BY TypedFacts, PhaseChanged, JournalChanged, SMT
    DEF Unharmed, RestsFailed, CopiedIsOrigin, EarlyIsOrigin, WorkPhase, SafetyIsOrigin, RecoveryActive,
        RestoreTerminalPhases, EarlyPhases, Safety,
        RInv, Guarded, WorkIsRecovery, ServerRests, SealedFirst, Delete, SetRetention, StartServer,
        StopServer, GameSaves, GameBackup, RepairSafety

LEMMA StepUnharmed == ASSUME NoHarm, RInv, Unharmed, [Next]_vars PROVE Unharmed'
  <1>0. 0 \in 0..MaxCopies /\ 1 \in CopyIds
    BY BoundsAreNat DEF CopyIds
  <1>1. CASE Request
    BY <1>0, <1>1, BeginUnharmed, ResumeUnharmed, OtherUnharmed DEF Request
  <1>2. CASE Step
    BY <1>2, PrepareSafetyUnharmed, CopySafetyUnharmed, SealSafetyUnharmed, StagingUnharmed,
       ForwardUnharmed, ReplaceUnharmed, CommitUnharmed, FailureUnharmed, UndoUnharmed, UndoneUnharmed
    DEF Step
  <1>3. CASE Environment
    BY <1>0, <1>3, FaultUnharmed, OtherUnharmed, Calm DEF Environment
  <1>4. CASE UNCHANGED vars
    BY <1>4 DEF vars, Unharmed, RestsFailed, CopiedIsOrigin, EarlyIsOrigin, WorkPhase, SafetyIsOrigin,
       RecoveryActive, Safety
  <1> QED BY <1>1, <1>2, <1>3, <1>4 DEF Next

LEMMA UnharmedAlways == ASSUME NoHarm PROVE Spec => []Unharmed
  <1>1. Init => RInv /\ Unharmed
    BY InitInv, InitUnharmed
  <1>2. RInv /\ Unharmed /\ [Next]_vars => (RInv /\ Unharmed)'
    BY StepInv, StepUnharmed
  <1> QED BY <1>1, <1>2, PTL DEF Spec

(* Without a crash, what is on record as the safety copy is the world the    *)
(* restore began with.                                                       *)
THEOREM SafetyIsOriginAlways == ASSUME NoHarm PROVE Spec => []SafetyIsOrigin
  <1>1. Unharmed => SafetyIsOrigin
    BY DEF Unharmed
  <1> QED BY <1>1, UnharmedAlways, PTL

-----------------------------------------------------------------------------
(* The refinement: what the owner of the world sees. *)
LEMMA InitRefines == Init => Atomic!Init
  <1> SUFFICES ASSUME Init PROVE Atomic!Init
    OBVIOUS
  <1>1. ~RecoveryActive /\ journal.sourceSum = NoTree
    BY DEF Init, NoJournal, RecoveryActive, RestoreTerminalPhases
  <1> QED BY <1>1, WorldsAreTrees DEF Init, Atomic!Init

(* A step that neither begins nor ends a restore, nor plays, is not seen. *)
LEMMA Unseen ==
  ASSUME RecoveryActive, RecoveryActive', UNCHANGED origin, journal'.sourceSum = journal.sourceSum
  PROVE  UNCHANGED Atomic!vars
  BY DEF Atomic!vars

(* A step of the thread goes on, completes the restore or ends the roll back. *)
LEMMA StepRefines ==
  ASSUME RInv, Unharmed, Step
  PROVE  Atomic!Complete \/ Atomic!Abandon \/ UNCHANGED Atomic!vars
  <1> USE TypedFacts DEF RInv
  <1>1. RecoveryActive /\ UNCHANGED origin
    BY DEF Step, PrepareSafety, AdoptSafety, KeepSafety, SafetyInvalid, StartSafetyCopy, CopySafety,
       SealSafety, PrepareStaging, CopyStaging, SealStaging, Forward, Replace, VerifyTarget,
       StartCommit,
       Commit, HandleFailure, GiveUp, RolledBack, StartUndo, Undo, VerifyUndo, EndRollback,
       RollbackFailed,
       Guarded, WorkIsRecovery
  <1>2. CASE Commit /\ FinalCheck
    <2>1. /\ world' = world /\ world = journal.sourceSum /\ journal'.sourceSum = journal.sourceSum
          /\ journal'.phase = "completed"
      BY <1>2 DEF Commit, FinalCheck, Journals
    <2>2. ~RecoveryActive'
      BY <2>1 DEF RecoveryActive, RestoreTerminalPhases
    <2> QED BY <1>1, <2>1, <2>2 DEF Atomic!Complete
  <1>3. CASE GiveUp \/ EndRollback
    <2>1. /\ world' = world /\ world = origin /\ journal'.sourceSum = journal.sourceSum
          /\ journal'.phase = "rolled_back"
      BY <1>3 DEF GiveUp, EndRollback, RolledBack, Unharmed, EarlyIsOrigin, Journals
    <2>2. ~RecoveryActive'
      BY <2>1 DEF RecoveryActive, RestoreTerminalPhases
    <2> QED BY <1>1, <2>1, <2>2 DEF Atomic!Abandon
  <1>4. CASE ~(Commit /\ FinalCheck) /\ ~GiveUp /\ ~EndRollback
    <2>1. RecoveryActive' /\ journal'.sourceSum = journal.sourceSum
      <3>1. CASE journal' = journal
        BY <1>1, <3>1 DEF RecoveryActive
      <3>2. CASE \E t : journal' = Sealed(t)
        BY <1>1, <3>2 DEF Sealed, Journals, RecoveryActive, RestoreTerminalPhases
      <3>3. CASE journal' = StagingReady
        BY <1>1, <3>3 DEF StagingReady, Journals, RecoveryActive, RestoreTerminalPhases
      <3>4. CASE \E d : Replacing(d)
        BY <3>4 DEF Replacing, Journals, RecoveryActive, RestoreTerminalPhases
      <3>5. CASE \E p \in {"committing", "rollback_pending", "rollback_failed"} :
                   journal' = [journal EXCEPT !.phase = p]
        BY <3>5, PhaseChanged DEF RecoveryActive, RestoreTerminalPhases
      <3> QED BY <1>4, <3>1, <3>2, <3>3, <3>4, <3>5
        DEF Step, PrepareSafety, AdoptSafety, KeepSafety, SafetyInvalid, StartSafetyCopy, CopySafety,
            SealSafety, PrepareStaging, CopyStaging, SealStaging, Forward, Replace, VerifyTarget,
            StartCommit,
            Commit, HandleFailure, StartUndo, Undo, VerifyUndo, RollbackFailed
    <2> QED BY <1>1, <2>1, Unseen
  <1> QED BY <1>2, <1>3, <1>4

LEMMA BeginRefines ==
  ASSUME RInv, NEW source \in CopyIds, NEW safety \in CopyIds, BeginRestore(source, safety)
  PROVE  Atomic!Begin
  <1>1. ~RecoveryActive /\ origin' = world /\ copies[source] \in Trees \union {NoTree}
    BY TypedFacts DEF BeginRestore, RInv
  <1>2. journal'.phase = "safety_copy" /\ journal'.sourceSum = copies[source]
    BY DEF BeginRestore, NoJournal
  <1>3. RecoveryActive'
    BY <1>2 DEF RecoveryActive, RestoreTerminalPhases
  <1> QED BY <1>1, <1>2, <1>3 DEF Atomic!Begin

(* Everything else is not seen, except a game that saves. *)
LEMMA OtherRefines ==
  ASSUME RInv, UNCHANGED <<journal, origin>>,
         RecoveryActive \/ world' = world \/ world' \in GameWorlds
  PROVE  Atomic!Play \/ UNCHANGED Atomic!vars
  <1>1. RecoveryActive' = RecoveryActive /\ world \in Trees
    BY TypedFacts DEF RecoveryActive, RInv
  <1>2. CASE RecoveryActive
    BY <1>1, <1>2, Unseen
  <1>3. CASE ~RecoveryActive /\ world' = world
    BY <1>1, <1>3 DEF Atomic!vars
  <1>4. CASE ~RecoveryActive /\ world' \in GameWorlds
    BY <1>1, <1>4, WorldsAreTrees DEF Atomic!Play
  <1> QED BY <1>2, <1>3, <1>4

LEMMA NextRefines ==
  ASSUME NoHarm, RInv, Unharmed, [Next]_vars
  PROVE  [Atomic!Next]_(Atomic!vars)
  <1>1. CASE Step
    BY <1>1, StepRefines DEF Atomic!Next
  <1>2. CASE \E source, safety \in CopyIds : BeginRestore(source, safety)
    BY <1>2, BeginRefines DEF Atomic!Next
  <1>3. CASE ~Step /\ ~(\E source, safety \in CopyIds : BeginRestore(source, safety))
    <2>1. ~Crash /\ \A i \in CopyIds : ~Meddle(i)
      BY Calm
    <2>2. CASE Fault
      <3>1. RecoveryActive /\ UNCHANGED <<journal, origin>>
        BY <2>2 DEF Fault, ForwardPoints, BackwardPoints, RInv, Guarded, WorkIsRecovery
      <3> QED BY <3>1, OtherRefines DEF Atomic!Next
    <2>3. CASE GameSaves
      <3>1. UNCHANGED <<journal, origin>> /\ world' \in GameWorlds
        BY <2>3 DEF GameSaves
      <3> QED BY <3>1, OtherRefines DEF Atomic!Next
    <2>4. CASE ~Fault /\ ~GameSaves
      <3>1. UNCHANGED <<journal, origin>> /\ world' = world
        BY <1>3, <2>1, <2>4
        DEF Next, Request, Environment, ResumeRestore, RollbackRestore, Delete, SetRetention,
        RepairSafety,
            StartServer, StopServer, GameBackup, vars
      <3> QED BY <3>1, OtherRefines DEF Atomic!Next
    <2> QED BY <2>2, <2>3, <2>4
  <1> QED BY <1>1, <1>2, <1>3

(* Whatever file operations fail, the owner of the world sees the old world  *)
(* or the backup: Restore implements AtomicRestore.                          *)
THEOREM RestoreIsAtomicAlways == ASSUME NoHarm PROVE Spec => RestoreIsAtomic
  <1>1. Init => Atomic!Init
    BY InitRefines
  <1>2. RInv /\ Unharmed /\ [Next]_vars => [Atomic!Next]_(Atomic!vars)
    BY NextRefines
  <1> QED BY <1>1, <1>2, RInvAlways, UnharmedAlways, PTL DEF Spec, RestoreIsAtomic, Atomic!Spec
=============================================================================
