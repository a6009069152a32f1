----------------------------- MODULE ConfigDraft -----------------------------
(***************************************************************************)
(* Saving and applying the game configuration (config_editor.py).  A save  *)
(* becomes a draft in three places that change one after the other: the    *)
(* pending file, the config_drafts row, and finally the live file, which   *)
(* is PalWorldSettings.ini or the WorldOption.sav of the selected world.   *)
(* The watcher, the server operations and the save itself apply the draft  *)
(* under the control lock; the operator and the game edit the live files   *)
(* without it.                                                             *)
(*                                                                         *)
(* A document has one value per field.  The lock is held while pc # "idle":*)
(* everything here that needs it begins at pc = "idle".                    *)
(***************************************************************************)
EXTENDS Naturals, FiniteSets

CONSTANTS
  Fields,     \* configuration fields, Password among them
  Password,   \* AdminPassword, which LAN clients log in with
  Values,     \* values a field can have
  Worlds,     \* worlds the console can select; they share one installation
  NoValue,    \* a field that a draft does not change; nobody is logging in
  NoFile,     \* a file that does not exist
  NoRow,      \* no row in config_drafts
  NoWorld,    \* target of a draft of an older version that recorded none
  MaxSaves,   \* saves accepted over the whole run
  MaxEdits,   \* fields edited outside the console
  MaxCrashes, \* console crashes
  MaxFaults,  \* steps that fail with an I/O error
  MaxEvents,  \* edits, crashes and errors together
  MaxSessions \* passwords with an open session

ASSUME PasswordIsField == Password \in Fields

ASSUME BoundsAreNat ==
  /\ MaxSaves \in Nat /\ MaxEdits \in Nat
  /\ MaxCrashes \in Nat /\ MaxFaults \in Nat /\ MaxEvents \in Nat
  /\ MaxSessions \in Nat

Kinds == {"ini", "world-option"}
Docs == [Fields -> Values]
Edits == [Fields -> Values \union {NoValue}]
NoEdits == [f \in Fields |-> NoValue]

VARIABLES
  ini,        \* PalWorldSettings.ini
  option,     \* WorldOption.sav of each world
  world,      \* the selected world
  running,    \* TRUE while PalServer runs
  restoring,  \* TRUE while a restore journal is not terminal
  row,        \* the row of config_drafts
  drafts,     \* pending/pending-ini.json and pending/pending-world-option.json
  oldDraft,   \* drafts of the oldest version: a whole document, per kind
  pc,         \* where the thread that holds the control lock is
  saving,     \* the save it carries out
  writing,    \* the document it is about to install
  sessions,   \* passwords with which LAN sessions were opened
  login,      \* a LAN login under way: the password it has compared with
  accepted,   \* history: edits on record and not yet applied
  based,      \* history: the value the operator saw when saving that field
  raced,      \* history: server or files changed since the thread looked
  foreign,    \* history: the password was changed by something else
  cut,        \* history: an apply that replaced the file was cut short
  spent       \* saves, edits, crashes and faults used up

files == <<ini, option>>
store == <<row, drafts, oldDraft>>
outside == <<world, running, restoring>>
thread == <<pc, saving, writing>>
auth == <<sessions, login>>
history == <<accepted, based, raced, foreign, cut>>
vars == <<ini, option, world, running, restoring, row, drafts, oldDraft, pc,
          saving, writing, sessions, login, accepted, based, raced, foreign,
          cut, spent>>

Points == {"idle", "writeDraft", "recordDraft", "apply", "replace", "verify",
           "clear", "unlink", "revoke"}

\* What a pending file holds.  A draft of an older version has no baseline, and
\* perhaps no target.
Draft == [updates : Edits, baseline : Edits, world : Worlds \union {NoWorld},
          complete : BOOLEAN]
Rows == [kind : Kinds, old : BOOLEAN]

ASSUME AbsentIsFresh ==
  /\ NoValue \notin Values
  /\ NoWorld \notin Worlds
  /\ NoRow \notin Rows
  /\ NoFile \notin Docs \union Draft

\* No save and no write under way.
NoSave ==
  [kind |-> "ini", changes |-> NoEdits, seen |-> NoEdits, draft |-> NoFile]
NoWrite == [kind |-> "ini", content |-> NoFile, before |-> NoValue]

\* Edits on top of a document, or of other edits.
Merged(base, edits) ==
  [f \in Fields |-> IF edits[f] # NoValue THEN edits[f] ELSE base[f]]

Edited(edits) == {f \in Fields : edits[f] # NoValue}

\* The document a kind stands for: a world without a WorldOption.sav gets one
\* that is filled from the INI.
Document(kind) ==
  IF kind = "ini" \/ option[world] = NoFile THEN ini ELSE option[world]

\* read_admin_password: WorldOption.sav has precedence over the INI.
EffectivePassword == Document("world-option")[Password]

\* A draft of an older version may be on record.
LegacyDrafts ==
  [updates : Edits, baseline : {NoEdits}, world : Worlds \union {NoWorld}, complete : {FALSE}]

Init ==
  /\ ini \in Docs
  /\ option \in [Worlds -> Docs \union {NoFile}]
  /\ world \in Worlds
  /\ running \in BOOLEAN
  /\ restoring = FALSE
  /\ row \in {NoRow} \union Rows
  /\ \E draft \in LegacyDrafts, document \in Docs :
       /\ drafts = [k \in Kinds |-> IF row = [kind |-> k, old |-> FALSE] THEN draft ELSE NoFile]
       /\ oldDraft = [k \in Kinds |-> IF row = [kind |-> k, old |-> TRUE] THEN document ELSE NoFile]
  /\ pc = "idle"
  /\ saving = NoSave
  /\ writing = NoWrite
  /\ sessions = {}
  /\ login = NoValue
  /\ accepted = IF row # NoRow /\ ~row.old THEN drafts[row.kind].updates ELSE NoEdits
  /\ based = NoEdits
  /\ raced = FALSE
  /\ foreign = FALSE
  /\ cut = FALSE
  /\ spent = [saves |-> 0, edits |-> 0, crashes |-> 0, faults |-> 0]

(***************************************************************************)
(* save_ini and save_world_option                                          *)
(***************************************************************************)

\* Mutant: a pending file is merged although no row names it.
OnDiskDraft(kind) ==
  IF drafts[kind] # NoFile THEN drafts[kind]
  ELSE [updates |-> NoEdits, baseline |-> NoEdits, world |-> world, complete |-> TRUE]

\* _pending_updates: the draft a save of this kind adds to.
OnRecord(kind) ==
  IF row = [kind |-> kind, old |-> FALSE] THEN drafts[kind]
  ELSE [updates |-> NoEdits, baseline |-> NoEdits, world |-> world, complete |-> TRUE]

\* A draft of an older version without baseline or target.
Complete(draft) == draft.complete /\ draft.world # NoWorld

\* The save is refused while the other file has a draft, while the draft on
\* record belongs to another world, or when it leaves fields of an old draft
\* without a baseline.
MayAdd(kind, changes) ==
  \/ row = NoRow
  \/ /\ row = [kind |-> kind, old |-> FALSE]
     /\ drafts[kind].world \in {world, NoWorld}
     /\ Complete(drafts[kind]) \/ Edited(drafts[kind].updates) \subseteq Edited(changes)
  \/ /\ row = [kind |-> kind, old |-> TRUE]
     /\ {f \in Fields : oldDraft[kind][f] # Document(kind)[f]} \subseteq Edited(changes)

\* Mutant: every field of the draft gets a new baseline, saved again or not.
NewBaseline(kind, changes) ==
  [f \in Fields |->
     IF Merged(OnRecord(kind).updates, changes)[f] # NoValue
     THEN Document(kind)[f] ELSE NoValue]

\* Only the fields of this save get a new baseline.
Baseline(kind, changes) ==
  [f \in Fields |->
     IF changes[f] # NoValue THEN Document(kind)[f] ELSE OnRecord(kind).baseline[f]]

\* What goes wrong or comes from outside, in total.
Room == spent.edits + spent.crashes + spent.faults < MaxEvents

Save(kind, changes) ==
  /\ pc = "idle"
  /\ spent.saves < MaxSaves
  /\ MayAdd(kind, changes)
  /\ saving' =
       [kind |-> kind, changes |-> changes,
        seen |-> [f \in Fields |-> IF changes[f] # NoValue THEN Document(kind)[f] ELSE NoValue],
        draft |-> [updates |-> Merged(OnRecord(kind).updates, changes),
                   baseline |-> Baseline(kind, changes),
                   world |-> world, complete |-> TRUE]]
  /\ pc' = "writeDraft"
  /\ spent' = [spent EXCEPT !.saves = @ + 1]
  /\ UNCHANGED <<files, store, outside, writing, auth, history>>

\* What is on record after the save: it counts from the moment a crash would
\* not undo it.
Recorded ==
  /\ accepted' = Merged(accepted, saving.changes)
  /\ based' = Merged(based, saving.seen)

\* os.replace of the pending file.
WriteDraft ==
  /\ pc = "writeDraft"
  /\ drafts' = [drafts EXCEPT ![saving.kind] = saving.draft]
  /\ IF row = [kind |-> saving.kind, old |-> FALSE]
     THEN Recorded
     ELSE UNCHANGED <<accepted, based>>
  /\ pc' = "recordDraft"
  /\ UNCHANGED <<files, row, oldDraft, outside, saving, writing, auth,
                 raced, foreign, cut, spent>>

\* save_config_draft; the file of the row that is replaced is removed.
RecordDraft ==
  /\ pc = "recordDraft"
  /\ row' = [kind |-> saving.kind, old |-> FALSE]
  /\ Recorded
  /\ oldDraft' = [oldDraft EXCEPT ![saving.kind] = NoFile]
  /\ pc' = "apply"
  /\ saving' = NoSave
  /\ UNCHANGED <<files, drafts, outside, writing, auth, raced, foreign, cut, spent>>

(***************************************************************************)
(* _apply_pending_exclusive                                                *)
(***************************************************************************)

Done ==
  /\ pc' = "idle"
  /\ saving' = NoSave
  /\ writing' = NoWrite

\* Mutant: the watcher looks for drafts of the INI only.
WatchIni ==
  /\ pc = "idle"
  /\ row \in [kind : {"ini"}, old : BOOLEAN]
  /\ pc' = "apply"
  /\ UNCHANGED <<files, store, outside, saving, writing, auth, history, spent>>

\* The watcher finds a row, or a server operation calls apply_pending.
StartApply ==
  /\ pc = "idle"
  /\ row # NoRow
  /\ pc' = "apply"
  /\ UNCHANGED <<files, store, outside, saving, writing, auth, history, spent>>

\* _check_pending_conflicts: a field of the draft has the value it had when it
\* was saved, or already the one it is to get.
NoConflict(kind) ==
  \A f \in Edited(drafts[kind].updates) :
    Document(kind)[f] \in {drafts[kind].baseline[f], drafts[kind].updates[f]}

\* Mutant: the draft is applied to whatever world is selected.
ApplicableAnywhere ==
  /\ ~running /\ ~restoring
  /\ row \in [kind : Kinds, old : {FALSE}]
  /\ Complete(drafts[row.kind])
  /\ NoConflict(row.kind)

\* A draft is applied to a stopped server, with no restore unfinished, in the
\* world it was saved for, when it records what it was based on.
Applicable ==
  /\ ~running /\ ~restoring
  /\ row \in [kind : Kinds, old : {FALSE}]
  /\ drafts[row.kind].world = world
  /\ Complete(drafts[row.kind])
  /\ NoConflict(row.kind)

RefuseApply ==
  /\ pc = "apply"
  /\ ~Applicable
  /\ Done
  /\ UNCHANGED <<files, store, outside, auth, history, spent>>

\* Mutant: the draft is taken off the record before it is written.
ReadAndClear ==
  /\ pc = "apply"
  /\ Applicable
  /\ writing' = [kind |-> row.kind,
                 content |-> Merged(Document(row.kind), drafts[row.kind].updates),
                 before |-> EffectivePassword]
  /\ row' = NoRow
  /\ raced' = FALSE
  /\ pc' = "replace"
  /\ UNCHANGED <<files, drafts, oldDraft, outside, saving, auth, accepted, based,
                 foreign, cut, spent>>

\* The new document is computed from what is read now.
ReadForApply ==
  /\ pc = "apply"
  /\ Applicable
  /\ writing' = [kind |-> row.kind,
                 content |-> Merged(Document(row.kind), drafts[row.kind].updates),
                 before |-> EffectivePassword]
  /\ raced' = FALSE
  /\ pc' = "replace"
  /\ UNCHANGED <<files, store, outside, saving, auth, accepted, based, foreign, cut, spent>>

Install ==
  IF writing.kind = "ini"
  THEN ini' = writing.content /\ UNCHANGED option
  ELSE option' = [option EXCEPT ![world] = writing.content] /\ UNCHANGED ini

\* The backup copy, the temporary file and os.replace.
Replace ==
  /\ pc = "replace"
  /\ Install
  /\ pc' = "verify"
  /\ UNCHANGED <<store, outside, saving, writing, auth, history, spent>>

\* The file is read back.
Verify ==
  /\ pc = "verify"
  /\ IF Document(writing.kind) = writing.content
     THEN pc' = "clear" /\ UNCHANGED <<saving, writing, cut>>
     ELSE Done /\ cut' = TRUE
  /\ UNCHANGED <<files, store, outside, auth, accepted, based, raced, foreign, spent>>

Clear ==
  /\ pc = "clear"
  /\ row' = NoRow
  /\ accepted' = NoEdits
  /\ based' = NoEdits
  /\ pc' = "unlink"
  /\ UNCHANGED <<files, drafts, oldDraft, outside, saving, writing, auth,
                 raced, foreign, cut, spent>>

Unlink ==
  /\ pc = "unlink"
  /\ drafts' = [drafts EXCEPT ![writing.kind] = NoFile]
  /\ pc' = "revoke"
  /\ UNCHANGED <<files, row, oldDraft, outside, saving, writing, auth, history, spent>>

\* Mutant: sessions are revoked without waiting for a login under way.
RevokeWithoutLock ==
  /\ sessions' = {}
  /\ foreign' = FALSE
  /\ cut' = FALSE
  /\ UNCHANGED login

\* revoke_lan_sessions waits for a login that has compared the password.
RevokeSessions ==
  /\ login = NoValue
  /\ sessions' = {}
  /\ foreign' = FALSE
  /\ cut' = FALSE
  /\ UNCHANGED login

Revoke ==
  /\ pc = "revoke"
  /\ IF EffectivePassword # writing.before
     THEN RevokeSessions
     ELSE UNCHANGED <<auth, foreign, cut>>
  /\ Done
  /\ UNCHANGED <<files, store, outside, accepted, based, raced, spent>>

(***************************************************************************)
(* Crashes and I/O errors                                                  *)
(***************************************************************************)

\* The points at which the live file has been replaced already.
Replaced == {"verify", "clear", "unlink", "revoke"}

\* The process dies; a row, a pending file and the sessions survive it.
Crash ==
  /\ pc # "idle"
  /\ spent.crashes < MaxCrashes /\ Room
  /\ Done
  /\ login' = NoValue
  /\ cut' = (cut \/ pc \in Replaced)
  /\ spent' = [spent EXCEPT !.crashes = @ + 1]
  /\ UNCHANGED <<files, store, outside, sessions, accepted, based, raced, foreign>>

\* A file held open, a full disk, a locked database: the step raises.
Fault ==
  /\ pc \notin {"idle", "apply"}
  /\ spent.faults < MaxFaults /\ Room
  /\ Done
  /\ cut' = (cut \/ pc \in Replaced)
  /\ spent' = [spent EXCEPT !.faults = @ + 1]
  /\ UNCHANGED <<files, store, outside, auth, accepted, based, raced, foreign>>

(***************************************************************************)
(* The operator, the game and the other services                           *)
(***************************************************************************)

Elsewhere == foreign' = (foreign \/ EffectivePassword' # EffectivePassword)

\* Somebody edits a field of a live file.
EditIni(f, v) ==
  /\ spent.edits < MaxEdits /\ Room
  /\ ini' = [ini EXCEPT ![f] = v]
  /\ raced' = TRUE
  /\ spent' = [spent EXCEPT !.edits = @ + 1]
  /\ UNCHANGED <<option, store, outside, thread, auth, accepted, based, cut>>
  /\ Elsewhere

EditOption(w, f, v) ==
  /\ spent.edits < MaxEdits /\ Room
  /\ option[w] # NoFile
  /\ option' = [option EXCEPT ![w][f] = v]
  /\ raced' = TRUE
  /\ spent' = [spent EXCEPT !.edits = @ + 1]
  /\ UNCHANGED <<ini, store, outside, thread, auth, accepted, based, cut>>
  /\ Elsewhere

ServerStarts ==
  /\ ~running
  /\ running' = TRUE
  /\ raced' = TRUE
  /\ UNCHANGED <<files, store, world, restoring, thread, auth, accepted, based,
                 foreign, cut, spent>>

ServerExits ==
  /\ running
  /\ running' = FALSE
  /\ UNCHANGED <<files, store, world, restoring, thread, auth, history, spent>>

\* The routes that select a world and the restore service take the lock.
SelectWorld(w) ==
  /\ pc = "idle"
  /\ w # world
  /\ world' = w
  /\ UNCHANGED <<files, store, running, restoring, thread, auth, accepted, based,
                 raced, cut, spent>>
  /\ Elsewhere

RestoreBegins ==
  /\ pc = "idle"
  /\ ~running /\ ~restoring
  /\ restoring' = TRUE
  /\ UNCHANGED <<files, store, world, running, thread, auth, history, spent>>

RestoreEnds ==
  /\ pc = "idle"
  /\ restoring
  /\ restoring' = FALSE
  /\ UNCHANGED <<files, store, world, running, thread, auth, history, spent>>

\* authenticate_lan compares the password, then creates the session.
LoginBegins ==
  /\ login = NoValue
  /\ Cardinality(sessions) < MaxSessions
  /\ login' = EffectivePassword
  /\ UNCHANGED <<files, store, outside, thread, sessions, history, spent>>

LoginEnds ==
  /\ login # NoValue
  /\ sessions' = sessions \union {login}
  /\ login' = NoValue
  /\ UNCHANGED <<files, store, outside, thread, history, spent>>

(***************************************************************************)
(* Specification                                                           *)
(***************************************************************************)

Step ==
  \/ WriteDraft \/ RecordDraft
  \/ RefuseApply \/ ReadForApply \/ Replace \/ Verify \/ Clear \/ Unlink \/ Revoke

Environment ==
  \/ Crash \/ Fault
  \/ \E f \in Fields, v \in Values :
       EditIni(f, v) \/ \E w \in Worlds : EditOption(w, f, v)
  \/ ServerStarts \/ ServerExits \/ RestoreBegins \/ RestoreEnds
  \/ \E w \in Worlds : SelectWorld(w)
  \/ LoginBegins \/ LoginEnds

Next ==
  \/ \E kind \in Kinds, changes \in Edits : Save(kind, changes)
  \/ StartApply
  \/ Step
  \/ Environment

Spec == Init /\ [][Next]_vars

\* The thread that holds the lock goes on, the watcher looks every second, a
\* login that has compared the password ends.
Fairness == WF_vars(Step) /\ WF_vars(StartApply) /\ WF_vars(LoginEnds)

FairSpec == Spec /\ Fairness

(***************************************************************************)
(* Properties                                                              *)
(***************************************************************************)

\* Every variable has its type.
TypeOK ==
  /\ ini \in Docs
  /\ option \in [Worlds -> Docs \union {NoFile}]
  /\ world \in Worlds
  /\ running \in BOOLEAN
  /\ restoring \in BOOLEAN
  /\ row \in {NoRow} \union Rows
  /\ drafts \in [Kinds -> Draft \union {NoFile}]
  /\ oldDraft \in [Kinds -> Docs \union {NoFile}]
  /\ pc \in Points
  /\ saving \in [kind : Kinds, changes : Edits, seen : Edits, draft : Draft \union {NoFile}]
  /\ writing \in [kind : Kinds, content : Docs \union {NoFile}, before : Values \union {NoValue}]
  /\ sessions \in SUBSET Values
  /\ login \in Values \union {NoValue}
  /\ accepted \in Edits
  /\ based \in Edits
  /\ raced \in BOOLEAN
  /\ foreign \in BOOLEAN
  /\ cut \in BOOLEAN
  /\ spent \in [saves : 0..MaxSaves, edits : 0..MaxEdits, crashes : 0..MaxCrashes,
                faults : 0..MaxFaults]

\* The row never names a file that is not there: whatever a crash leaves behind,
\* the draft on record can be read.
RowHasFile ==
  row # NoRow => IF row.old THEN oldDraft[row.kind] # NoFile ELSE drafts[row.kind] # NoFile

\* The draft on record holds exactly the edits that were saved since the last
\* one was applied: none is lost, and none of an older draft comes back.
DraftIsAccepted ==
  row # NoRow /\ ~row.old /\ drafts[row.kind] # NoFile
    => drafts[row.kind].updates = accepted

\* A write changes only fields of the draft, and only those that still have
\* the value the operator saw when saving them, unless somebody gets between
\* the reading of the file and its replacement.
OnlyOwnEdits ==
  [][pc = "replace" /\ pc' = "verify" /\ ~raced
       => \A f \in Fields :
            writing.content[f] # Document(writing.kind)[f]
              => accepted[f] = writing.content[f] /\ based[f] = Document(writing.kind)[f]]_vars

\* A file is replaced with no restore unfinished, in the world the draft was
\* saved for, and under a stopped server, unless it was started since the look.
ReplacedWhenSafe ==
  [][pc = "replace" /\ pc' = "verify"
       => ~restoring /\ drafts[writing.kind].world = world /\ (running => raced)]_vars

\* A draft leaves the record only when the live file has every edit of it,
\* unless somebody has changed the file meanwhile.
ClearedWhenApplied ==
  [][row # NoRow /\ row' = NoRow /\ ~raced
       => \A f \in Edited(accepted) : Document(row.kind)[f] = accepted[f]]_vars

\* No LAN session outlives the password it was opened with, when the console
\* has changed that password and has not been interrupted in doing so.
OldSessionsEnd == pc = "idle" /\ ~foreign /\ ~cut => sessions \subseteq {EffectivePassword}

\* A draft that can be applied does not wait for ever.
DraftIsApplied == []<>~(row # NoRow /\ Applicable)
=============================================================================
