-------------------------- MODULE ConfigDraftProof --------------------------
(***************************************************************************)
(* Proofs about ConfigDraft for any fields, values and worlds and for any  *)
(* number of saves, edits, crashes and errors.                             *)
(***************************************************************************)
EXTENDS ConfigDraft, TLAPS

(***************************************************************************)
(* Documents and edits                                                     *)
(***************************************************************************)

LEMMA NoEditsType == NoEdits \in Edits
BY DEF NoEdits, Edits

\* Edits on top of edits are edits, on top of a document a document.
LEMMA MergedType ==
  ASSUME NEW edits \in Edits
  PROVE  /\ \A base \in Edits : Merged(base, edits) \in Edits
         /\ \A base \in Docs : Merged(base, edits) \in Docs
BY DEF Merged, Edits, Docs

\* Adding edits a second time changes nothing.
LEMMA MergedTwice ==
  ASSUME NEW base \in Edits, NEW edits \in Edits
  PROVE  Merged(Merged(base, edits), edits) = Merged(base, edits)
BY DEF Merged, Edits

LEMMA MergedNone ==
  ASSUME NEW edits \in Edits
  PROVE  Merged(NoEdits, edits) = edits
BY DEF Merged, Edits, NoEdits

LEMMA DocumentType ==
  ASSUME TypeOK, NEW kind \in Kinds
  PROVE  Document(kind) \in Docs
BY DEF TypeOK, Document

LEMMA PasswordType == TypeOK => EffectivePassword \in Values
BY DocumentType, PasswordIsField DEF EffectivePassword, Kinds, Docs

\* The draft a save adds to.
LEMMA OnRecordType ==
  ASSUME TypeOK, RowHasFile, NEW kind \in Kinds
  PROVE  OnRecord(kind) \in Draft
<1>1. CASE row = [kind |-> kind, old |-> FALSE]
  <2>1. [kind |-> kind, old |-> FALSE] \in Rows
    BY DEF Rows
  <2>2. drafts[kind] # NoFile
    BY <1>1, <2>1, AbsentIsFresh DEF RowHasFile
  <2> QED
    BY <1>1, <2>2 DEF OnRecord, TypeOK
<1>2. CASE row # [kind |-> kind, old |-> FALSE]
  BY <1>2, NoEditsType DEF OnRecord, TypeOK, Draft
<1> QED
  BY <1>1, <1>2

(***************************************************************************)
(* The inductive invariant                                                 *)
(***************************************************************************)

\* Without a draft of this version nothing is waiting to be applied; with one,
\* the file holds what was saved, and what it was saved on top of.
OnRecordMatches ==
  IF row = NoRow \/ row.old
  THEN accepted = NoEdits /\ based = NoEdits
  ELSE /\ drafts[row.kind] # NoFile
       /\ drafts[row.kind].updates = accepted
       /\ drafts[row.kind].baseline = based

OldHasFile == row # NoRow /\ row.old => oldDraft[row.kind] # NoFile

\* A save under way adds to what is on record.  The history may count it
\* already, which makes no difference.
SaveAdds ==
  pc \in {"writeDraft", "recordDraft"} =>
    /\ row = NoRow \/ row.kind = saving.kind
    /\ saving.draft # NoFile
    /\ saving.draft.updates = Merged(accepted, saving.changes)
    /\ saving.draft.baseline = Merged(based, saving.seen)

SaveWritten == pc = "recordDraft" => drafts[saving.kind] = saving.draft

\* From the reading of the live file to the clearing of the row, the thread
\* works for the draft on record, and the lock keeps world and journal still.
ApplyOnRecord ==
  pc \in {"replace", "verify", "clear"} =>
    /\ row = [kind |-> writing.kind, old |-> FALSE]
    /\ drafts[writing.kind].world = world
    /\ ~restoring
    /\ writing.content # NoFile
    /\ \A f \in Edited(accepted) : writing.content[f] = accepted[f]

\* What has been read is still there, unless something interfered.
ReadStands ==
  pc = "replace" /\ ~raced =>
    /\ ~running
    /\ \A f \in Fields :
         writing.content[f] # Document(writing.kind)[f]
           => accepted[f] = writing.content[f] /\ based[f] = Document(writing.kind)[f]

\* So is what has been written.
WriteStands ==
  pc \in {"verify", "clear"} /\ ~raced => Document(writing.kind) = writing.content

OffRecord == pc \in {"unlink", "revoke"} => row = NoRow

DraftInv ==
  /\ TypeOK
  /\ OnRecordMatches
  /\ OldHasFile
  /\ SaveAdds
  /\ SaveWritten
  /\ ApplyOnRecord
  /\ ReadStands
  /\ WriteStands
  /\ OffRecord

\* The passwords somebody is, or is about to be, logged in with.
LoggedIn == sessions \union ({login} \ {NoValue})

\* An undisturbed apply knows the password it replaces.
KnowsPassword == pc = "replace" /\ ~foreign => writing.before = EffectivePassword

\* Sessions are of the current password, or, between the replacement of the
\* file and the revocation, of the one before.
SessionsCurrent ==
  ~foreign /\ ~cut =>
    LoggedIn \subseteq (IF pc \in Replaced
                        THEN {EffectivePassword, writing.before}
                        ELSE {EffectivePassword})

SessionInv ==
  /\ TypeOK
  /\ KnowsPassword
  /\ SessionsCurrent

(***************************************************************************)
(* Type correctness                                                        *)
(***************************************************************************)

LEMMA InitType == Init => TypeOK
<1> SUFFICES ASSUME Init PROVE TypeOK
  OBVIOUS
<1>1. NoEdits \in Edits
  BY NoEditsType
<1>2. NoSave \in [kind : Kinds, changes : Edits, seen : Edits, draft : Draft \union {NoFile}]
  BY <1>1 DEF NoSave, Kinds
<1>3. NoWrite \in [kind : Kinds, content : Docs \union {NoFile}, before : Values \union {NoValue}]
  BY DEF NoWrite, Kinds
<1>4. PICK draft \in LegacyDrafts, document \in Docs :
        /\ drafts = [k \in Kinds |-> IF row = [kind |-> k, old |-> FALSE] THEN draft ELSE NoFile]
        /\ oldDraft = [k \in Kinds |-> IF row = [kind |-> k, old |-> TRUE] THEN document ELSE NoFile]
  BY DEF Init
<1>5. draft \in Draft
  BY <1>1 DEF LegacyDrafts, Draft
<1>6. /\ drafts \in [Kinds -> Draft \union {NoFile}]
      /\ oldDraft \in [Kinds -> Docs \union {NoFile}]
  BY <1>4, <1>5
<1>7. accepted \in Edits
  <2>1. CASE row # NoRow /\ ~row.old
    <3>1. row \in Rows /\ row = [kind |-> row.kind, old |-> FALSE] /\ row.kind \in Kinds
      BY <2>1 DEF Init, Rows
    <3>2. drafts[row.kind] = draft
      BY <3>1, <1>4
    <3> QED
      BY <2>1, <3>2, <1>5 DEF Init, Draft
  <2>2. CASE ~(row # NoRow /\ ~row.old)
    BY <2>2, <1>1 DEF Init
  <2> QED
    BY <2>1, <2>2
<1>8. spent \in [saves : 0..MaxSaves, edits : 0..MaxEdits, crashes : 0..MaxCrashes,
                 faults : 0..MaxFaults]
  BY BoundsAreNat DEF Init
<1> QED
  BY <1>1, <1>2, <1>3, <1>6, <1>7, <1>8 DEF Init, TypeOK, Points

LEMMA SaveType ==
  ASSUME TypeOK, RowHasFile, NEW kind \in Kinds, NEW changes \in Edits, Save(kind, changes)
  PROVE  TypeOK'
<1> DEFINE seen == [f \in Fields |-> IF changes[f] # NoValue THEN Document(kind)[f] ELSE NoValue]
           draft == [updates |-> Merged(OnRecord(kind).updates, changes),
                     baseline |-> Baseline(kind, changes),
                     world |-> world, complete |-> TRUE]
<1>1. Document(kind) \in Docs /\ OnRecord(kind) \in Draft
  BY DocumentType, OnRecordType
<1>2. seen \in Edits
  BY <1>1 DEF Edits, Docs
<1>3. draft \in Draft
  <2>1. Merged(OnRecord(kind).updates, changes) \in Edits
    BY <1>1, MergedType DEF Draft
  <2>2. OnRecord(kind).baseline \in Edits
    BY <1>1 DEF Draft
  <2>3. Baseline(kind, changes) \in Edits
    BY <1>1, <2>2 DEF Baseline, Edits, Docs
  <2>4. world \in Worlds
    BY DEF TypeOK
  <2> QED
    BY <2>1, <2>3, <2>4 DEF Draft
<1>4. saving' = [kind |-> kind, changes |-> changes, seen |-> seen, draft |-> draft]
  BY DEF Save
<1>5. spent' \in [saves : 0..MaxSaves, edits : 0..MaxEdits, crashes : 0..MaxCrashes,
                  faults : 0..MaxFaults]
  BY BoundsAreNat DEF Save, TypeOK
<1> HIDE DEF seen, draft
<1>6. saving' \in [kind : Kinds, changes : Edits, seen : Edits, draft : Draft \union {NoFile}]
  BY <1>2, <1>3, <1>4
<1> QED
  BY <1>5, <1>6 DEF Save, TypeOK, Points, files, store, outside, auth, history

LEMMA IdleType == NoSave \in [kind : Kinds, changes : Edits, seen : Edits, draft : Draft \union {NoFile}]
                  /\ NoWrite \in [kind : Kinds, content : Docs \union {NoFile}, before : Values \union {NoValue}]
BY NoEditsType DEF NoSave, NoWrite, Kinds

LEMMA RecordedType == TypeOK /\ Recorded => accepted' \in Edits /\ based' \in Edits
BY MergedType DEF TypeOK, Recorded

LEMMA StepType == TypeOK /\ RowHasFile /\ ApplyOnRecord /\ Step => TypeOK'
<1> SUFFICES ASSUME TypeOK, RowHasFile, ApplyOnRecord, Step PROVE TypeOK'
  OBVIOUS
<1> USE DEF files, store, outside, thread, auth, history
<1>1. CASE WriteDraft
  <2>1. accepted' \in Edits /\ based' \in Edits
    BY <1>1, RecordedType DEF WriteDraft, TypeOK
  <2>2. drafts' \in [Kinds -> Draft \union {NoFile}]
    BY <1>1 DEF WriteDraft, TypeOK
  <2> QED
    BY <1>1, <2>1, <2>2 DEF WriteDraft, TypeOK, Points
<1>2. CASE RecordDraft
  <2>1. accepted' \in Edits /\ based' \in Edits
    BY <1>2, RecordedType DEF RecordDraft
  <2>2. row' \in Rows
    BY <1>2 DEF RecordDraft, TypeOK, Rows
  <2>3. oldDraft' \in [Kinds -> Docs \union {NoFile}]
    BY <1>2 DEF RecordDraft, TypeOK
  <2> QED
    BY <1>2, <2>1, <2>2, <2>3, IdleType DEF RecordDraft, TypeOK, Points
<1>3. CASE RefuseApply
  BY <1>3, IdleType DEF RefuseApply, Done, TypeOK, Points
<1>4. CASE ReadForApply
  <2>1. row \in Rows /\ row.kind \in Kinds /\ ~row.old
    BY <1>4 DEF ReadForApply, Applicable, Rows
  <2>2. drafts[row.kind].updates \in Edits
    <3>1. drafts[row.kind] # NoFile
      BY <2>1, AbsentIsFresh DEF RowHasFile
    <3> QED
      BY <2>1, <3>1 DEF TypeOK, Draft
  <2>3. Merged(Document(row.kind), drafts[row.kind].updates) \in Docs
    BY <2>1, <2>2, MergedType, DocumentType
  <2>4. writing' \in [kind : Kinds, content : Docs \union {NoFile}, before : Values \union {NoValue}]
    BY <1>4, <2>1, <2>3, PasswordType DEF ReadForApply
  <2> QED
    BY <1>4, <2>4 DEF ReadForApply, TypeOK, Points
<1>5. CASE Replace
  BY <1>5 DEF Replace, Install, ApplyOnRecord, TypeOK, Points
<1>6. CASE Verify
  BY <1>6, IdleType DEF Verify, Done, TypeOK, Points
<1>7. CASE Clear
  BY <1>7, NoEditsType DEF Clear, TypeOK, Points
<1>8. CASE Unlink
  BY <1>8 DEF Unlink, TypeOK, Points
<1>9. CASE Revoke
  BY <1>9, IdleType DEF Revoke, RevokeSessions, Done, TypeOK, Points
<1> QED
  BY <1>1, <1>2, <1>3, <1>4, <1>5, <1>6, <1>7, <1>8, <1>9 DEF Step

LEMMA EnvironmentType == TypeOK /\ Environment => TypeOK'
<1> SUFFICES ASSUME TypeOK, Environment PROVE TypeOK'
  OBVIOUS
<1> USE BoundsAreNat DEF files, store, outside, thread, auth, history, TypeOK, Points
<1>1. CASE Crash
  BY <1>1, IdleType DEF Crash, Done
<1>2. CASE Fault
  BY <1>2, IdleType DEF Fault, Done
<1>3. ASSUME NEW f \in Fields, NEW v \in Values, EditIni(f, v) PROVE TypeOK'
  BY <1>3 DEF EditIni, Elsewhere, Docs
<1>4. ASSUME NEW w \in Worlds, NEW f \in Fields, NEW v \in Values, EditOption(w, f, v) PROVE TypeOK'
  BY <1>4 DEF EditOption, Elsewhere, Docs
<1>5. CASE ServerStarts \/ ServerExits \/ RestoreBegins \/ RestoreEnds
  BY <1>5 DEF ServerStarts, ServerExits, RestoreBegins, RestoreEnds
<1>6. ASSUME NEW w \in Worlds, SelectWorld(w) PROVE TypeOK'
  BY <1>6 DEF SelectWorld, Elsewhere
<1>7. CASE LoginBegins
  BY <1>7, PasswordType DEF LoginBegins
<1>8. CASE LoginEnds
  BY <1>8 DEF LoginEnds
<1> QED
  BY <1>1, <1>2, <1>3, <1>4, <1>5, <1>6, <1>7, <1>8 DEF Environment

LEMMA NextType == TypeOK /\ RowHasFile /\ ApplyOnRecord /\ [Next]_vars => TypeOK'
<1> SUFFICES ASSUME TypeOK, RowHasFile, ApplyOnRecord, [Next]_vars PROVE TypeOK'
  OBVIOUS
<1>1. CASE StartApply
  BY <1>1 DEF StartApply, TypeOK, Points, files, store, outside, auth, history
<1>2. CASE UNCHANGED vars
  BY <1>2 DEF vars, TypeOK
<1> QED
  BY <1>1, <1>2, SaveType, StepType, EnvironmentType DEF Next

(***************************************************************************)
(* The draft invariant                                                     *)
(***************************************************************************)

LEMMA DraftInvHasFile == DraftInv => RowHasFile
BY DEF DraftInv, OnRecordMatches, OldHasFile, RowHasFile

LEMMA InitDraft == Init => DraftInv
<1> SUFFICES ASSUME Init PROVE DraftInv
  OBVIOUS
<1>1. PICK draft \in LegacyDrafts, document \in Docs :
        /\ drafts = [k \in Kinds |-> IF row = [kind |-> k, old |-> FALSE] THEN draft ELSE NoFile]
        /\ oldDraft = [k \in Kinds |-> IF row = [kind |-> k, old |-> TRUE] THEN document ELSE NoFile]
  BY DEF Init
<1>2. draft # NoFile /\ draft.baseline = NoEdits /\ document # NoFile
  <2>1. draft \in Draft
    BY NoEditsType DEF LegacyDrafts, Draft
  <2> QED
    BY <2>1, AbsentIsFresh DEF LegacyDrafts
<1>3. CASE row = NoRow
  BY <1>3, InitType DEF Init, DraftInv, OnRecordMatches, OldHasFile, SaveAdds, SaveWritten,
     ApplyOnRecord, ReadStands, WriteStands, OffRecord
<1>4. CASE row # NoRow
  <2>1. PICK kind \in Kinds, old \in BOOLEAN : row = [kind |-> kind, old |-> old]
    BY <1>4 DEF Init, Rows
  <2>2. OldHasFile /\ OnRecordMatches
    BY <1>1, <1>2, <1>4, <2>1 DEF Init, OnRecordMatches, OldHasFile
  <2> QED
    BY <2>2, InitType DEF Init, DraftInv, SaveAdds, SaveWritten,
       ApplyOnRecord, ReadStands, WriteStands, OffRecord
<1> QED
  BY <1>3, <1>4

\* A save records the union of what was on record and what is new.
LEMMA SaveDraftInv ==
  ASSUME DraftInv, NEW kind \in Kinds, NEW changes \in Edits, Save(kind, changes)
  PROVE  DraftInv'
<1> USE DEF DraftInv
<1>1. TypeOK /\ RowHasFile /\ TypeOK'
  BY DraftInvHasFile, SaveType
<1>2. row = NoRow \/ row.kind = kind
  BY DEF Save, MayAdd
<1>3. OnRecord(kind).updates = accepted /\ OnRecord(kind).baseline = based
  <2>1. CASE row = [kind |-> kind, old |-> FALSE]
    <3>1. row \in Rows /\ row.kind = kind /\ ~row.old
      BY <2>1 DEF Rows
    <3> QED
      BY <2>1, <3>1, AbsentIsFresh DEF OnRecord, OnRecordMatches
  <2>2. CASE row # [kind |-> kind, old |-> FALSE]
    <3>1. row = NoRow \/ row.old
      BY <1>1, <1>2, <2>2 DEF TypeOK, Rows
    <3> QED
      BY <2>2, <3>1 DEF OnRecord, OnRecordMatches
  <2> QED
    BY <2>1, <2>2
<1>4. \A f \in Fields : Document(kind)[f] # NoValue
  BY <1>1, DocumentType, AbsentIsFresh DEF Docs
<1>5. Baseline(kind, changes) = Merged(based, saving'.seen)
  BY <1>3, <1>4 DEF Save, Baseline, Merged
<1>6. saving'.draft # NoFile
  <2>1. saving'.draft \in Draft
    <3>1. Merged(OnRecord(kind).updates, changes) \in Edits
      BY <1>1, <1>3, MergedType DEF TypeOK
    <3>2. Baseline(kind, changes) \in Edits
      BY <1>1, <1>5, MergedType DEF Save, TypeOK
    <3> QED
      BY <1>1, <3>1, <3>2 DEF Save, TypeOK, Draft
  <2> QED
    BY <2>1, AbsentIsFresh
<1>7. SaveAdds'
  BY <1>2, <1>3, <1>5, <1>6 DEF Save, SaveAdds, store, history, Merged
<1> QED
  BY <1>1, <1>7 DEF Save, OnRecordMatches, OldHasFile, SaveWritten, ApplyOnRecord,
     ReadStands, WriteStands, OffRecord, store, history
LEMMA WriteDraftInv == DraftInv /\ WriteDraft => DraftInv'
<1> SUFFICES ASSUME DraftInv, WriteDraft PROVE DraftInv'
  OBVIOUS
<1> USE DEF DraftInv
<1>1. TypeOK'
  BY DraftInvHasFile, StepType DEF Step
<1>2. saving.kind \in Kinds /\ drafts'[saving.kind] = saving.draft
  BY DEF WriteDraft, TypeOK
<1>3. /\ saving.changes \in Edits /\ saving.seen \in Edits
      /\ accepted \in Edits /\ based \in Edits
  BY DEF TypeOK
<1>4. /\ saving.draft # NoFile
      /\ saving.draft.updates = Merged(accepted, saving.changes)
      /\ saving.draft.baseline = Merged(based, saving.seen)
      /\ row = NoRow \/ row.kind = saving.kind
  BY DEF WriteDraft, SaveAdds
<1>5. CASE row = [kind |-> saving.kind, old |-> FALSE]
  <2>1. row \in Rows /\ row.kind = saving.kind /\ ~row.old
    BY <1>2, <1>5 DEF Rows
  <2>2. accepted' = Merged(accepted, saving.changes) /\ based' = Merged(based, saving.seen)
    BY <1>5 DEF WriteDraft, Recorded
  <2>3. SaveAdds'
    BY <1>3, <1>4, <2>2, MergedTwice DEF WriteDraft, SaveAdds
  <2>4. OnRecordMatches' /\ OldHasFile'
    BY <1>2, <1>4, <2>1, <2>2, AbsentIsFresh DEF WriteDraft, OnRecordMatches, OldHasFile
  <2> QED
    BY <1>1, <1>2, <2>3, <2>4 DEF WriteDraft, SaveWritten, ApplyOnRecord, ReadStands,
       WriteStands, OffRecord
<1>6. CASE row # [kind |-> saving.kind, old |-> FALSE]
  <2>1. row = NoRow \/ row.old
    BY <1>4, <1>6 DEF TypeOK, Rows
  <2> QED
    BY <1>1, <1>2, <1>6, <2>1 DEF WriteDraft, OnRecordMatches, OldHasFile, SaveAdds, SaveWritten,
       ApplyOnRecord, ReadStands, WriteStands, OffRecord
<1> QED
  BY <1>5, <1>6

LEMMA RecordDraftInv == DraftInv /\ RecordDraft => DraftInv'
<1> SUFFICES ASSUME DraftInv, RecordDraft PROVE DraftInv'
  OBVIOUS
<1> USE DEF DraftInv
<1>1. TypeOK'
  BY DraftInvHasFile, StepType DEF Step
<1>2. /\ drafts[saving.kind] = saving.draft
      /\ saving.draft # NoFile
      /\ saving.draft.updates = accepted'
      /\ saving.draft.baseline = based'
  BY DEF RecordDraft, Recorded, SaveAdds, SaveWritten
<1>3. row' = [kind |-> saving.kind, old |-> FALSE] /\ row' # NoRow
  <2>1. [kind |-> saving.kind, old |-> FALSE] \in Rows
    BY DEF TypeOK, Rows
  <2> QED
    BY <2>1, AbsentIsFresh DEF RecordDraft
<1>4. OnRecordMatches' /\ OldHasFile'
  BY <1>2, <1>3 DEF RecordDraft, OnRecordMatches, OldHasFile
<1> QED
  BY <1>1, <1>4 DEF RecordDraft, SaveAdds, SaveWritten, ApplyOnRecord, ReadStands,
     WriteStands, OffRecord

\* Giving the lock back leaves what is on record, whatever the point.
LEMMA DoneDraftInv ==
  ASSUME DraftInv, TypeOK', Done,
         UNCHANGED <<row, drafts, oldDraft, accepted, based>>
  PROVE  DraftInv'
BY DEF DraftInv, Done, OnRecordMatches, OldHasFile, SaveAdds, SaveWritten, ApplyOnRecord,
   ReadStands, WriteStands, OffRecord

\* The check of the draft against the live file is what ReadStands says.
LEMMA ReadForApplyInv == DraftInv /\ ReadForApply => DraftInv'
<1> SUFFICES ASSUME DraftInv, ReadForApply PROVE DraftInv'
  OBVIOUS
<1> USE DEF DraftInv
<1>1. TypeOK /\ TypeOK' /\ RowHasFile
  BY DraftInvHasFile, StepType DEF Step
<1>2. PICK kind \in Kinds : row = [kind |-> kind, old |-> FALSE]
  BY DEF ReadForApply, Applicable
<1>3. row # NoRow /\ row.kind = kind /\ ~row.old
  <2>1. [kind |-> kind, old |-> FALSE] \in Rows
    BY DEF Rows
  <2> QED
    BY <1>2, <2>1, AbsentIsFresh
<1>4. /\ drafts[kind].updates = accepted /\ drafts[kind].baseline = based
      /\ drafts[kind].world = world
      /\ ~running /\ ~restoring
      /\ \A f \in Edited(accepted) : Document(kind)[f] \in {based[f], accepted[f]}
  BY <1>3 DEF ReadForApply, Applicable, NoConflict, OnRecordMatches
<1>5. /\ writing'.kind = kind
      /\ writing'.content = Merged(Document(kind), accepted)
  BY <1>3, <1>4 DEF ReadForApply
<1>6. writing'.content \in Docs /\ writing'.content # NoFile
  BY <1>1, <1>5, DocumentType, MergedType, AbsentIsFresh DEF TypeOK
<1>7. \A f \in Fields :
        /\ f \in Edited(accepted) => writing'.content[f] = accepted[f]
        /\ writing'.content[f] # Document(kind)[f] => f \in Edited(accepted)
  BY <1>5 DEF Merged, Edited
<1>8. /\ row' = row /\ drafts' = drafts /\ accepted' = accepted /\ based' = based
      /\ world' = world /\ restoring' = restoring /\ running' = running
      /\ oldDraft' = oldDraft /\ pc' = "replace"
      /\ Document(kind)' = Document(kind)
  BY DEF ReadForApply, Document, files, store, outside
<1>9. ApplyOnRecord'
  BY <1>2, <1>4, <1>5, <1>6, <1>7, <1>8 DEF ApplyOnRecord, Edited
<1>10. ReadStands'
  BY <1>4, <1>5, <1>7, <1>8 DEF ReadStands
<1> QED
  BY <1>1, <1>8, <1>9, <1>10 DEF OnRecordMatches, OldHasFile, SaveAdds, SaveWritten,
     WriteStands, OffRecord
\* After os.replace the live file is what was to be written.
LEMMA InstallDocument ==
  ASSUME TypeOK, Install, UNCHANGED <<world, writing>>, writing.content # NoFile
  PROVE  Document(writing.kind)' = writing.content
<1>1. writing.kind \in {"ini", "world-option"}
  BY DEF TypeOK, Kinds
<1>2. CASE writing.kind = "ini"
  BY <1>2 DEF Install, Document
<1>3. CASE writing.kind = "world-option"
  BY <1>3 DEF Install, Document, TypeOK
<1> QED
  BY <1>1, <1>2, <1>3

LEMMA ReplaceInv == DraftInv /\ Replace => DraftInv'
<1> SUFFICES ASSUME DraftInv, Replace PROVE DraftInv'
  OBVIOUS
<1> USE DEF DraftInv
<1>1. TypeOK'
  BY DraftInvHasFile, StepType DEF Step
<1>2. Document(writing.kind)' = writing.content
  BY InstallDocument DEF Replace, ApplyOnRecord, outside
<1>3. WriteStands'
  BY <1>2 DEF Replace, WriteStands, Document
<1> QED
  BY <1>1, <1>3 DEF Replace, OnRecordMatches, OldHasFile, SaveAdds, SaveWritten,
     ApplyOnRecord, ReadStands, OffRecord, store, outside, history

LEMMA VerifyInv == DraftInv /\ Verify => DraftInv'
<1> SUFFICES ASSUME DraftInv, Verify PROVE DraftInv'
  OBVIOUS
<1>1. TypeOK'
  BY DraftInvHasFile, StepType DEF Step, DraftInv
<1>2. CASE Document(writing.kind) = writing.content
  BY <1>1, <1>2 DEF DraftInv, Verify, OnRecordMatches, OldHasFile, SaveAdds, SaveWritten,
     ApplyOnRecord, ReadStands, WriteStands, OffRecord, Document, files, store, outside
<1>3. CASE Document(writing.kind) # writing.content
  BY <1>1, <1>3, DoneDraftInv DEF Verify, store
<1> QED
  BY <1>2, <1>3

LEMMA ClearInv == DraftInv /\ Clear => DraftInv'
<1> SUFFICES ASSUME DraftInv, Clear PROVE DraftInv'
  OBVIOUS
<1>1. TypeOK'
  BY DraftInvHasFile, StepType DEF Step, DraftInv
<1> QED
  BY <1>1 DEF DraftInv, Clear, OnRecordMatches, OldHasFile, SaveAdds, SaveWritten,
     ApplyOnRecord, ReadStands, WriteStands, OffRecord

\* The pending file goes only once no row names it.
LEMMA UnlinkInv == DraftInv /\ Unlink => DraftInv'
<1> SUFFICES ASSUME DraftInv, Unlink PROVE DraftInv'
  OBVIOUS
<1>1. TypeOK'
  BY DraftInvHasFile, StepType DEF Step, DraftInv
<1> QED
  BY <1>1 DEF DraftInv, Unlink, OnRecordMatches, OldHasFile, SaveAdds, SaveWritten,
     ApplyOnRecord, ReadStands, WriteStands, OffRecord, history

LEMMA ThreadDraftInv == DraftInv /\ (StartApply \/ Step) => DraftInv'
<1> SUFFICES ASSUME DraftInv, StartApply \/ Step PROVE DraftInv'
  OBVIOUS
<1>1. TypeOK'
  BY DraftInvHasFile, NextType DEF DraftInv, Next
<1>2. CASE StartApply
  BY <1>1, <1>2 DEF DraftInv, StartApply, OnRecordMatches, OldHasFile, SaveAdds, SaveWritten,
     ApplyOnRecord, ReadStands, WriteStands, OffRecord, store, history
<1>3. CASE RefuseApply
  BY <1>1, <1>3, DoneDraftInv DEF RefuseApply, store, history
<1>4. CASE Revoke
  BY <1>1, <1>4, DoneDraftInv DEF Revoke, store
<1> QED
  BY <1>2, <1>3, <1>4, WriteDraftInv, RecordDraftInv, ReadForApplyInv, ReplaceInv,
     VerifyInv, ClearInv, UnlinkInv DEF Step

\* What happens outside touches neither the record nor the thread, and what
\* disturbs an apply is remembered in raced.
LEMMA EnvironmentDraftInv == DraftInv /\ Environment => DraftInv'
<1> SUFFICES ASSUME DraftInv, Environment PROVE DraftInv'
  OBVIOUS
<1>1. TypeOK'
  BY EnvironmentType DEF DraftInv
<1>2. CASE Crash \/ Fault
  BY <1>1, <1>2, DoneDraftInv DEF Crash, Fault, store
<1> USE DEF DraftInv, OnRecordMatches, OldHasFile, SaveAdds, SaveWritten, ApplyOnRecord,
        ReadStands, WriteStands, OffRecord, files, store, outside, thread, history
<1>3. ASSUME NEW f \in Fields, NEW v \in Values, EditIni(f, v) PROVE DraftInv'
  BY <1>1, <1>3 DEF EditIni
<1>4. ASSUME NEW w \in Worlds, NEW f \in Fields, NEW v \in Values, EditOption(w, f, v)
      PROVE  DraftInv'
  BY <1>1, <1>4 DEF EditOption
<1>5. CASE ServerStarts
  BY <1>1, <1>5 DEF ServerStarts
<1>6. CASE ServerExits
  BY <1>1, <1>6 DEF ServerExits, Document
<1>7. CASE RestoreBegins \/ RestoreEnds
  BY <1>1, <1>7 DEF RestoreBegins, RestoreEnds
<1>8. ASSUME NEW w \in Worlds, SelectWorld(w) PROVE DraftInv'
  BY <1>1, <1>8 DEF SelectWorld
<1>9. CASE LoginBegins \/ LoginEnds
  BY <1>1, <1>9 DEF LoginBegins, LoginEnds, Document
<1> QED
  BY <1>2, <1>3, <1>4, <1>5, <1>6, <1>7, <1>8, <1>9 DEF Environment

LEMMA DraftInvStep == DraftInv /\ [Next]_vars => DraftInv'
<1> SUFFICES ASSUME DraftInv, [Next]_vars PROVE DraftInv'
  OBVIOUS
<1>1. CASE UNCHANGED vars
  <2>1. TypeOK'
    BY <1>1, DraftInvHasFile, NextType DEF DraftInv
  <2> QED
    BY <1>1, <2>1 DEF vars, DraftInv, OnRecordMatches, OldHasFile, SaveAdds, SaveWritten,
       ApplyOnRecord, ReadStands, WriteStands, OffRecord, Document
<1> QED
  BY <1>1, SaveDraftInv, ThreadDraftInv, EnvironmentDraftInv DEF Next

THEOREM DraftInvAlways == Spec => []DraftInv
<1>1. Init => DraftInv
  BY InitDraft
<1>2. DraftInv /\ [Next]_vars => DraftInv'
  BY DraftInvStep
<1> QED
  BY <1>1, <1>2, PTL DEF Spec
(***************************************************************************)
(* The session invariant                                                   *)
(***************************************************************************)

LEMMA InitSessions == Init => SessionInv
BY InitType DEF Init, SessionInv, KnowsPassword, SessionsCurrent, LoggedIn, Replaced

\* An edit outside or another world changes the password only with foreign.
LEMMA ElsewhereSessions ==
  ASSUME SessionInv, TypeOK', Elsewhere,
         UNCHANGED <<pc, writing, sessions, login, cut>>
  PROVE  SessionInv'
<1>1. foreign' \/ (foreign' = foreign /\ EffectivePassword' = EffectivePassword)
  BY DEF Elsewhere, SessionInv, TypeOK
<1> QED
  BY <1>1 DEF SessionInv, KnowsPassword, SessionsCurrent, LoggedIn, Replaced

\* The rest of the environment, and the saving thread, leave all files alone.
LEMMA FilesAloneSessions ==
  ASSUME SessionInv, TypeOK', UNCHANGED <<ini, option, world>>
  PROVE  EffectivePassword' = EffectivePassword
BY DEF EffectivePassword, Document

LEMMA QuietSessions ==
  ASSUME SessionInv, TypeOK',
         UNCHANGED <<ini, option, world, writing, sessions, login, foreign, cut>>,
         pc' \notin Replaced \union {"replace"}, pc \notin Replaced
  PROVE  SessionInv'
<1>1. EffectivePassword' = EffectivePassword
  BY FilesAloneSessions
<1> QED
  BY <1>1 DEF SessionInv, KnowsPassword, SessionsCurrent, LoggedIn

\* Giving the lock back: an apply that was under way is on record as cut short.
LEMMA DoneSessions ==
  ASSUME SessionInv, TypeOK', Done,
         UNCHANGED <<ini, option, world, sessions, foreign>>,
         login' = login \/ login' = NoValue,
         cut => cut',
         pc \in Replaced => cut'
  PROVE  SessionInv'
<1>1. EffectivePassword' = EffectivePassword
  BY FilesAloneSessions
<1> QED
  BY <1>1 DEF SessionInv, KnowsPassword, SessionsCurrent, LoggedIn, Done, Replaced

LEMMA ThreadSessions == SessionInv /\ ApplyOnRecord /\ TypeOK' /\ (StartApply \/ Step) => SessionInv'
<1> SUFFICES ASSUME SessionInv, ApplyOnRecord, TypeOK', StartApply \/ Step PROVE SessionInv'
  OBVIOUS
<1> USE DEF files, store, outside, auth, history
<1>1. CASE StartApply
  BY <1>1, QuietSessions DEF StartApply, Replaced
<1>2. CASE WriteDraft
  BY <1>2, QuietSessions DEF WriteDraft, Replaced
<1>3. CASE RecordDraft
  BY <1>3, QuietSessions DEF RecordDraft, Replaced
<1>4. CASE RefuseApply
  BY <1>4, DoneSessions DEF RefuseApply, Replaced
<1>5. CASE ReadForApply
  <2>1. EffectivePassword' = EffectivePassword /\ writing'.before = EffectivePassword
    BY <1>5, FilesAloneSessions DEF ReadForApply
  <2> QED
    BY <1>5, <2>1 DEF ReadForApply, SessionInv, KnowsPassword, SessionsCurrent, LoggedIn, Replaced
<1>6. CASE Replace
  BY <1>6 DEF Replace, SessionInv, KnowsPassword, SessionsCurrent, LoggedIn, Replaced
<1>7. CASE Verify
  <2>1. EffectivePassword' = EffectivePassword
    BY <1>7, FilesAloneSessions DEF Verify
  <2>2. CASE Document(writing.kind) = writing.content
    BY <1>7, <2>1, <2>2 DEF Verify, SessionInv, KnowsPassword, SessionsCurrent, LoggedIn, Replaced
  <2>3. CASE Document(writing.kind) # writing.content
    BY <1>7, <2>3, DoneSessions DEF Verify
  <2> QED
    BY <2>2, <2>3
<1>8. CASE Clear \/ Unlink
  <2>1. EffectivePassword' = EffectivePassword
    BY <1>8, FilesAloneSessions DEF Clear, Unlink
  <2> QED
    BY <1>8, <2>1 DEF Clear, Unlink, SessionInv, KnowsPassword, SessionsCurrent, LoggedIn, Replaced
<1>9. CASE Revoke
  <2>1. EffectivePassword' = EffectivePassword
    BY <1>9, FilesAloneSessions DEF Revoke
  <2>2. CASE EffectivePassword # writing.before
    BY <1>9, <2>1, <2>2 DEF Revoke, RevokeSessions, Done, SessionInv, KnowsPassword,
       SessionsCurrent, LoggedIn
  <2>3. CASE EffectivePassword = writing.before
    BY <1>9, <2>1, <2>3 DEF Revoke, Done, SessionInv, KnowsPassword, SessionsCurrent,
       LoggedIn, Replaced
  <2> QED
    BY <2>2, <2>3
<1> QED
  BY <1>1, <1>2, <1>3, <1>4, <1>5, <1>6, <1>7, <1>8, <1>9 DEF Step

LEMMA EnvironmentSessions == SessionInv /\ Environment => SessionInv'
<1> SUFFICES ASSUME SessionInv, Environment PROVE SessionInv'
  OBVIOUS
<1>1. TypeOK'
  BY EnvironmentType DEF SessionInv
<1> USE DEF files, store, outside, thread, auth, history
<1>2. CASE Crash
  <2>1. (cut => cut') /\ (pc \in Replaced => cut')
    BY <1>2 DEF Crash
  <2> QED
    BY <1>1, <1>2, <2>1, DoneSessions DEF Crash
<1>3. CASE Fault
  <2>1. (cut => cut') /\ (pc \in Replaced => cut')
    BY <1>3 DEF Fault
  <2> QED
    BY <1>1, <1>3, <2>1, DoneSessions DEF Fault
<1>4. ASSUME NEW f \in Fields, NEW v \in Values, EditIni(f, v) PROVE SessionInv'
  BY <1>1, <1>4, ElsewhereSessions DEF EditIni
<1>5. ASSUME NEW w \in Worlds, NEW f \in Fields, NEW v \in Values, EditOption(w, f, v)
      PROVE  SessionInv'
  BY <1>1, <1>5, ElsewhereSessions DEF EditOption
<1>6. ASSUME NEW w \in Worlds, SelectWorld(w) PROVE SessionInv'
  BY <1>1, <1>6, ElsewhereSessions DEF SelectWorld
<1>7. CASE ServerStarts \/ ServerExits \/ RestoreBegins \/ RestoreEnds
  <2>1. EffectivePassword' = EffectivePassword
    BY <1>1, <1>7, FilesAloneSessions DEF ServerStarts, ServerExits, RestoreBegins, RestoreEnds
  <2>2. UNCHANGED <<pc, writing, sessions, login, foreign, cut>>
    BY <1>7 DEF ServerStarts, ServerExits, RestoreBegins, RestoreEnds
  <2> QED
    BY <1>1, <2>1, <2>2 DEF SessionInv, KnowsPassword, SessionsCurrent, LoggedIn, Replaced
<1>8. CASE LoginBegins
  <2>1. EffectivePassword' = EffectivePassword
    BY <1>1, <1>8, FilesAloneSessions DEF LoginBegins
  <2> QED
    BY <1>1, <1>8, <2>1 DEF LoginBegins, SessionInv, KnowsPassword, SessionsCurrent, LoggedIn, Replaced
<1>9. CASE LoginEnds
  <2>1. EffectivePassword' = EffectivePassword
    BY <1>1, <1>9, FilesAloneSessions DEF LoginEnds
  <2> QED
    BY <1>1, <1>9, <2>1 DEF LoginEnds, SessionInv, KnowsPassword, SessionsCurrent, LoggedIn, Replaced
<1> QED
  BY <1>2, <1>3, <1>4, <1>5, <1>6, <1>7, <1>8, <1>9 DEF Environment

LEMMA SessionInvStep == SessionInv /\ DraftInv /\ DraftInv' /\ [Next]_vars => SessionInv'
<1> SUFFICES ASSUME SessionInv, DraftInv, DraftInv', [Next]_vars PROVE SessionInv'
  OBVIOUS
<1>1. TypeOK' /\ ApplyOnRecord
  BY DEF DraftInv
<1>2. ASSUME NEW kind \in Kinds, NEW changes \in Edits, Save(kind, changes) PROVE SessionInv'
  BY <1>1, <1>2, QuietSessions DEF Save, Replaced, files, store, outside, auth, history
<1>3. CASE UNCHANGED vars
  BY <1>1, <1>3 DEF vars, SessionInv, KnowsPassword, SessionsCurrent, LoggedIn, Replaced,
     EffectivePassword, Document
<1> QED
  BY <1>1, <1>2, <1>3, ThreadSessions, EnvironmentSessions DEF Next

(***************************************************************************)
(* The properties                                                          *)
(***************************************************************************)

\* Every variable keeps its type, whatever is saved, edited or interrupted.
THEOREM TypeCorrect == Spec => []TypeOK
<1>1. DraftInv => TypeOK
  BY DEF DraftInv
<1> QED
  BY <1>1, DraftInvAlways, PTL

\* No crash between the pending file and its row leaves a row without a file.
THEOREM RowHasFileAlways == Spec => []RowHasFile
BY DraftInvHasFile, DraftInvAlways, PTL

\* Saves, crashes and old drafts in any order lose no edit of the draft on
\* record and bring none back.
THEOREM DraftIsAcceptedAlways == Spec => []DraftIsAccepted
<1>1. DraftInv => DraftIsAccepted
  BY DEF DraftInv, OnRecordMatches, DraftIsAccepted
<1> QED
  BY <1>1, DraftInvAlways, PTL

\* A write of a live file changes what the operator has seen, and nothing else.
THEOREM OnlyOwnEditsAlways == Spec => OnlyOwnEdits
<1>1. DraftInv => (pc = "replace" /\ pc' = "verify" /\ ~raced
        => \A f \in Fields :
             writing.content[f] # Document(writing.kind)[f]
               => accepted[f] = writing.content[f] /\ based[f] = Document(writing.kind)[f])
  BY DEF DraftInv, ReadStands
<1> QED
  BY <1>1, DraftInvAlways, PTL DEF OnlyOwnEdits

\* A live file is written in the right world, with no restore unfinished and
\* no server that was there when the thread looked.
THEOREM ReplacedWhenSafeAlways == Spec => ReplacedWhenSafe
<1>1. DraftInv => (pc = "replace" /\ pc' = "verify"
        => ~restoring /\ drafts[writing.kind].world = world /\ (running => raced))
  BY DEF DraftInv, ApplyOnRecord, ReadStands
<1> QED
  BY <1>1, DraftInvAlways, PTL DEF ReplacedWhenSafe

\* A draft goes off the record only when the live file has it.
THEOREM ClearedWhenAppliedAlways == Spec => ClearedWhenApplied
<1>1. DraftInv /\ [Next]_vars
        => (row # NoRow /\ row' = NoRow /\ ~raced
              => \A f \in Edited(accepted) : Document(row.kind)[f] = accepted[f])
  <2> SUFFICES ASSUME DraftInv, [Next]_vars, row # NoRow, row' = NoRow, ~raced
               PROVE  \A f \in Edited(accepted) : Document(row.kind)[f] = accepted[f]
    OBVIOUS
  <2>1. Clear
    <3>1. CASE UNCHANGED vars
      BY <3>1 DEF vars
    <3>2. CASE RecordDraft
      <4>1. row' \in Rows
        BY <3>2 DEF RecordDraft, DraftInv, TypeOK, Rows
      <4> QED
        BY <4>1, AbsentIsFresh
    <3>3. CASE StartApply \/ Step
      BY <3>2, <3>3 DEF StartApply, Step, WriteDraft, RefuseApply, ReadForApply, Replace,
         Verify, Unlink, Revoke, store
    <3>4. CASE Environment
      BY <3>4 DEF Environment, Crash, Fault, EditIni, EditOption, ServerStarts, ServerExits,
         SelectWorld, RestoreBegins, RestoreEnds, LoginBegins, LoginEnds, store
    <3> QED
      BY <3>1, <3>3, <3>4 DEF Next, Save, store
  <2>2. row.kind = writing.kind /\ Document(writing.kind) = writing.content
    BY <2>1 DEF Clear, DraftInv, ApplyOnRecord, WriteStands
  <2> QED
    BY <2>1, <2>2 DEF Clear, DraftInv, ApplyOnRecord
<1> QED
  BY <1>1, DraftInvAlways, PTL DEF Spec, ClearedWhenApplied

\* An uninterrupted change of the password ends every session and every login
\* of the old one, also one that had compared it already.
THEOREM OldSessionsEndAlways == Spec => []OldSessionsEnd
<1>1. Init => SessionInv
  BY InitSessions
<1>2. SessionInv /\ DraftInv /\ DraftInv' /\ [Next]_vars => SessionInv'
  BY SessionInvStep
<1>3. SessionInv => OldSessionsEnd
  BY DEF SessionInv, SessionsCurrent, LoggedIn, Replaced, OldSessionsEnd
<1> QED
  BY <1>1, <1>2, <1>3, DraftInvAlways, PTL DEF Spec
=============================================================================
