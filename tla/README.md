# PalserverConsole in TLA+

PalserverConsole is a web console that runs beside one Palworld dedicated
server on Windows.  It starts, saves, stops and restarts the server, edits its
configuration, restores its backups, parses its save files into a cache the
map and the player pages read, and watches its health.  The back end is one
Python process (FastAPI) with a SQLite database, a handful of threads, and
files it shares with the game; the front end is a React application.  These
modules model the parts of the back end, and the one page,
where an order of steps nobody tried can lose a world, stop the wrong process,
show a page something that never was, or leave an installation broken.

All source paths below are under `src/backend/palserver_console/` unless they
begin with `src/`.

## 1. The system

### Components, their state and their operations

| Component | Source | State | Operations |
| --- | --- | --- | --- |
| Server operations | `lifecycle.py` | one thread and one cancellation event per operation | `begin` (start, save, stop, restart), `confirm_force_stop`, `cancel`, the operation thread `_run` |
| Operations table | `persistence.py` | SQLite rows: state, stage, error, parent, bound processes, confirmation deadline | `reserve_operation`, `transition_operation`, `recover_incomplete_operations` |
| Backup restore | `backups.py` | `restore_journal` row, live world, `backup/world/*`, staging directory | `restore`, `resume_restore`, `rollback_restore`, `delete`, `set_retention`, `list`, `health_summary` |
| Control lock | `control.py` | lock file, re-entrant count | enter, exit, non-blocking acquire |
| Pending configuration | `config_editor.py` | `config_drafts` row, pending file, live file, watcher thread | `save_ini`, `save_world_option`, `apply_pending`, watch |
| World snapshots | `world/service.py`, `world/worker.py`, `world/cache.py` | snapshot directories, caches, `snapshot_versions` rows, watch loop, parser process | watch, capture, parse, query, reparse, cleanup with a preview token |
| Monitoring | `monitoring.py`, `observability.py` | latest snapshot, sample history, event-stream sequences | sample, subscribe, read history |
| Application updates | `application_updates.py`, `src/scripts/*.ps1` | update lock file, progress file, helper process, installed files | prepare, hand over, apply, roll back, reclaim an abandoned lock |
| Instances | `instances.py` | registry of claimed executables, worlds and ports, shared by all consoles | claim, validate, release |
| Maintenance and notifications | `maintenance.py` | queue of notices, dispatcher thread | queue, dispatch; one attempt per notice |
| Authentication | `auth.py`, `api/security.py` | sessions, login attempts | initialise, log in, log out, expire |
| Audit log | `audit.py` | records, log-file cursors | ingest, page, retain |
| Start-up | `main.py`, `dependencies.py`, `__main__.py` | - | fail unfinished operations, start the threads |
| Profiles, configuration parsing, Steam discovery | `config.py`, `world_option.py`, `steam.py` | - | parse and validate files |
| Roster of pals | `src/frontend/src/features/world/PalRoster.tsx`, `world/cache.py` (`query_pal_roster`) | the pals on display, filter, snapshot, the request under way | choose a filter, load more, try again, merge an answer |
| HTTP API, other pages, metadata, build scripts | `api/`, `src/frontend/`, `metadata/`, `src/scripts/` | none of their own | - |

### How they interact

- **The control lock** is the centre.  An operation thread holds it from its
  first look at the server to its last write; a restore, a resume, a rollback,
  a deletion and a retention run hold it throughout; applying the pending
  configuration needs it.  It is an operating-system lock on a file, so it is
  free after a crash, and an exception releases it before the handler runs.
- **The database** carries what outlives a thread: operation rows, the restore
  journal and the configuration draft.  A reservation reads the journal, and
  beginning a restore reads the operations, each in the transaction that writes.
- **PalServer** is changed by the console, by the operator, and by itself: it
  may exit at any time, be started by hand, or survive a kill.
- **Start and restart** apply the pending configuration and look at the journal
  before they launch.  **The configuration watcher** applies the draft by itself
  when the server is stopped.
- **Recorded transitions** call the audit sink, which feeds the notification
  queue.  **Restores** change the files the snapshot watcher fingerprints.
- **Every use of the profile** - by an operation, a restore, the monitor, the snapshot service
  or a page - renews the console's claim in the registry all consoles of the machine share.
- **An update** ends every console of its installation: the shutdown stops the workers, and
  a console that is launched meanwhile meets the update lock.  The monitor's event streams have
  to end before the shutdown hook that ends them (finding 9).

### Hard behaviours and what makes each component correct

- *Server operations*: requests, confirmations, cancellations, expiry and
  restarts of the console in any order.  One operation is active at a time, except
  a stop that waits and its force stop; no row is closed under a working thread;
  nothing but the processes a confirmation named is killed; a launch meets no
  other server, no unfinished restore and no unapplied configuration; what has
  ended keeps its outcome; everything ends.
- *Restore*: crashes and I/O errors between and inside steps, then resume or
  rollback from whatever is on disk.  Nothing is touched before the safety copy
  is on record; the world is always recoverable; "completed" means the backup,
  "rolled back" means the world there was; every failure has a way out.
- *Pending configuration*: three places (row, pending file, live file) change one
  after the other; the game and the operator write the live file too.  An
  edit is applied once or reported as a conflict, never lost or half applied.
- *World snapshots*: a watcher, cleanup requests, queries and a parser process
  share directories.  The current cache is never removed, an answer comes from one
  snapshot, a change is eventually parsed, garbage is eventually removed.
- *Application updates*: two processes hand over one lock while one of them
  exits.  One updater at a time, an abandoned lock is reclaimed only when nobody
  works under it, and the installation is the old or the new one.
- *Instances*: several consoles share one registry; no target has two owners.
- *Notifications*: the dispatcher thread retires while a notice arrives; no
  notice stays behind, and a queue that is not empty has a dispatcher.
- *Monitoring*: cycles end by errors half way; open pages come to show the truth again.
- *Audit*: a poll is cut short between rows and cursor, the log is rotated under it; no line
  is recorded twice and none is skipped.
- *Roster*: a list is loaded piece by piece while snapshots are published, filters change and answers
  are late or superseded; what is on display is the beginning of one list of one snapshot.
- *Authentication*: a login races a password change; windows and expiry hold at
  their boundaries.

The complete list of hazards, with the line of each and the properties that
cover it, is in `PROJECT.json`.  Every hazard has a property; where the property excepts
something the code does get wrong, or an assumption closes a window, the hazard has a note.

## 2. Modules

| Module | Models | State | Role |
| --- | --- | --- | --- |
| `Lifecycle` | operations table, operation threads, their use of the lock, the server | `ops pc raised cancelled expiring lock handle pids spawned journal draft` | detailed specification |
| `LifecycleProof` | type correctness; inductive invariants and what follows from them | | theorems |
| `AtomicRestore` | what a restore promises | `visible busy goal` | abstract specification |
| `Restore` | journal, directories, the thread that restores | `world copies staging journal pc todo running origin spent` | detailed specification |
| `RestoreProof` | its inductive invariant; that `Restore` implements `AtomicRestore` | | theorems |
| `ConfigDraft` | saving and applying the configuration, LAN logins against a password change | `ini option world running restoring row drafts oldDraft pc saving writing sessions login` and history | detailed specification |
| `ConfigDraftProof` | its inductive invariants and what follows from them | | theorems |
| `WorldSnapshots` | the snapshot service: watch thread, worker process, cleanup, queries, stop | `world readable snaps caches current lastSeen pending backoff parsing requested generation lastError plan pc job worker active stop cleaner reader` and history | detailed specification |
| `WorldSnapshotsProof` | its inductive invariant and what follows from it | | theorems |
| `AppUpdate` | updates of an installation several consoles run from: lock, launch gate, preparation, helper, upgrade script, roll back, pruning | `lock console progress fresh loser upd installed backups` | detailed specification |
| `AppUpdateProof` | its inductive invariant, its action properties and what follows | | theorems |
| `Instances` | several consoles and the registry that keeps their servers apart | `claims inside seen row setting args work loose` | detailed specification |
| `InstancesProof` | its inductive invariant and what follows from it | | theorems |
| `AuditLog` | the worker that copies the server's log into the audit table | `file cursor rows poll todo` and history | detailed specification |
| `Notifications`, `NoticeBounds` | queue and dispatcher threads of maintenance notices | `enabled caller pending dispatching dispatcher notice` and history | detailed specification |
| `NotificationsProof` | its inductive invariant and what follows from it | | theorems |
| `Monitor` | the cycle of the monitor and the event streams of the pages | `online working step live shown behind` | detailed specification |
| `PalRoster` | the page that shows the pals of the current snapshot piece by piece, and the query that serves it | `published known filter items total asked loadingMore failed` and history | detailed specification |
| `Reporting` | audit log, notices, monitor and roster side by side, as `INSTANCE`s | `worker` and theirs | composition |
| `ReportingProof` | the inductive invariants of its parts and what follows from them | | theorems |
| `MCLifecycle`, `MCRestore`, `MCConfigDraft`, `MCWorldSnapshots`, `MCAppUpdate`, `MCInstances`, `MCReporting` | instances | | TLC |

Definitions whose comment begins with "Mutant" are deliberate distortions of the
definition that follows them.  They are not part of the specifications; each is
put in the place of the real definition to show that a property notices it.

### `Lifecycle` and the code

`ops` is the `operations` table.  The idempotency key is UNIQUE, so it is
the index and the operation id is left out.  A row keeps kind, state, stage,
error, parent, the bound processes (`target_pids`) and the confirmation, whose deadline is
abstracted to none, open or expired.  `Moved` is `transition_operation`
with its table of allowed transitions and its refusals.  `Active` is the condition
both `reserve_operation` and `begin_restore_journal` test.

`pc[k]` is the place of the thread of operation `k` inside `_run`, `_graceful_stop`,
`_start_server`, `_force_stop` and the closing of a parent.  There is one action for each stretch that
the lock, the database or the operating system makes observable.  An exception
(`Raise`) releases the lock first and reaches the handler (`RecordFailure`) as a
separate step, because that is where others get in.  `cancelled` are the set
events, `handle` the process a thread has launched, `spawned` the ids given out.

The transition of a parent whose confirmation came too late is two steps
(`ConfirmTooLate`, then `ExpireParent` or `ExpireRefused`): `transition_operation`
reads the row and updates it in two transactions, and the thread that closes the
same parent may run in between.  All other transitions are single steps:
nobody else writes the row at that time, which `WorkIsActive` confirms.

`ConsoleRestart` is a crash and the start-up hook: threads, events and the lock
are gone, unfinished rows are failed.  `BeginRestore`, `ResumeRestore`,
`JournalEnds` and `EndRestore` are the restore service as operations see it (a
lock holder and a journal that is terminal or not); `SaveDraft`, `WatchPending`
and `ExternalEdit` are the configuration draft as operations see it.

### `Restore` and the code

A directory is a function from the three components (`Level.sav`, `LevelMeta.sav`,
`Players`) to contents; `Torn` is a component whose copy was cut short.  Checksums
are modelled by the tree itself, which is what SHA-256 is used for.  The journal
row is a record with its phase, the completed components and the three checksums.
Copies are numbered by age because their names are timestamps.

`pc` is the place of the one thread that holds the lock.  Copies go component by
component; the replacement of `Players` is two steps, because the old directory is
removed before the staged one is moved in.  `Crash` stops the thread at any point
and leaves the component under way old, partial or missing.  `Fault` is an
I/O error at any point, handled as the code handles it.  `GameSaves`, `GameBackup`,
`Meddle` and `RepairSafety` are the world outside.

`origin` and `spent` do not exist in the code: `origin` remembers the world a
restore began with, `spent` counts what has been used of the bounds.

### `ConfigDraft` and the code

A document (an INI file, a `WorldOption.sav`) has one value per field; the password is
one of the fields, because LAN clients log in with it.  `ini` and `option` are the live
files, `drafts` and `oldDraft` the pending files of this version and of the oldest one
(a whole document instead of the changed fields), `row` is the `config_drafts` row.  A
JSON draft that an intermediate version left without baseline or target is one with
`complete = FALSE`.

`pc` is the place of the one thread that holds the control lock; it is `"idle"` when
nobody does.  A save goes `writeDraft` (`os.replace` of the pending file), `recordDraft`
(the row), then it applies, as the watcher and the server operations do: `apply` (every
refusal and the reading of the live file), `replace` (`os.replace` of the live file),
`verify`, `clear` (the row), `unlink` (the pending file), `revoke` (the LAN sessions).
`Crash` and `Fault` strike between any two of these steps.  The server, the
editor of a live file and a LAN login do not take the control lock and run between any two steps
as well; a login and the revocation share the lock of `AuthStore`.  A draft that is refused stays, and
the watcher comes back to it.  `Applicable` is the conjunction of what
`_apply_pending_exclusive` and `_read_pending_updates` require.

`accepted`, `based`, `raced`, `foreign`, `cut` and `spent` do not exist in the code.
`accepted` are the edits saved and not yet applied, `based` the values the operator saw
when saving them; `raced` says that the server or a file changed since the applying thread
looked; `foreign` that the effective password was last changed by something else than an
apply; `cut` that an apply was interrupted after it had replaced the file.

### `WorldSnapshots` and the code

Of a save there are two parts that are copied one after the other, `Level.sav` (with `LevelMeta.sav`)
and `Players`; a part is the number of times it was written, and the fingerprint of the world is
the pair.  `snaps` and `caches` are `data/snapshots` and `data/cache` with one entry per id, a
`.tmp` until `ready`; `current` is the row of `snapshot_versions` with `is_current`.  `lastSeen`,
`pending`, `backoff`, `parsing`, `requested`, `generation`, `lastError`, `plan` and `active` are the
fields of the service with these names.

`pc` is the place of the watch thread: it polls the fingerprint, decides, copies one part after the
other, looks at the source again, renames the snapshot, starts the worker, remembers it, waits,
publishes the cache by a rename, records it, finishes and tidies up.  Where the service lets its lock
go between two of these, requests, cleanups and `stop()` come in between.  `worker` is the parser
process; what it decodes is data, so it ends with a cache, dead, or without disk space, and may
never end.  `reader` is a query, which reads the current row, the items and the status in steps of their own.
`Fault` is an I/O error or a full disk at any point, `Crash` the end of the console with its worker.
`seen` is history: every fingerprint the world has had.

### `AppUpdate` and the code

An update is its lock, the version it installs and the timestamp of its backups, all numbered in
the order of the locks.  `upd[u]` has its three processes: `prepare` is the thread of the console that
asked (`hosted` while that process lives), `installer` the helper `apply-downloaded-update.ps1` with the
script it calls or an `upgrade-portable.ps1` run by hand, `pruner` the process that removes old
backups.  `installed` and `backups` have the four parts the script moves one after the other.  A lock names a
process by pid and start time: `OwnerAlive` is whether that process is there, `Reclaimed` what
whoever meets the lock leaves of it.  Readings and writings of the lock happen under a guard the operating system
takes back from the dead, so each is one step.

`console` follows each process through the launch gate of `__main__.py`, running, `held` by the
streams of open pages after it was told to exit, leaving and off.  `progress` is what the pages
read, `fresh` whether it is younger than the 90 s after which an orphan is reported as interrupted, `loser`
a request that lost the race for the lock.  `disturbed` remembers what went wrong (a kill, a
failure of the way back, a slow exit, a user who started a console), which the properties except by name.

### `Instances` and the code

A console has a thread that holds its control lock and one that reads without it.  A save is a claim,
the profile, the executable and the arguments, each in a transaction of its own (`SaveTarget`,
or `SaveBare` for an executable without a world, which clears and releases first); a save without a world
first uses the profile to find it.  A use reads row, setting and arguments - the reader one after the other - and
makes sure of the claim.  `claims` is the registry file, `inside` who holds its lock, `seen` what a
thread has read there before it writes the whole file.

### `AuditLog`, `Notifications`, `Monitor`, `PalRoster` and the code

`AuditLog`: the log is the file at one path, with an identity and lines that are two units long, so that a
poll may end in the middle of one.  A poll looks at the file, reads, records line by line and saves the cursor, and may be cut
short in between.  The key of a row is made of identity, generation, place and text, as in the code, and all texts are equal.

`Notifications`: callers look at the settings, then queue under the dispatch lock and start a
dispatcher unless there is one; a dispatcher takes under the same lock, sends outside it, and ends when the queue is
empty.  A thread that the system refuses leaves the notice until the next one comes (`stranded`).

`Monitor`: a cycle loads the configuration, collects the values one after the other and publishes by
raising the sequence number.  What the server answers stands for the state it is in.  A stream is `behind` when its
number is not the latest.

`PalRoster`: what a query selects and in which order is data, a list without repetitions for each filter (every `ORDER BY`
ends with the id, so pages do not overlap); a page of it is what `LIMIT` and `OFFSET` cut out.  `asked` is the latest request, since
`requestSequence` drops the answers of all before it; `known` is the snapshot of the page's status, with which the roster is mounted anew
(`key` in `WorldDataPage.tsx`), so that what a refused request does after its status has arrived is not seen any more.  `shows`
(snapshot, filter and number of pages on display) and `mixed` are history.

`Reporting` puts the four next to each other.  They share nothing but the database, whose transactions are
short, and no step of one enables or disables a step of another; so a behaviour follows one of them.

## 3. What is checked

| Run | Instance | Shows |
| --- | --- | --- |
| `server` | 2 operations, 2 process ids; 882 k states, with fairness | never two servers; launches and kills are safe; every operation ends |
| `requests` | 3 operations, 1 process id; 1.7 M states | one active operation, no row closed under a working thread, a force stop closes its parent, outcomes are final |
| `late_confirmation` | 3 operations | finding 1 |
| `restore` | 2 directories, 2 crashes, 1 error, 1 directory damaged; 1.4 M states, with fairness | the world is untouched until it is safe, nothing is lost, completed means the backup, an unfinished restore comes to its end |
| `restore_faults` | 3 directories, 2 errors; 2.0 M states | `Restore` implements `AtomicRestore`: whatever fails, the world is the old one or the backup |
| `torn_safety_copy` | 2 directories, 1 crash | finding 3 |
| `draft` | 2 worlds, 2 fields, 2 saves on top of every kind of draft on record, 1 crash, error or edit outside, 1 session; 2.3 M states, with fairness | the draft is what was saved; a write changes only what the operator has seen and where it belongs; a draft is cleared only when it is in place, and applied in the end; a password change ends the old sessions |
| `world` | 4 ids, 3 events, 1 snapshot kept; 262 k states, with fairness | the current cache is readable, whole, and never older than the one before; a requested parse is not lost; no worker outlives `stop()`; an answer is of one snapshot; the pages are up to date or say they are not; a full disk is retried |
| `update` | 2 consoles, 2 updates, 2 events; 566 k states, with fairness | parts are replaced alone and as a whole; the replaced ones are kept; interrupted means over, completed means running; the console comes back |
| `update_watched` | 1 console, 1 update, nothing goes wrong | finding 9 |
| `instances` | 2 consoles, 2 servers, 2 sets of ports, 3 saves, crashes or failed writes; 3.5 M states | claims never overlap, two consoles never act on one server, a saved profile stays claimed |
| `reporting` | 3 lines, 1 rotation, 2 polls cut short; 2 callers, 3 notices; 1 player, 1 page, 2 changes; 1 failure; 5 pals, pages of 2, 3 lists, 2 filters, 2 snapshots; 213 k states, with fairness | lines are recorded once and arrive, notices are handled, pages follow, the roster is the beginning of one list |

**Bounds.**  Two operations are enough for every question about a thread and the
server, because only a waiting stop and its force stop are ever active together
(`OneActive`); two process ids let a server be replaced between a
confirmation and a kill, or a second one be started beside the first.  The questions about requests need three: a stop, its force
stop and a stranger that comes after the confirmation expired.  A restore needs two
directories (backup and safety copy), three when a later restore or
retention matters.  Two crashes are one in the restore and one in the resume or
rollback that follows; with a third the same points are reached again.
Worlds differ in all components or in two, so that a restore finds a component in
place in some runs and not in others.

Two worlds, the first without a `WorldOption.sav`, are what it takes for a draft to wait
for its own world and for the password to come from either file; two fields are the
password and one that is not; two saves let the second add to the first, or to a draft of
an older version (`MCInit` begins with every such draft, but has one of an older version edit the password
at most).  `MaxEvents` counts crashes, errors and edits together.

Three events of the snapshot service are a write of the game, a request or cleanup that races it, and a fault; each lets the
watch thread begin at most one more capture, so four ids never run out (`EnoughIds`).  The
invariants also hold with four events and five ids (2.6 M states).  Two updates are one that fails, dies
or is slow and the next that meets what it left; two consoles are the one that asks and one that is launched in between.  Three events
in `instances` let two consoles save and a third thing - a crash, a failed write, another save - come between them.  Three lines, one
rotation and two cut polls let a line be read twice, cut in two, or read from the wrong file.  Lists of five, three and two pals
in pages of two have a page in the middle, a last one that is not full, and one that is; they overlap, so that a page of one list could pass for one of another.

Permuting keys, consoles or servers is used as a symmetry in runs without temporal properties that need fairness only.

**Fairness.**  `Lifecycle`: strong fairness of each operation thread, because waiting
for the lock is a poll every 50 ms (`control.py`) against holders that may come and
go, and every other step is local or has a timeout (REST calls, the wait for the exit, the
health check); weak fairness of the passing of a
confirmation's deadline, of the request that fails a parent, and of the end of a
restore.  Nothing is assumed of requests, the operator, the server or crashes.
`Restore`: weak fairness of the thread's step; and of the operator, that the warning of an unfinished restore, which stays
on the page, is answered with one of its two buttons, whichever it is (weak fairness of resume or rollback), and that the advice in
the refusal of a resume, to repair the safety copy, is not ignored for ever (strong fairness, since failing rollbacks come in between).
`RestoreIsOver` needs all three: it says that there is a way out, not that it is taken without the operator.
`ConfigDraft`: weak fairness of the step of the thread that holds the lock, of the watcher, which
looks for a draft every second, and of the end of a login that has compared the password;
nothing is assumed of saves, edits, crashes, errors, the server or the choice of a world.
`WorldSnapshots`: weak fairness of the watch thread, of a cleanup that was confirmed, of `stop()` and of the restart; strong
fairness of the decision to capture, which says that the world rests long enough now and then.  Nothing is
assumed of the worker: the thread waits for it with a timeout.
`AppUpdate`: weak fairness of the consoles' own steps, of the preparing thread, and of the helper with the script it
calls; nothing is assumed of users, kills and failures.
`Reporting`: weak fairness of the poll, of a dispatcher thread, of the cycle, and of a stream that was woken.
`requests`, `late_confirmation`, `torn_safety_copy`, `restore_faults` and `instances` use specifications without fairness.

**Assumptions on the outside.**  The operator does not start PalServer by hand in
the instant between the console's last look at the processes and its own launch, nor
while a restore holds the lock or the journal is unfinished: the code cannot see the first and refuses its own
starts in the second case.  Process ids are not used twice.  In `ConfigDraft` a server started
by hand and an edit of a live file may come at any time, between the last look at the file and
`os.replace` (`config_editor.py:921-938`) as well: the code cannot see these, an edit in that
window is overwritten, and `OnlyOwnEdits`, `ReplacedWhenSafe` and `ClearedWhenApplied` except exactly it
(`raced`).

`AppUpdate` takes three times from the code: the 90 s after which progress counts as abandoned are longer than
the 60 s a helper waits for the health of a console; what is left of a request takes at most 13 s of the
120 s a helper waits for the exit; and the few steps of a `catch` block end before another update gets as far as
moving parts.  `AuditLog` assumes that a log which was emptied in place is polled before it has grown past the cursor, and that a
new file is noticeable as one (`Grows`, `Noticeable`): what happens otherwise is finding 15.

**Deadlock** is checked in the runs of `Lifecycle`, `Restore` and `ConfigDraft`, which never stop: the console can
always restart, a stopped server can be started, a running one stopped.  The other runs say `CHECK_DEADLOCK FALSE`, because
their systems come to rest: nothing is left to do when the bounded events are used up and every thread waits for one.

## 4. What is proved

Every theorem holds for every value of the constants; nothing is assumed finite, and the bounds on events are arbitrary.

| Module | Theorem | What it says |
| --- | --- | --- |
| `LifecycleProof` | `TypeCorrect` | types |
| | `OneActiveAlways` | one operation is active, or a waiting stop with its force stop |
| | `WorkIsActiveAlways` | no row is closed while its thread may still act |
| | `LockIsExclusiveAlways` | the lock admits one thread, and a failing thread has released it |
| | `OneServerAlways` | never two servers |
| | `LaunchIsSafeAlways` | launches happen under the lock, with no unfinished restore and no unapplied configuration |
| | `OutcomeIsFinalAlways` | an operation without a force stop keeps its outcome |
| | `ForceStopClosesParentAlways` | a force stop that has ended leaves no confirmation open |
| | `ForceStopIsBoundAlways` | a force stop ends only processes the confirmation named |
| `RestoreProof` | `TypeCorrect` | types |
| | `UntouchedUntilSafeAlways` | the world is untouched before the safety copy is on record |
| | `NothingLostAlways` | the old world is in place or in the safety copy on record |
| | `CompletedIsSourceAlways` | completed means the backup, in every component |
| | `SafetyIsOriginAlways` | without crashes and damage the safety copy is the old world |
| | `RestoreIsAtomicAlways` | under the same condition `Restore` implements `AtomicRestore` |
| `ConfigDraftProof` | `TypeCorrect`, `DraftInvAlways`, `RowHasFileAlways` | types; the inductive invariant; the row names a file that exists |
| | `DraftIsAcceptedAlways` | the draft on record is what was saved and not yet applied |
| | `OnlyOwnEditsAlways` | a write changes only what the operator has seen |
| | `ReplacedWhenSafeAlways` | in the draft's own world, with no restore unfinished and no server seen |
| | `ClearedWhenAppliedAlways` | a draft leaves the record only when the live file has it |
| | `OldSessionsEndAlways` | an uninterrupted password change ends the sessions of the old one |
| `WorldSnapshotsProof` | `TypeCorrect` | types |
| | `CurrentIsReadableAlways` | the current cache is on disk |
| | `PublishedIsWholeAlways` | a published cache shows one state the world had |
| | `RequestedReparseIsPendingAlways` | a requested parse is on its way |
| | `NoWorkerOutlivesStopAlways` | the thread waits for no worker that `stop()` has missed |
| | `AnswersAreOneSnapshotAlways` | an answer is of one snapshot |
| | `CurrentNeverRegressesAlways` | the current snapshot is only replaced by a later state |
| `AppUpdateProof` | `TypeCorrect` | types |
| | `NoConsoleWhileMovingAlways` | while parts move no console serves |
| | `InstalledIsWholeAlways` | the installation is one package, unless a helper was killed between two moves or the way back failed |
| | `PreviousIsKeptAlways` | what a package replaced is kept, whole, whatever later updates fail |
| | `InterruptedIsOverAlways` | an update is reported as interrupted only when it is over |
| | `CompletedRunsAlways` | an update is reported as completed only when its version runs |
| `InstancesProof` | `TypeCorrect` | types |
| | `NoSharedServerAlways` | two consoles never act on one server |
| | `ClaimsStandAlways` | no two claims overlap, and a saved profile stays claimed |
| `NotificationsProof` | `TypeCorrect` | types |
| | `OneDispatcherAlways` | two dispatchers never overlap: notices leave in order |
| | `NoneWaitsAloneAlways` | a queue that is not empty has a dispatcher |
| `ReportingProof` | `TypeCorrect`, `LogTypeCorrect` | types of all four parts; of the audit log alone |
| | `RecordedOnceAlways` | no line of the log is recorded twice |
| | `RosterIsWholeAlways` | what the roster shows is the beginning of one list of one snapshot |

**Assumptions.**  `Lifecycle`: `SentinelsAreFresh` - the values that stand for "no operation",
"free" and "restore" are not keys.  `ConfigDraft`: `AbsentIsFresh` (the values that stand for
something absent are not fields' values, worlds, rows or files), `PasswordIsField` and
`BoundsAreNat`.  `Restore`: `ContentsDistinct` and `NoTreeIsFresh` (a torn or missing component is no
content, no directory is no tree), `GameWorldsWhole` (a world the game has saved has all components) and `BoundsAreNat`.
`WorldSnapshots`: `SentinelsAreFresh` and `BoundsAreNat`.  `Instances`: `InstanceAssumption`
(every target has an executable, there are arguments) and `NoneIsFresh`.  `Notifications`:
`NotificationsAssumption`, that the bounds are natural numbers.  `AppUpdate`: `BoundsAreNat` and `SentinelsAreFresh` (the one who
upgrades by hand and nobody are no consoles, no lock is no lock, a missing part has no version).  `Reporting`: `ReportingAssumption`
(bounds), `NoneIsNoCursor` (no cursor is not a cursor) and `RosterAssumption` (the default filter is a filter, a query gives a list of pals
without repetitions, a page has at least one entry).  TLC evaluates all of them in the runs.

**The argument for `Lifecycle`.**  None of the properties is inductive alone.  `Inv` adds:

- `RaisedAt` - an error is carried only at the handler's points, so a thread that
  has raised is not in the locked section;
- `LockAt` - who is in the locked section holds the lock, and conversely;
- `ParentsLeft`, `ExpiringLeft` - a parent, or a row about to be failed as expired,
  belongs to a thread that has already left its working points: this is why a late
  confirmation cannot close a row under a thread;
- `RestoreRespected` - while the journal is unfinished no thread with a blocked kind is
  inside the lock: the check made at reservation is repeated after the lock is taken;
- `UnusedIsIdle` - a key without a row has no thread;
- `LaunchReady` - a thread about to launch has seen no process and has left no draft
  unapplied.

A step of a thread changes one row and one place, so each of the 26 thread actions is first
summarised (`ThreadStep`, `RowStep`, `WorkStep`: which row, from which point to
which, and whether it takes or gives the lock).  `StepInv` then carries `Inv` over the summary once instead
of once per action.  Reservations, late confirmations, the restore, the draft, the
environment and the restart have their own lemmas; `Invariance` puts them together.
`OneActive` rests on the reservation testing all rows in the transaction that
inserts, and on a bound force stop whose parent is the only other active row.

`ForceInv` is carried on top of `Inv`: a force stop has a parent that is none itself and the parent's processes
(`Bound`), it never visits the points of a graceful stop and alone reaches the kill (`KindAt`), and once it has
ended and looked at its parent the parent is terminal (`Closed`).  The parent's processes do not change any more, because only a thread that begins
to stop writes them and the parent's thread has left (`ParentsLeft`).

**The argument for `ConfigDraft`.**  `DraftInv` ties the record to the history: `OnRecordMatches` says that
the draft on record has the accepted edits and their baselines, and that without one nothing is
accepted; `SaveAdds` and `SaveWritten` carry this over the two steps of a save, in which the history
may or may not count the edits already (adding edits twice changes nothing, `MergedTwice`).
`ApplyOnRecord` says that from the reading of the file to the clearing of the row the
row is the one the thread works for, because saves, world switches and restores need
the lock; `ReadStands` is the conflict check (a field that is written has the baseline or
already the new value), `WriteStands` the verification.  Everything outside either
leaves these alone or sets `raced`.  `SessionInv` is about the password before and after: `KnowsPassword` says that
an undisturbed apply compares with the password it replaces, `SessionsCurrent` that between the replacement and
the revocation sessions are of one of these two.

**The argument for `Restore`.**  `RInv` is `Typed`, `Guarded` and `Kept`.  `SealedFirst` says that every point
behind the safety copy has its checksum on record, `WorkIsRecovery` and `ServerRests` that the world is nobody else's meanwhile, `SafetyKept` that unless
a directory is damaged the copy is still as recorded.  Nothing is lost because the world differs from `origin` only behind
`SealedFirst`.  For the refinement `Unharmed` is added, under `NoHarm` (no crashes, no damage): an early phase has the old world
(`EarlyIsOrigin`), the safety copy grows from it component by component (`CopiedIsOrigin`), the phase tells which way the
thread goes (`WorkPhase`).  Each step of `Restore` is then a step of `AtomicRestore` or a stutter.

**The argument for `WorldSnapshots`.**  `Inv` has one part per concern - `Worlds`, `Captures`, `Memory`, `Workers`, `Queries`,
`Requests`, `Storage`, `Plans`, `Publication`, `Copying`, `Contents` - and one lemma per part carries it over a step from itself and the parts before it.
`Workers` has the interlock: a parse holds `parsing` from before the worker to after the record, and a cleanup begins only
without it and holds the lock throughout.  `Publication` says that a capture never works on the id that is current and that the current cache is ready, so
no failure handler and no cleanup can remove it.  `Copying` is why a published cache is whole: versions only grow, the parts copied are
not older than the fingerprint the capture began with (`LevelInTime`, `PlayersInTime`), and the second look at the source bounds them
from above, so that they are that fingerprint.  `Contents` carries this over the worker and the rename, with
`CurrentIsPast` for `CurrentNeverRegresses`.

**The argument for `Instances`.**  Claims are exclusive because a thread that writes the registry has read it under the same lock (`LockInv`: what
it has seen is what the file says).  `Carries` says for each point of a save or use that the console owns what it carries; a claim of one
console is moved only by that console's own threads, and a reader renews it only for the target that is claimed.

**The argument for `Notifications`.**  `FlagIsTrue`: the flag `_dispatching` is set exactly while the thread that was started last is
there.  It is cleared under the lock under which the thread finds the queue empty, so whoever appends next sees that (`Covered`).

**The argument for `AppUpdate`.**  `Core` is about who works: updates are numbered as they begin and the lock is never ahead of them
(`InOrder`), an installer behind its look at the lock owns it (`LockIsHeld`), and behind its look at the processes no console serves
(`NobodyServes`) - a console that is launched later meets the lock.  `Roles` says that `prepare()` works only as long as its console lives and touches the
lock only until the helper has it, which is why an abandoned lock that is reclaimed had nobody under it; `Reported` that a page speaks of an
update of its own console.  `Files` is about the parts: `HalfMoved` says what is where between two moves, and
`Restored(u)` is the installation that taking the moves of `u` back would give.  `Safe` then says that what stands, or would be put back, is
one package and that every other backup still has what its package replaced; moving one part forward or back leaves `Restored(u)` as it
is, so that the moves need no invariant of their own.  `NewIsWhole` is the same for the package an installer is about to launch.  The two
action properties follow from what each step says (`Speaks`): only the end of an installer and the pages' look at the clock report an end.

**The argument for the audit log.**  A poll that is cut short leaves rows behind the cursor.  `AheadOfCursor` says that each of them
has the key - identity, generation, place - which the next poll will give to the same line, so that it is recognised; `PollFits` that the poll under way goes
on from where the next one would, unless its file is gone; `ReadFits` and `TodoFits` that what it has read and not yet recorded is what is behind the
offset.  `SplitAtCursor` and `ReadFits` except the line in the middle of which a poll ends.  `Counted` bounds generations by rotations: after a file
was replaced, its generation is new.

**The argument for the roster.**  `AskedAsNamed` says that a request is for the snapshot and the filter the page names and, if it adds to what is on
display, for the page behind it; a change of either supersedes the request, so an answer that counts fits what is on display
(`OnDisplay`).  The number of the page is computed from the number of pals: when pals are left, the pages on display are full and have
`pages * PageSize` of them (`FirstPagesAre`), because a list has no repetitions.  `AtRest` says that without a request and without a failure the list is that
of the filter.

The types of the notices are those of `NotificationsProof`, whose lemmas about single steps are used as an instance.

**Only model-checked.**  All liveness (`OperationsEnd`, `RestoreIsOver`, `DraftIsApplied`, `NeverSilentlyStale`,
`DiskFullIsRetried`, `ConsoleReturns`, `LinesArrive`, `NoticesAreHandled`, `PagesFollow`), which is out of the prover's reach.  Every safety
property a passing run checks is a theorem as well.

## 5. Findings

Each is quoted with the text it contradicts in `PROJECT.json`.  A run shows the ones in brackets; the others are what the
properties except, by name, or were met as counterexamples while a property was being stated.

1. *A late confirmation reports that nothing was stopped while its processes are
   being killed* (`late_confirmation`).  `reserve_operation` tests the deadline before it
   looks for a child, so a second confirmation after the deadline fails the parent
   although the first one's force stop is at work (`persistence.py:694`).
2. *A terminal operation changes its outcome.*  `transition_operation` reads
   and updates in two transactions; the update does not test the state
   (`persistence.py:776`).  `OutcomeIsFinal` excepts the parent of a force stop.
3. *A partial safety copy is adopted* (`torn_safety_copy`).  A crash inside `copytree` can
   leave all three components, one of them partial, and no checksum; resume takes the checksums of
   what it finds (`backups.py:536`).
4. *"Rolled back" over a damaged world.*  A rollback in phase staging or
   ready is interrupted, the following resume fails, and the handler concludes from the early phase
   that nothing was written (`backups.py:709`).
5. *A rollback that can never succeed.*  A rollback before the safety
   checksum is recorded ends in rollback_failed; resume is refused, every rollback fails, and
   start, save and restart stay blocked (`backups.py:358`).  `RestoreIsOver` excepts a restore without that checksum.
6. *Sessions of an old password survive its change.*  The revocation is the last step of
   an apply and compares the password before and after it; an apply that is cut short after
   `os.replace` is done again at the next start, where both are the new one
   (`config_editor.py:950`).  `OldSessionsEnd` excepts a change that was cut short.
7. *A cleanup deletes what no preview showed.*  The directories are listed again after the comparison with the preview, and a copy
   under way is not protected (`world/service.py:427`, `1506`).
8. *A correct snapshot is called stale for ever* after the world could not be read for one poll
   (`world/service.py:941`).
9. *An update fails while a page is open, and the console does not come back* (`update_watched`).  The shutdown waits for the event streams,
   and these for the shutdown hook (`__main__.py:118`, `main.py:96`).
10. *A request that loses the race for the update lock overwrites the winner's progress* with "failed"
    (`application_updates.py:391`).
11. *A reader renews a claim with old ports* after a save has claimed others (`config.py:278`).
12. *A claim without a profile*: clearing a profile races a reader, or is cut short before the release (`config.py:282`).
13. *Lines recorded twice* when the log is rotated between `stat` and `open` (`audit.py:239`).
14. *A line cut in two* when its end is not written yet (`audit.py:254`).
15. *A log emptied in place* is not noticed when it has outgrown the cursor before the next poll
    (`audit.py:245`).
16. *One failing source discards another's values*: without REST metrics the process metrics are never
    shown (`monitoring.py:746`).
17. *Old values that are not marked stale* while the configuration file is not UTF-8
    (`monitoring.py:716`).
18. *Pals of two filters in one list*: "load more" stays enabled while the first page of a new filter is loading or after it
    failed (`src/frontend/src/features/world/PalRoster.tsx:354`); the page it adds is of the new filter, the pals it is added to are of the old one, and the
    number of pals, from which the next page is computed, is that of neither.
19. *A force stop that succeeded leaves its parent waiting* when its audit record cannot be written: the handler asks for a transition
    that is refused, and the parent is skipped (`lifecycle.py:506`).

## 6. Not modelled

- Parsing and rendering (`config.py`, `world_option.py`, `world/adapter.py`, the rows `world/cache.py` builds and its queries select,
  `metadata/`) are data conversions without a state of their own.  The HTTP routes translate
  requests into the calls modelled here.  The other pages of the front end, the build scripts and the static catalogues hold no state the
  properties speak of; the inventory and the player list load pieces of a list as the roster does.
- *Roster*: the drawer with the details of one pal; the second attempt of a refused request, which runs in a page that is no longer mounted.
- *Server operations*: texts, audit records and notices at each transition, reading errors of the journal, and time other
  than a confirmation's deadline.  A record that cannot be written raises in the middle of a transition; `ForceStopClosesParent`
  holds when they can be written (finding 19).
- *Application updates*: a helper killed between two moves leaves the parts of two versions, and no start-up code repairs them -
  `InstalledIsWhole` excepts it (`torn`).  An upgrade by hand never reclaims an abandoned lock and refuses an installation
  without its program; both are in the model.  Not in the model: a process that cannot be inspected is skipped when consoles are looked
  for (`Get-CurrentInstallConsoleProcesses`), and what a package contains.
- *Instances*: a corrupt registry file, which refuses every claim.
- *Audit log*: the differences between player lists.  `observe_players` replaces the list it knows before it records the differences, so a
  database error loses events, and a change between REST and RCON, which name players differently, makes up departures and
  arrivals.  Retention, export and the renaming of logs inside the directory.
- *Monitoring*: the arithmetic of the process metrics, the REST and RCON protocols, the value `info`, which is collected like the
  others.
- *Authentication*: expiry and login windows are comparisons of times inside one transaction each; local sessions.
- *Control lock*: nested entries of one thread are part of the outer one.

## 7. Plan

1. Player differences, as part of `AuditLog`: what an observation records against the players there were.
2. `AuthSessions` - sessions and login windows at their boundaries.
3. `System` - `Lifecycle` with the restore thread of `Restore` in place of its
   abstraction, the two sharing lock, journal and server; and the draft
   `Lifecycle` knows (none, ready, in conflict) as an abstraction of `ConfigDraft`.
4. `ControlLock` - the re-entrant cross-process lock itself, with mutual exclusion as its abstract
   specification.
