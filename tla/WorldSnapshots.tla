--------------------------- MODULE WorldSnapshots ---------------------------
(***************************************************************************)
(* The world snapshot service (world/service.py).  A watch thread waits    *)
(* for the saved world to rest, copies it to a snapshot, lets a worker     *)
(* process build a cache from the copy, publishes the cache by a rename    *)
(* and makes it current in snapshot_versions.  Next to it, API threads ask *)
(* for another parse, preview and confirm the cleanup of generated files,  *)
(* and answer queries from the current cache; the game goes on writing.    *)
(*                                                                         *)
(* Of a save there are two parts that are copied one after the other:      *)
(* Level.sav (with LevelMeta.sav) and Players.  A part is the number of    *)
(* times it was written, and the fingerprint of the world is the pair.     *)
(* Snapshot ids are numbered in the order of their creation.               *)
(***************************************************************************)
EXTENDS Naturals, FiniteSets

CONSTANTS
  Keep,        \* snapshot_retention_count
  NoId,        \* no snapshot; a query that does not name one
  NoPrint,     \* None for _last_seen and _pending
  NoFile,      \* a snapshot or a cache that is not on disk
  NoPlan,      \* no cleanup preview awaits its confirmation
  Absent,      \* a part that a snapshot lacks
  MaxIds,      \* snapshots begun
  MaxEvents    \* writes, requests, cleanups, queries, faults and ends of the process

ASSUME BoundsAreNat == Keep \in Nat \ {0} /\ MaxIds \in Nat /\ MaxEvents \in Nat

Ids == 1..MaxIds
Versions == 0..MaxEvents
Prints == [level : Versions, players : Versions]
Copies == [ready : BOOLEAN, level : Versions \union {Absent}, players : Versions \union {Absent}]

ASSUME SentinelsAreFresh ==
  /\ NoId \notin Ids
  /\ NoPrint \notin Prints
  /\ NoFile \notin Copies
  /\ Absent \notin Versions

VARIABLES
  world,      \* fingerprint of the world directory
  readable,   \* FALSE while the world directory cannot be read
  snaps,      \* data/snapshots: the copy of each id, a .tmp until it is ready
  caches,     \* data/cache: likewise, with what the worker read
  current,    \* the id that is_current in snapshot_versions
  lastSeen,   \* _last_seen
  pending,    \* _pending
  backoff,    \* TRUE while _disk_space_retry_until lies ahead
  parsing,    \* _parsing
  requested,  \* _reparse_requested
  generation, \* _reparse_generation
  lastError,  \* _last_error
  plan,       \* _cleanup_confirmation: the candidates that were previewed
  pc,         \* where the watch thread is
  job,        \* its capture: id, fingerprint, generation, and why it fails
  worker,     \* the worker process
  active,     \* TRUE while _active_worker is set
  stop,       \* stop(): "no", "set" when _stop is set, "swept" after the terminate
  cleaner,    \* a confirmed cleanup; it holds _lock while it is not idle
  reader,     \* a query under way, and its answer
  seen,       \* history: every fingerprint the world has had
  lastId,     \* the id of the newest snapshot
  spent       \* events used up

disk == <<snaps, caches, current>>
memory == <<lastSeen, pending, backoff, requested, generation, lastError>>
environment == <<world, readable, seen>>
thread == <<pc, job, parsing, worker, active, lastId>>
vars == <<world, readable, snaps, caches, current, lastSeen, pending, backoff, parsing, requested,
          generation, lastError, plan, pc, job, worker, active, stop, cleaner, reader, seen, lastId, spent>>

Kinds == {"temporary", "orphan", "retention"}
Entries == [kind : Kinds, store : {"snapshots", "cache"}, id : Ids, holds : Copies]
NoJob == [id |-> NoId, print |-> NoPrint, gen |-> 0, why |-> "none"]
NoQuery == [step |-> "idle", asked |-> NoId, row |-> NoId, items |-> NoId, named |-> NoId]
Idle == [step |-> "idle", plan |-> {}]
Points == {"off", "poll", "decide", "capture", "level", "players", "recheck", "rename", "begin",
           "launch", "remember", "wait", "publish", "record", "finish", "tidy", "caught", "failed", "ended"}

\* What the operator, the game and misfortune do is bounded in total.
Event == spent < MaxEvents /\ spent' = spent + 1

\* _lock: a cleanup keeps it from the comparison to the last removal.
LockFree == cleaner.step = "idle"

Init ==
  /\ world = [level |-> 0, players |-> 0]
  /\ readable = TRUE
  /\ snaps = [i \in Ids |-> NoFile] /\ caches = [i \in Ids |-> NoFile]
  /\ current = NoId
  /\ lastSeen = NoPrint /\ pending = NoPrint /\ backoff = FALSE
  /\ parsing = FALSE /\ requested = FALSE /\ generation = 0
  /\ lastError = "none"
  /\ plan = NoPlan
  /\ pc = "off" /\ job = NoJob /\ worker = "none" /\ active = FALSE
  /\ stop = "no"
  /\ cleaner = Idle
  /\ reader = NoQuery
  /\ seen = {world}
  /\ lastId = 0 /\ spent = 0

-----------------------------------------------------------------------------
(* The game writes one part at a time; the directory may be away.          *)

GameWrites(part) ==
  /\ Event
  /\ world' = [world EXCEPT ![part] = @ + 1]
  /\ seen' = seen \union {world'}
  /\ UNCHANGED <<readable, disk, memory, plan, thread, stop, cleaner, reader>>

WorldVanishes ==
  /\ readable /\ Event
  /\ readable' = FALSE
  /\ UNCHANGED <<world, seen, disk, memory, plan, thread, stop, cleaner, reader>>

WorldReturns ==
  /\ ~readable /\ readable' = TRUE
  /\ UNCHANGED <<world, seen, disk, memory, plan, thread, stop, cleaner, reader, spent>>

-----------------------------------------------------------------------------
(* Cleanup of generated files.                                             *)

IsTemp(file) == file # NoFile /\ ~file.ready
IsReady(file) == file # NoFile /\ file.ready

Temporary(store) == {i \in Ids : IsTemp(store[i])}
Snapshots == {i \in Ids : IsReady(snaps[i])}
Caches == {i \in Ids : IsReady(caches[i])}
OrphanSnapshots == (Snapshots \ Caches) \ {current}
OrphanCaches == (Caches \ Snapshots) \ {current}

\* Mutant: the current snapshot is treated like the others.
ExpiredAll(floor) ==
  LET complete == Snapshots \intersect Caches
  IN {i \in complete : i < floor \/ Cardinality({j \in complete : j > i}) >= Keep}

\* Complete snapshots to remove: all but the newest Keep, the current one being
\* one of them, and those older than a limit of age or of total size: "floor".
Expired(floor) ==
  LET complete == Snapshots \intersect Caches
      others == complete \ {current}
      room == Keep - Cardinality(complete \intersect {current})
  IN {i \in others : i < floor \/ Cardinality({j \in others : j > i}) >= room}

EntriesOf(kind, store, name, ids) ==
  {[kind |-> kind, store |-> name, id |-> i, holds |-> store[i]] : i \in ids}

\* _cleanup_candidates_locked
Candidates(floor) ==
  UNION {EntriesOf("temporary", snaps, "snapshots", Temporary(snaps)),
         EntriesOf("temporary", caches, "cache", Temporary(caches)),
         EntriesOf("orphan", snaps, "snapshots", OrphanSnapshots),
         EntriesOf("orphan", caches, "cache", OrphanCaches),
         EntriesOf("retention", snaps, "snapshots", Expired(floor)),
         EntriesOf("retention", caches, "cache", Expired(floor))}

Without(store, ids) == [i \in Ids |-> IF i \in ids THEN NoFile ELSE store[i]]

\* The first half of _cleanup_storage_locked removes temporary entries, the
\* second what it then finds orphaned or expired.  A removal may fail.
RemoveTemporary(stuck) ==
  /\ snaps' = Without(snaps, Temporary(snaps) \ stuck)
  /\ caches' = Without(caches, Temporary(caches) \ stuck)

RemoveUnneeded(floor, stuck) ==
  /\ snaps' = Without(snaps, (OrphanSnapshots \union Expired(floor)) \ stuck)
  /\ caches' = Without(caches, (OrphanCaches \union Expired(floor)) \ stuck)

\* Both halves at once, where nobody else touches the files.
CleanStorage(floor) ==
  /\ snaps' = Without(snaps, Temporary(snaps) \union OrphanSnapshots \union Expired(floor))
  /\ caches' = Without(caches, Temporary(caches) \union OrphanCaches \union Expired(floor))

\* cleanup_preview; the candidates stand for their SHA-256 fingerprint.
PreviewCleanup(floor) ==
  /\ pc # "off" /\ LockFree /\ ~parsing
  /\ Event
  /\ plan' = Candidates(floor)
  /\ UNCHANGED <<environment, disk, memory, thread, stop, cleaner, reader>>

\* confirm_cleanup refuses while a parse runs; a plan that has expired or that
\* no longer matches is forgotten, one that matches is carried out.
RefuseCleanup(floor) ==
  /\ pc # "off" /\ LockFree /\ ~parsing
  /\ plan # NoPlan
  /\ plan' = NoPlan
  /\ UNCHANGED <<environment, disk, memory, thread, stop, cleaner, reader, spent>>

ConfirmCleanup(floor) ==
  /\ pc # "off" /\ LockFree /\ ~parsing
  /\ plan # NoPlan /\ plan = Candidates(floor)
  /\ cleaner' = [step |-> "temporary", plan |-> plan]
  /\ UNCHANGED <<environment, disk, memory, plan, thread, stop, reader, spent>>

SweepTemporary(stuck) ==
  /\ cleaner.step = "temporary"
  /\ IF stuck = {} THEN UNCHANGED spent ELSE Event
  /\ RemoveTemporary(stuck)
  /\ cleaner' = [cleaner EXCEPT !.step = "unneeded"]
  /\ UNCHANGED <<environment, current, memory, plan, thread, stop, reader>>

SweepUnneeded(floor, stuck) ==
  /\ cleaner.step = "unneeded"
  /\ IF stuck = {} THEN UNCHANGED spent ELSE Event
  /\ RemoveUnneeded(floor, stuck)
  /\ plan' = NoPlan
  /\ cleaner' = Idle
  /\ UNCHANGED <<environment, current, memory, thread, stop, reader>>

-----------------------------------------------------------------------------
(* Requests.                                                               *)

\* Mutant: what was seen last is not forgotten.
RequestReparseOnly ==
  /\ pc # "off" /\ LockFree
  /\ Event
  /\ generation' = generation + 1
  /\ pending' = NoPrint /\ backoff' = FALSE
  /\ requested' = TRUE /\ lastError' = "none"
  /\ UNCHANGED <<environment, disk, lastSeen, plan, thread, stop, cleaner, reader>>

RequestReparse ==
  /\ pc # "off" /\ LockFree
  /\ Event
  /\ generation' = generation + 1
  /\ lastSeen' = NoPrint /\ pending' = NoPrint /\ backoff' = FALSE
  /\ requested' = TRUE /\ lastError' = "none"
  /\ UNCHANGED <<environment, disk, plan, thread, stop, cleaner, reader>>

\* A query reads the row of the current snapshot and goes on with it; it is
\* refused when this is not the one asked for or its cache is not there.
BeginQuery(asked) ==
  /\ pc # "off" /\ reader.step = "idle"
  /\ current # NoId /\ asked \in {NoId, current} /\ IsReady(caches[current])
  /\ Event
  /\ reader' = [NoQuery EXCEPT !.step = "items", !.asked = asked, !.row = current]
  /\ UNCHANGED <<environment, disk, memory, plan, thread, stop, cleaner>>

ReadItems ==
  /\ reader.step = "items"
  /\ reader' = IF IsReady(caches[reader.row])
               THEN [reader EXCEPT !.step = "status", !.items = reader.row]
               ELSE NoQuery
  /\ UNCHANGED <<environment, disk, memory, plan, thread, stop, cleaner, spent>>

\* Mutant: status() reads the current row again.
NameCurrent ==
  /\ reader.step = "status"
  /\ reader' = [reader EXCEPT !.step = "idle", !.named = current]
  /\ UNCHANGED <<environment, disk, memory, plan, thread, stop, cleaner, spent>>

\* _status_for_snapshot describes the row the query began with.
NameSnapshot ==
  /\ reader.step = "status"
  /\ reader' = [reader EXCEPT !.step = "idle", !.named = reader.row]
  /\ UNCHANGED <<environment, disk, memory, plan, thread, stop, cleaner, spent>>

-----------------------------------------------------------------------------
(* The watch thread, outside of a capture.                                 *)

Goto(point) == pc' = point

\* An exception on its way: the disk is full, or anything else.
Throw(why, handler) ==
  /\ job' = [job EXCEPT !.why = why]
  /\ pc' = handler

Fault(handler) ==
  /\ Event
  /\ \E why \in {"disk", "failed"} : Throw(why, handler)

Poll ==
  /\ pc = "poll" /\ stop = "no"
  /\ IF readable
     THEN job' = [NoJob EXCEPT !.print = world] /\ Goto("decide")
     ELSE job' = [NoJob EXCEPT !.why = "failed"] /\ Goto("caught")
  /\ UNCHANGED <<environment, disk, memory, plan, parsing, worker, active, stop, cleaner, reader, spent, lastId>>

\* The fingerprint is a new one: it has to rest first.
SeeChange ==
  /\ pc = "decide" /\ LockFree
  /\ job.print # lastSeen
  /\ lastSeen' = job.print /\ pending' = job.print /\ backoff' = FALSE
  /\ Goto("poll")
  /\ UNCHANGED <<environment, disk, requested, generation, lastError, plan, job, parsing, worker,
                 active, stop, cleaner, reader, spent, lastId>>

\* Nothing to parse, or not yet: too early, or too early for a retry.
SeeNothing ==
  /\ pc = "decide" /\ LockFree
  /\ job.print = lastSeen
  /\ Goto("poll")
  /\ UNCHANGED <<environment, disk, memory, plan, job, parsing, worker, active, stop, cleaner,
                 reader, spent, lastId>>

\* The world has rested for stability_seconds, and a retry is due.
StartCapture ==
  /\ pc = "decide" /\ LockFree
  /\ job.print = lastSeen /\ pending = job.print
  /\ pending' = NoPrint /\ backoff' = FALSE
  /\ Goto("capture")
  /\ UNCHANGED <<environment, disk, lastSeen, requested, generation, lastError, plan, job, parsing,
                 worker, active, stop, cleaner, reader, spent, lastId>>

\* _schedule_disk_space_retry: only for the fingerprint that was seen last.
ScheduleRetry(print) ==
  IF print # NoPrint /\ lastSeen = print
  THEN pending' = print /\ backoff' = TRUE
  ELSE UNCHANGED <<pending, backoff>>

\* Mutant: a full disk is reported and nothing more.
WatchFailsForGood ==
  /\ pc = "caught" /\ LockFree
  /\ requested' = FALSE /\ lastError' = job.why
  /\ Goto("poll") /\ job' = NoJob
  /\ UNCHANGED <<environment, disk, lastSeen, pending, backoff, generation, plan, parsing, worker,
                 active, stop, cleaner, reader, spent, lastId>>

\* The watch loop reports what it catches, whatever the generation.
WatchFails ==
  /\ pc = "caught" /\ LockFree
  /\ requested' = FALSE /\ lastError' = job.why
  /\ IF job.why = "disk" THEN ScheduleRetry(lastSeen) ELSE UNCHANGED <<pending, backoff>>
  /\ Goto("poll") /\ job' = NoJob
  /\ UNCHANGED <<environment, disk, lastSeen, generation, plan, parsing, worker, active, stop,
                 cleaner, reader, spent, lastId>>

-----------------------------------------------------------------------------
(* _capture_and_parse, the copy.  Nothing keeps a cleanup out: _parsing is  *)
(* not set yet.                                                            *)

SetSnap(file) == snaps' = [snaps EXCEPT ![job.id] = file]
SetCache(file) == caches' = [caches EXCEPT ![job.id] = file]

\* A failure removes the temporary copy.
CopyFails ==
  /\ pc \in {"capture", "level", "players", "rename"}
  /\ Fault("caught")
  /\ snaps' = IF job.id # NoId /\ IsTemp(snaps[job.id]) THEN Without(snaps, {job.id}) ELSE snaps
  /\ UNCHANGED <<environment, caches, current, memory, plan, parsing, worker, active, stop, cleaner,
                 reader, lastId>>

MakeTemporary ==
  /\ pc = "capture"
  /\ lastId < MaxIds /\ lastId' = lastId + 1
  /\ job' = [job EXCEPT !.id = lastId']
  /\ snaps' = [snaps EXCEPT ![lastId'] = [ready |-> FALSE, level |-> Absent, players |-> Absent]]
  /\ Goto("level")
  /\ UNCHANGED <<environment, caches, current, memory, plan, parsing, worker, active, stop, cleaner,
                 reader, spent>>

\* The copy of Level.sav needs the directory, which a cleanup may have removed.
CopyLevel ==
  /\ pc = "level"
  /\ IF IsTemp(snaps[job.id]) /\ readable
     THEN /\ SetSnap([snaps[job.id] EXCEPT !.level = world.level])
          /\ Goto("players") /\ UNCHANGED job
     ELSE /\ snaps' = Without(snaps, {job.id})
          /\ Throw("failed", "caught")
  /\ UNCHANGED <<environment, caches, current, memory, plan, parsing, worker, active, stop, cleaner,
                 reader, spent, lastId>>

\* copytree creates the directories it needs: a copy that was removed comes
\* back without Level.sav.
CopyPlayers ==
  /\ pc = "players"
  /\ IF readable
     THEN /\ SetSnap(IF IsTemp(snaps[job.id]) THEN [snaps[job.id] EXCEPT !.players = world.players]
                     ELSE [ready |-> FALSE, level |-> Absent, players |-> world.players])
          /\ Goto("recheck") /\ UNCHANGED job
     ELSE /\ snaps' = Without(snaps, {job.id})
          /\ Throw("failed", "caught")
  /\ UNCHANGED <<environment, caches, current, memory, plan, parsing, worker, active, stop, cleaner,
                 reader, spent, lastId>>

\* Mutant: no second look at the source.
RecheckNothing ==
  /\ pc = "recheck"
  /\ Goto("rename")
  /\ UNCHANGED <<environment, disk, memory, plan, job, parsing, worker, active, stop, cleaner, reader,
                 spent, lastId>>

\* SNAPSHOT_SOURCE_CHANGED: the copy is discarded.
Recheck ==
  /\ pc = "recheck"
  /\ IF readable /\ world = job.print
     THEN Goto("rename") /\ UNCHANGED <<snaps, job>>
     ELSE snaps' = Without(snaps, {job.id}) /\ Throw("failed", "caught")
  /\ UNCHANGED <<environment, caches, current, memory, plan, parsing, worker, active, stop, cleaner,
                 reader, spent, lastId>>

\* snapshot.json, then os.replace of the directory.
RenameSnapshot ==
  /\ pc = "rename"
  /\ IF IsTemp(snaps[job.id])
     THEN SetSnap([snaps[job.id] EXCEPT !.ready = TRUE]) /\ Goto("begin") /\ UNCHANGED job
     ELSE Throw("failed", "caught") /\ UNCHANGED snaps
  /\ UNCHANGED <<environment, caches, current, memory, plan, parsing, worker, active, stop, cleaner,
                 reader, spent, lastId>>

-----------------------------------------------------------------------------
(* _capture_and_parse, the parse: from here on _parsing keeps cleanups out. *)

BeginParse ==
  /\ pc = "begin" /\ LockFree
  /\ parsing' = TRUE
  /\ job' = [job EXCEPT !.gen = generation]
  /\ Goto("launch")
  /\ UNCHANGED <<environment, disk, memory, plan, worker, active, stop, cleaner, reader, spent, lastId>>

LaunchWorker ==
  /\ pc = "launch"
  /\ IF stop # "no" THEN Throw("failed", "failed") /\ UNCHANGED worker
     ELSE worker' = "running" /\ Goto("remember") /\ UNCHANGED job
  /\ UNCHANGED <<environment, disk, memory, plan, parsing, active, stop, cleaner, reader, spent, lastId>>

\* Mutant: it is only made known.
RememberOnly ==
  /\ pc = "remember" /\ LockFree
  /\ active' = TRUE
  /\ Goto("wait")
  /\ UNCHANGED <<environment, disk, memory, plan, job, parsing, worker, stop, cleaner, reader, spent, lastId>>

\* The worker becomes known to stop(); one that stop() missed is ended here.
RememberWorker ==
  /\ pc = "remember" /\ LockFree
  /\ active' = TRUE
  /\ worker' = IF stop # "no" /\ worker = "running" THEN "dead" ELSE worker
  /\ Goto("wait")
  /\ UNCHANGED <<environment, disk, memory, plan, job, parsing, stop, cleaner, reader, spent, lastId>>

\* The worker (world/worker.py) needs a snapshot with Level.sav and Players; it
\* fills the temporary cache, or fails and removes it.  It may also do nothing.
Parsable(snapshot) == IsReady(snapshot) /\ snapshot.level # Absent

WorkerBuilds ==
  /\ worker = "running" /\ Parsable(snaps[job.id])
  /\ SetCache([snaps[job.id] EXCEPT !.ready = FALSE])
  /\ worker' = "built"
  /\ UNCHANGED <<environment, snaps, current, memory, plan, pc, job, parsing, active, stop, cleaner,
                 reader, spent, lastId>>

WorkerFails ==
  /\ worker = "running"
  /\ \/ /\ ~Parsable(snaps[job.id])
        /\ worker' = "dead" /\ UNCHANGED spent
     \/ /\ Event /\ worker' \in {"dead", "full"}
  /\ UNCHANGED <<environment, disk, memory, plan, pc, job, parsing, active, stop, cleaner, reader, lastId>>

\* communicate() returns when the worker has ended, or ends it at the timeout.
CollectWorker ==
  /\ pc = "wait" /\ LockFree
  /\ worker \in {"built", "dead", "full"}
  /\ IF worker = "built" /\ stop = "no" THEN Goto("publish") /\ UNCHANGED job
     ELSE Throw(IF worker = "full" /\ stop = "no" THEN "disk" ELSE "failed", "failed")
  /\ worker' = "none" /\ active' = FALSE
  /\ UNCHANGED <<environment, disk, memory, plan, parsing, stop, cleaner, reader, spent, lastId>>

WorkerTimesOut ==
  /\ pc = "wait" /\ LockFree
  /\ worker = "running"
  /\ worker' = "none" /\ active' = FALSE
  /\ Throw("failed", "failed")
  /\ UNCHANGED <<environment, disk, memory, plan, parsing, stop, cleaner, reader, spent, lastId>>

\* os.replace of the cache, after it was validated.
PublishCache ==
  /\ pc = "publish"
  /\ SetCache([caches[job.id] EXCEPT !.ready = TRUE])
  /\ Goto("record")
  /\ UNCHANGED <<environment, snaps, current, memory, plan, job, parsing, worker, active, stop, cleaner,
                 reader, spent, lastId>>

\* Mutant: a row that does not become current leaves none current.
RecordRowAlone(makeCurrent) == current' = IF makeCurrent THEN job.id ELSE NoId

\* record_snapshot_version, one transaction: the row of a success becomes current
\* instead of the one before, the row of a failure does not touch the others.
RecordRow(makeCurrent) == current' = IF makeCurrent THEN job.id ELSE current

RecordSnapshot ==
  /\ pc = "record"
  /\ RecordRow(TRUE)
  /\ Goto("finish")
  /\ UNCHANGED <<environment, snaps, caches, memory, plan, job, parsing, worker, active, stop, cleaner,
                 reader, spent, lastId>>

\* No space, no valid cache, or no database.
ParseFault ==
  /\ pc \in {"launch", "publish", "record"}
  /\ Fault("failed")
  /\ UNCHANGED <<environment, disk, memory, plan, parsing, worker, active, stop, cleaner, reader, lastId>>

\* The result answers the requests that were made before the parse began.
FinishParse ==
  /\ pc = "finish" /\ LockFree
  /\ backoff' = FALSE
  /\ IF generation = job.gen THEN requested' = FALSE /\ lastError' = "none"
     ELSE UNCHANGED <<requested, lastError>>
  /\ parsing' = FALSE
  /\ Goto("tidy")
  /\ UNCHANGED <<environment, disk, lastSeen, pending, generation, plan, job, worker, active, stop,
                 cleaner, reader, spent, lastId>>

DiscardTemporary ==
  UNCHANGED snaps /\ caches' = Without(caches, {job.id} \intersect Temporary(caches))

\* What the failed attempt left is removed, unless it is current by now.
Discard ==
  IF current = job.id
  THEN DiscardTemporary
  ELSE snaps' = Without(snaps, {job.id}) /\ caches' = Without(caches, {job.id})

\* Mutant: the failed attempt counts as seen, and its error is kept to itself.
ParseFailsSilently ==
  /\ pc = "failed" /\ LockFree
  /\ Discard /\ RecordRow(FALSE)
  /\ requested' = FALSE
  /\ parsing' = FALSE
  /\ Goto("poll") /\ job' = NoJob
  /\ UNCHANGED <<environment, lastSeen, pending, backoff, generation, lastError, plan, worker,
                 active, stop, cleaner, reader, spent, lastId>>

\* An error of an attempt that began before a request is not shown.
ParseFails ==
  /\ pc = "failed" /\ LockFree
  /\ Discard /\ RecordRow(FALSE)
  /\ IF generation = job.gen THEN requested' = FALSE /\ lastError' = job.why
     ELSE UNCHANGED <<requested, lastError>>
  /\ IF job.why = "disk" THEN ScheduleRetry(job.print) ELSE UNCHANGED <<pending, backoff>>
  /\ parsing' = FALSE
  /\ Goto("poll") /\ job' = NoJob
  /\ UNCHANGED <<environment, lastSeen, generation, plan, worker, active, stop, cleaner,
                 reader, spent, lastId>>

\* The row of the failed attempt cannot be written either, or the current one not
\* even read: then only the temporary file is removed.
ParseFailsTwice ==
  /\ pc = "failed"
  /\ Fault("caught")
  /\ Discard \/ DiscardTemporary
  /\ parsing' = FALSE
  /\ UNCHANGED <<environment, current, memory, plan, worker, active, stop, cleaner, reader, lastId>>

\* _maybe_cleanup_storage: at most once in cleanup_interval_seconds.
Tidy(floor) ==
  /\ pc = "tidy" /\ LockFree
  /\ \/ CleanStorage(floor) /\ plan' = NoPlan
     \/ UNCHANGED <<snaps, caches, plan>>
  /\ Goto("poll") /\ job' = NoJob
  /\ UNCHANGED <<environment, current, memory, parsing, worker, active, stop, cleaner, reader, spent, lastId>>

-----------------------------------------------------------------------------
(* The life of the console process.                                        *)

\* start(): a cleanup, then the watch thread.
Start(floor) ==
  /\ pc = "off"
  /\ CleanStorage(floor)
  /\ Goto("poll")
  /\ UNCHANGED <<environment, current, memory, plan, job, parsing, worker, active, stop, cleaner,
                 reader, spent, lastId>>

StopIsSet ==
  /\ pc # "off" /\ stop = "no"
  /\ Event
  /\ stop' = "set"
  /\ UNCHANGED <<environment, disk, memory, plan, thread, cleaner, reader>>

\* stop() ends the worker it knows of, and once more after the first join.
StopEndsWorker ==
  /\ stop # "no" /\ LockFree
  /\ stop' = "swept"
  /\ worker' = IF active /\ worker = "running" THEN "dead" ELSE worker
  /\ UNCHANGED <<environment, disk, memory, plan, pc, job, parsing, active, cleaner, reader, spent, lastId>>

WatchEnds ==
  /\ pc = "poll" /\ stop # "no"
  /\ Goto("ended")
  /\ UNCHANGED <<environment, disk, memory, plan, job, parsing, worker, active, stop, cleaner, reader,
                 spent, lastId>>

\* Whatever was in memory is lost; a worker may leave its temporary cache.
EndProcess ==
  /\ caches' \in {caches} \union
                 {[caches EXCEPT ![i] = [snaps[i] EXCEPT !.ready = FALSE]] :
                   i \in {j \in {job.id} \intersect Snapshots : worker = "running"}}
  /\ lastSeen' = NoPrint /\ pending' = NoPrint /\ backoff' = FALSE
  /\ requested' = FALSE /\ generation' = 0 /\ lastError' = "none"
  /\ plan' = NoPlan
  /\ pc' = "off" /\ job' = NoJob /\ parsing' = FALSE /\ worker' = "none" /\ active' = FALSE
  /\ stop' = "no" /\ cleaner' = Idle /\ reader' = NoQuery
  /\ UNCHANGED <<environment, snaps, current, lastId>>

\* The joins of stop() have time limits: the process ends whether or not the
\* thread has.
Exit ==
  /\ stop = "swept"
  /\ EndProcess
  /\ UNCHANGED spent

Crash ==
  /\ pc # "off"
  /\ Event
  /\ EndProcess

-----------------------------------------------------------------------------
Floors == 1..(MaxIds + 1)

Game == WorldVanishes \/ WorldReturns \/ \E part \in {"level", "players"} : GameWrites(part)

Cleaning ==
  \/ \E stuck \in SUBSET Ids : SweepTemporary(stuck)
  \/ \E floor \in Floors, stuck \in SUBSET Ids : SweepUnneeded(floor, stuck)

Cleanup ==
  \E floor \in Floors :
     PreviewCleanup(floor) \/ RefuseCleanup(floor) \/ ConfirmCleanup(floor)

Query == ReadItems \/ NameSnapshot \/ \E asked \in Ids \union {NoId} : BeginQuery(asked)

Watch ==
  \/ Poll \/ SeeChange \/ SeeNothing \/ StartCapture \/ WatchFails
  \/ CopyFails \/ MakeTemporary \/ CopyLevel \/ CopyPlayers \/ Recheck \/ RenameSnapshot
  \/ BeginParse \/ LaunchWorker \/ RememberWorker \/ CollectWorker \/ WorkerTimesOut
  \/ PublishCache \/ RecordSnapshot \/ ParseFault \/ FinishParse \/ ParseFails \/ ParseFailsTwice
  \/ WatchEnds \/ \E floor \in Floors : Tidy(floor)

Work == WorkerBuilds \/ WorkerFails

Restart == \E floor \in Floors : Start(floor)

Next ==
  \/ Game \/ Cleaning \/ Cleanup \/ RequestReparse \/ Query \/ Watch \/ Work
  \/ Restart \/ StopIsSet \/ StopEndsWorker \/ Exit \/ Crash

Spec == Init /\ [][Next]_vars

\* A thread that can go on does, and the world rests long enough now and then.
\* Nothing is assumed of the worker.
Fairness ==
  /\ WF_vars(Watch) /\ SF_vars(StartCapture)
  /\ WF_vars(Cleaning) /\ WF_vars(StopEndsWorker) /\ WF_vars(Exit) /\ WF_vars(Restart)

FairSpec == Spec /\ Fairness

-----------------------------------------------------------------------------
(* Properties.                                                             *)

\* Every variable keeps the type its code gives it.
TypeOK ==
  /\ world \in Prints /\ readable \in BOOLEAN /\ seen \subseteq Prints
  /\ snaps \in [Ids -> Copies \union {NoFile}]
  /\ caches \in [Ids -> Copies \union {NoFile}]
  /\ current \in Ids \union {NoId}
  /\ {lastSeen, pending} \subseteq Prints \union {NoPrint}
  /\ {backoff, parsing, requested, active} \subseteq BOOLEAN
  /\ generation \in Nat
  /\ lastError \in {"none", "disk", "failed"}
  /\ plan = NoPlan \/ plan \subseteq Entries
  /\ pc \in Points
  /\ job \in [id : Ids \union {NoId}, print : Prints \union {NoPrint}, gen : Nat,
              why : {"none", "disk", "failed"}]
  /\ worker \in {"none", "running", "built", "dead", "full"}
  /\ stop \in {"no", "set", "swept"}
  /\ cleaner \in [step : {"idle", "temporary", "unneeded"}, plan : SUBSET Entries]
  /\ reader \in [step : {"idle", "items", "status"}, asked : Ids \union {NoId},
                row : Ids \union {NoId}, items : Ids \union {NoId}, named : Ids \union {NoId}]
  /\ {lastId, spent} \subseteq Nat

\* The cache that the database calls current is on disk under its final name,
\* whatever was cleaned up, failed or crashed since it was published.
CurrentIsReadable == current # NoId => IsReady(caches[current])

\* A published cache shows one state that the world really had, although its
\* parts are copied one after the other while the game writes.
PublishedIsWhole ==
  \A i \in Caches : [level |-> caches[i].level, players |-> caches[i].players] \in seen

\* While status() says that a requested parse is under way, the watch thread
\* will come to it: the fingerprint was forgotten or waits to rest, or a capture
\* is under way that will settle the request.
RequestedReparseIsPending ==
  requested => \/ lastSeen = NoPrint \/ pending # NoPrint
               \/ pc \notin {"off", "poll", "decide", "ended"}

\* stop() races the start of the worker: once it has ended the worker it knew
\* of, the watch thread waits for none that still runs.
NoWorkerOutlivesStop == stop = "swept" /\ pc = "wait" => worker # "running"

\* An answer is from one snapshot, the one that was asked for: its items and
\* the id it names, although another snapshot may have become current between
\* the two reads.
AnswersAreOneSnapshot ==
  reader.step = "idle" /\ reader.items # NoId =>
     /\ reader.named = reader.items
     /\ reader.asked \in {NoId, reader.named}

\* A current snapshot is only ever replaced by a later state of the world: no
\* failure, cleanup or restart takes it away or goes back to an older one.
CurrentNeverRegresses ==
  [][current # NoId /\ current' # current =>
       /\ current' # NoId
       /\ caches'[current'].level >= caches[current].level
       /\ caches'[current'].players >= caches[current].players]_vars

\* "stale" in the answer of _status_for_snapshot.
Stale == lastError # "none" \/ current = NoId \/ ~IsReady(caches[current])

Fresh ==
  /\ current # NoId
  /\ caches[current].level = world.level /\ caches[current].players = world.players

\* The world pages do not go on showing an old state as if it were the present
\* one: in the end they show the world as it is, or status() calls them stale.
NeverSilentlyStale == []<>(Fresh \/ Stale)

\* A snapshot that found the disk full is tried again without being asked.
DiskFullIsRetried == lastError = "disk" ~> lastError # "disk"

=============================================================================
