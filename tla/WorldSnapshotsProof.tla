------------------------ MODULE WorldSnapshotsProof ------------------------
(***************************************************************************)
(* What the snapshot service keeps whatever the game, the cleanups, the     *)
(* requests and the faults do, for any number of them.  The invariant has   *)
(* one part per concern; each part is carried over a step from itself and   *)
(* the parts before it.                                                     *)
(***************************************************************************)
EXTENDS WorldSnapshots, TLAPS

ParsePoints == {"launch", "remember", "wait", "publish", "record", "finish", "failed"}
CapturePoints == {"level", "players", "recheck", "rename", "begin", "launch", "remember", "wait",
"publish",
                  "record"}
PrintPoints == CapturePoints \union {"decide", "capture"}

(* The game has written at most as often as there were events. *)
WritesAreEvents == world.level <= spent /\ world.players <= spent /\ spent <= MaxEvents
Worlds ==
  /\ world \in Prints /\ readable \in BOOLEAN /\ seen \subseteq Prints /\ spent \in Nat
  /\ WritesAreEvents /\ world \in seen

(* A capture has an id from its first file on, and a fingerprint before that. *)
Jobs == [id : Ids \union {NoId}, print : Prints \union {NoPrint}, gen : Nat, why : {"none", "disk",
"failed"}]
Numbers == lastId \in Nat /\ lastId <= MaxIds /\ generation \in Nat
JobNumbered == pc \in CapturePoints => job.id \in Ids /\ job.id <= lastId
JobPrinted == pc \in PrintPoints => job.print \in Prints
Captures == pc \in Points /\ job \in Jobs /\ Numbers /\ JobNumbered /\ JobPrinted

Known == current \in Ids \union {NoId}
Memory ==
  /\ lastSeen \in Prints \union {NoPrint} /\ pending \in Prints \union {NoPrint}
  /\ {backoff, parsing, requested, active} \subseteq BOOLEAN
  /\ lastError \in {"none", "disk", "failed"}
  /\ worker \in {"none", "running", "built", "dead", "full"}
  /\ stop \in {"no", "set", "swept"}
  /\ Known

(* A cleanup and a parse keep each other out; a worker runs only in a parse,  *)
(* and while the thread waits for it stop() knows of it.                      *)
ParseKeepsOut == pc \in ParsePoints => parsing
CleanupKeepsOut == parsing => LockFree
WorkerInParse == worker # "none" => pc \in {"remember", "wait"}
WorkerIsKnown == pc = "wait" => active
Workers == ParseKeepsOut /\ CleanupKeepsOut /\ WorkerInParse /\ WorkerIsKnown /\ NoWorkerOutlivesStop

(* A query goes on with the row it began with. *)
QueryKeepsRow ==
  /\ reader.step # "idle" => reader.asked \in {NoId, reader.row}
  /\ reader.step = "status" => reader.items = reader.row
  /\ reader.step = "items" => reader.items = NoId
Readers == [step : {"idle", "items", "status"}, asked : Ids \union {NoId},
            row : Ids \union {NoId}, items : Ids \union {NoId}, named : Ids \union {NoId}]
Queries == reader \in Readers /\ QueryKeepsRow /\ AnswersAreOneSnapshot

(* A request that came during a parse has made the fingerprint forgotten. *)
RequestForgets ==
  /\ pc \in ParsePoints /\ generation # job.gen => lastSeen = NoPrint
  /\ pc = "tidy" /\ requested => lastSeen = NoPrint
Requests == RequestForgets /\ RequestedReparseIsPending

(* The cache that was built is there until it is made current. *)
Files == [Ids -> Copies \union {NoFile}]
Stores == snaps \in Files /\ caches \in Files
CacheIsBuilt ==
  /\ worker = "built" \/ pc = "publish" => IsTemp(caches[job.id])
  /\ pc = "record" => IsReady(caches[job.id])
Storage == Stores /\ CacheIsBuilt

Cleaners == [step : {"idle", "temporary", "unneeded"}, plan : SUBSET Entries]
Plans == (plan = NoPlan \/ plan \subseteq Entries) /\ cleaner \in Cleaners

(* A capture does not work on what is current. *)
JobIsNew == pc \in CapturePoints => job.id # current
CurrentIsOld == current # NoId => current <= lastId
Publication == CurrentIsReadable /\ JobIsNew /\ CurrentIsOld

(* The capture is for a fingerprint of the past.  Its copy is not older than  *)
(* that, and after the second look at the source it is not newer.             *)
AtMost(lower, upper) == lower.level <= upper.level /\ lower.players <= upper.players
PrintIsPast == pc \in PrintPoints => job.print \in seen /\ AtMost(job.print, world)
CopyIsTemp == pc \in {"level", "players", "recheck", "rename"} => ~IsReady(snaps[job.id])
LevelInTime ==
  pc \in {"players", "recheck"} /\ IsTemp(snaps[job.id]) /\ snaps[job.id].level # Absent =>
    job.print.level <= snaps[job.id].level /\ snaps[job.id].level <= world.level
PlayersInTime ==
  pc = "recheck" /\ IsTemp(snaps[job.id]) =>
    /\ snaps[job.id].players # Absent
    /\ job.print.players <= snaps[job.id].players /\ snaps[job.id].players <= world.players
CopyIsPrint ==
  pc \in {"rename", "begin", "launch", "remember", "wait"} /\ snaps[job.id] # NoFile =>
    /\ snaps[job.id].level \in {Absent, job.print.level}
    /\ snaps[job.id].players = job.print.players
Copying == PrintIsPast /\ CopyIsTemp /\ LevelInTime /\ PlayersInTime /\ CopyIsPrint

(* The cache shows the fingerprint, and the current one is from before. *)
Shows(file, print) == file.level = print.level /\ file.players = print.players
CacheIsPrint == worker = "built" \/ pc \in {"publish", "record"} => Shows(caches[job.id], job.print)
CurrentIsPast ==
  current # NoId =>
    /\ AtMost(caches[current], world)
    /\ pc \in PrintPoints => AtMost(caches[current], job.print)
Contents == CacheIsPrint /\ PublishedIsWhole /\ CurrentIsPast

Inv ==
  /\ Worlds /\ Captures /\ Memory /\ Workers /\ Queries /\ Requests
  /\ Storage /\ Plans /\ Publication /\ Copying /\ Contents

-----------------------------------------------------------------------------
(* The fields of a job. *)
LEMMA JobFields ==
  ASSUME NEW j \in Jobs
  PROVE  /\ j.id \in Ids \union {NoId} /\ j.print \in Prints \union {NoPrint} /\ j.gen \in Nat
         /\ j.why \in {"none", "disk", "failed"}
  BY DEF Jobs

(* One field of a job changes and the others stay. *)
LEMMA JobPuts ==
  ASSUME NEW j \in Jobs
  PROVE  /\ \A w \in {"disk", "failed"} : LET k == [j EXCEPT !.why = w] IN
              k \in Jobs /\ k.id = j.id /\ k.print = j.print /\ k.gen = j.gen /\ k.why = w
         /\ \A i \in Ids : LET k == [j EXCEPT !.id = i] IN
              k \in Jobs /\ k.id = i /\ k.print = j.print /\ k.gen = j.gen /\ k.why = j.why
         /\ \A g \in Nat : LET k == [j EXCEPT !.gen = g] IN
              k \in Jobs /\ k.id = j.id /\ k.print = j.print /\ k.gen = g /\ k.why = j.why
  BY DEF Jobs

(* A failure keeps the job, and its handler is next. *)
LEMMA ThrowKeeps ==
  ASSUME job \in Jobs, NEW handler, NEW why \in {"disk", "failed"}, Throw(why, handler)
  PROVE  job' \in Jobs /\ job'.id = job.id /\ job'.print = job.print /\ job'.gen = job.gen /\ pc' = handler
  BY JobPuts DEF Throw

(* So does one that strikes from outside. *)
LEMMA FaultKeeps ==
  ASSUME job \in Jobs, NEW handler, Fault(handler)
  PROVE  job' \in Jobs /\ job'.id = job.id /\ job'.print = job.print /\ job'.gen = job.gen /\ pc' = handler
  BY ThrowKeeps DEF Fault

(* The job with which a round of the watch thread begins. *)
LEMMA JobStarts ==
  /\ NoJob \in Jobs
  /\ \A w \in {"disk", "failed"} : [NoJob EXCEPT !.why = w] \in Jobs
  /\ \A p \in Prints : [NoJob EXCEPT !.print = p] \in Jobs /\ [NoJob EXCEPT !.print = p].print = p
  BY DEF NoJob, Jobs

(* A store with one file replaced. *)
LEMMA PutFile ==
  ASSUME NEW store \in Files, NEW i, NEW f \in Copies \union {NoFile}
  PROVE  [store EXCEPT ![i] = f] \in Files
  BY DEF Files

(* Only that file differs. *)
LEMMA PutAt ==
  ASSUME NEW store \in Files, NEW i \in Ids, NEW f
  PROVE  /\ [store EXCEPT ![i] = f][i] = f
         /\ \A j \in Ids : j # i => [store EXCEPT ![i] = f][j] = store[j]
  BY DEF Files

(* A store with some files removed. *)
LEMMA WithoutIsFiles ==
  ASSUME NEW store \in Files, NEW ids
  PROVE  /\ Without(store, ids) \in Files
         /\ \A i \in Ids : Without(store, ids)[i] = IF i \in ids THEN NoFile ELSE store[i]
  BY DEF Files, Without

(* One part of a copy changes and the others stay. *)
LEMMA CopyPuts ==
  ASSUME NEW f \in Copies
  PROVE  /\ f # NoFile /\ f.ready \in BOOLEAN
         /\ f.level \in Versions \union {Absent} /\ f.players \in Versions \union {Absent}
         /\ \A r \in BOOLEAN : LET g == [f EXCEPT !.ready = r] IN
              g \in Copies /\ g.ready = r /\ g.level = f.level /\ g.players = f.players
         /\ \A v \in Versions : LET g == [f EXCEPT !.level = v] IN
              g \in Copies /\ g.ready = f.ready /\ g.level = v /\ g.players = f.players
         /\ \A v \in Versions : LET g == [f EXCEPT !.players = v] IN
              g \in Copies /\ g.ready = f.ready /\ g.level = f.level /\ g.players = v
  BY SentinelsAreFresh DEF Copies

(* What is on disk is a copy. *)
LEMMA FileIsCopy ==
  ASSUME NEW store \in Files, NEW i \in Ids, store[i] # NoFile
  PROVE  store[i] \in Copies
  BY DEF Files

(* The copies that a capture begins with. *)
LEMMA NewCopies ==
  ASSUME Worlds
  PROVE  /\ [ready |-> FALSE, level |-> Absent, players |-> Absent] \in Copies
         /\ [ready |-> FALSE, level |-> Absent, players |-> world.players] \in Copies
         /\ world.level \in Versions /\ world.players \in Versions
  BY DEF Worlds, Prints, Copies

(* What a worker leaves when its console ends is a temporary cache. *)
LEMMA EndIsStored ==
  ASSUME Stores, EndProcess
  PROVE  /\ Stores'
         /\ \A i \in Ids : caches'[i] # caches[i] => i = job.id /\ worker = "running" /\ IsTemp(caches'[i])
  <1>0. snaps' = snaps
    BY DEF EndProcess
  <1>1. CASE caches' = caches
    BY <1>0, <1>1 DEF Stores
  <1>2. CASE caches' # caches
    <2>1. PICK i \in {job.id} \intersect Snapshots :
            worker = "running" /\ caches' = [caches EXCEPT ![i] = [snaps[i] EXCEPT !.ready = FALSE]]
      BY <1>2 DEF EndProcess
    <2> DEFINE left == [snaps[i] EXCEPT !.ready = FALSE]
    <2>2. i = job.id /\ i \in Ids /\ snaps[i] # NoFile
      BY <2>1 DEF Snapshots, IsReady
    <2>3. left \in Copies /\ left.ready = FALSE /\ left # NoFile
      BY <2>2, FileIsCopy, CopyPuts DEF Stores
    <2>4. caches' = [caches EXCEPT ![i] = left]
      BY <2>1
    <2> HIDE DEF left
    <2>5. caches' \in Files /\ snaps' \in Files
      BY <1>0, <2>3, <2>4, PutFile DEF Stores
    <2>6. caches'[i] = left /\ \A j \in Ids : j # i => caches'[j] = caches[j]
      BY <2>2, <2>4, PutAt DEF Stores
    <2>7. IsTemp(caches'[i])
      BY <2>3, <2>6 DEF IsTemp
    <2> QED BY <2>1, <2>2, <2>5, <2>6, <2>7 DEF Stores
  <1> QED BY <1>1, <1>2

(* No cleanup has the current cache among what it removes. *)
LEMMA CleanupSparesCurrent ==
  ASSUME Stores, current \in Ids, IsReady(caches[current]), NEW floor
  PROVE  current \notin Temporary(caches) \union OrphanCaches \union Expired(floor)
  BY DEF Temporary, OrphanCaches, Expired, IsTemp, IsReady

(* What is not removed stays. *)
LEMMA CacheStays ==
  ASSUME Stores, NEW ids, caches' = Without(caches, ids), current \in Ids, current \notin ids
  PROVE  caches'[current] = caches[current]
  BY WithoutIsFiles DEF Stores

(* The candidates of a cleanup are entries. *)
LEMMA CandidatesTyped == ASSUME Stores, NEW floor PROVE Candidates(floor) \subseteq Entries
  <1>1. \A i \in Temporary(snaps) \union OrphanSnapshots \union Expired(floor) : i \in Ids /\ snaps[i] \in Copies
    BY FileIsCopy DEF Stores, Temporary, OrphanSnapshots, Expired, Snapshots, IsTemp, IsReady
  <1>2. \A i \in Temporary(caches) \union OrphanCaches \union Expired(floor) : i \in Ids /\ caches[i] \in Copies
    BY FileIsCopy DEF Stores, Temporary, OrphanCaches, Expired, Caches, IsTemp, IsReady
  <1>3. ASSUME NEW kind \in Kinds, NEW ids, \A i \in ids : i \in Ids /\ snaps[i] \in Copies
        PROVE  EntriesOf(kind, snaps, "snapshots", ids) \subseteq Entries
    BY <1>3 DEF EntriesOf, Entries
  <1>4. ASSUME NEW kind \in Kinds, NEW ids, \A i \in ids : i \in Ids /\ caches[i] \in Copies
        PROVE  EntriesOf(kind, caches, "cache", ids) \subseteq Entries
    BY <1>4 DEF EntriesOf, Entries
  <1>5. /\ EntriesOf("temporary", snaps, "snapshots", Temporary(snaps)) \subseteq Entries
        /\ EntriesOf("orphan", snaps, "snapshots", OrphanSnapshots) \subseteq Entries
        /\ EntriesOf("retention", snaps, "snapshots", Expired(floor)) \subseteq Entries
    BY <1>1, <1>3 DEF Kinds
  <1>6. /\ EntriesOf("temporary", caches, "cache", Temporary(caches)) \subseteq Entries
        /\ EntriesOf("orphan", caches, "cache", OrphanCaches) \subseteq Entries
        /\ EntriesOf("retention", caches, "cache", Expired(floor)) \subseteq Entries
    BY <1>2, <1>4 DEF Kinds
  <1> QED BY <1>5, <1>6 DEF Candidates

(* The steps of a confirmed cleanup. *)
LEMMA CleanerPuts ==
  /\ Idle \in Cleaners
  /\ \A c \in Cleaners : [c EXCEPT !.step = "unneeded"] \in Cleaners
  /\ \A p \in SUBSET Entries : [step |-> "temporary", plan |-> p] \in Cleaners
  BY DEF Idle, Cleaners

(* Versions are numbers. *)
LEMMA WorldNumbers ==
  ASSUME Worlds
  PROVE  world.level \in Nat /\ world.players \in Nat /\ world \in seen /\ Absent \notin Versions
         /\ world.level \in Versions /\ world.players \in Versions
         /\ \A p \in Prints : p.level \in Nat /\ p.players \in Nat
  BY SentinelsAreFresh, BoundsAreNat DEF Worlds, Prints, Versions

(* So are those of a copy. *)
LEMMA CopyNumbers ==
  ASSUME Stores, NEW i \in Ids, snaps[i] # NoFile
  PROVE  /\ snaps[i].ready \in BOOLEAN
         /\ snaps[i].level # Absent => snaps[i].level \in Nat
         /\ snaps[i].players # Absent => snaps[i].players \in Nat
  BY FileIsCopy, CopyPuts, BoundsAreNat DEF Stores, Versions

(* What is not on disk is neither temporary nor ready. *)
LEMMA TempIsFile == ~IsTemp(NoFile) /\ ~IsReady(NoFile)
  BY DEF IsTemp, IsReady

(* Files that are not removed keep their contents. *)
LEMMA WithoutKeeps ==
  ASSUME NEW store \in Files, NEW ids, NEW i \in Ids
  PROVE  Without(store, ids)[i] \in {NoFile, store[i]}
  BY WithoutIsFiles

-----------------------------------------------------------------------------
(* The game may only write, and every write is an event. *)
LEMMA WorldsStep ==
  ASSUME Worlds, [Next]_vars
  PROVE  Worlds'
  <1> USE BoundsAreNat DEF Worlds, WritesAreEvents, Prints, Versions, Event, Goto, LockFree, disk,
  memory, environment,
          thread
  <1>1. CASE UNCHANGED <<world, readable, seen, spent>>
    BY <1>1
  <1>2. CASE Restart \/ StopEndsWorker \/ (\E floor \in Floors : RefuseCleanup(floor))
             \/ (\E floor \in Floors : ConfirmCleanup(floor)) \/ ReadItems \/ NameSnapshot
             \/ Poll \/ SeeChange \/ SeeNothing \/ StartCapture \/ WatchFails
             \/ MakeTemporary \/ CopyLevel \/ CopyPlayers \/ Recheck \/ RenameSnapshot
             \/ BeginParse \/ LaunchWorker \/ RememberWorker \/ CollectWorker
             \/ WorkerTimesOut \/ PublishCache \/ RecordSnapshot \/ FinishParse \/ ParseFails
             \/ WatchEnds \/ (\E floor \in Floors : Tidy(floor)) \/ WorkerBuilds
    <2>1. UNCHANGED <<world, readable, seen, spent>>
      <3>1. CASE (\E floor \in Floors : RefuseCleanup(floor))
                 \/ (\E floor \in Floors : ConfirmCleanup(floor))
        BY <3>1 DEF RefuseCleanup, ConfirmCleanup
      <3>2. CASE ReadItems \/ NameSnapshot
        BY <3>2 DEF ReadItems, NameSnapshot
      <3>3. CASE Poll \/ SeeChange \/ SeeNothing \/ StartCapture \/ WatchFails
                 \/ MakeTemporary \/ CopyLevel \/ CopyPlayers
        BY <3>3 DEF Poll, SeeChange, SeeNothing, StartCapture, WatchFails, MakeTemporary,
            CopyLevel, CopyPlayers
      <3>4. CASE Recheck \/ RenameSnapshot \/ BeginParse \/ LaunchWorker \/ RememberWorker
                 \/ CollectWorker \/ WorkerTimesOut \/ PublishCache
        BY <3>4 DEF Recheck, RenameSnapshot, BeginParse, LaunchWorker, RememberWorker,
            CollectWorker, WorkerTimesOut, PublishCache
      <3>5. CASE RecordSnapshot \/ FinishParse \/ ParseFails \/ WatchEnds
                 \/ (\E floor \in Floors : Tidy(floor))
        BY <3>5 DEF RecordSnapshot, FinishParse, ParseFails, WatchEnds, Tidy
      <3>6. CASE WorkerBuilds
        BY <3>6 DEF WorkerBuilds
      <3>7. CASE Restart
        BY <3>7 DEF Start, Restart
      <3>8. CASE StopEndsWorker
        BY <3>8 DEF StopEndsWorker
      <3> QED BY <1>2, <3>1, <3>2, <3>3, <3>4, <3>5, <3>6, <3>7, <3>8
    <2> QED BY <1>1, <2>1
  <1>3. CASE WorldVanishes
    <2>1. world' = world /\ seen' = seen /\ spent' = spent + 1 /\ spent < MaxEvents /\ readable' = FALSE
      BY <1>3 DEF WorldVanishes
    <2>2. WritesAreEvents'
      BY <2>1
    <2>3. readable' \in BOOLEAN
      BY <2>1
    <2>4. spent' \in Nat /\ world' \in Prints /\ seen' \subseteq Prints /\ world' \in seen'
      BY <2>1
    <2> QED BY <2>2, <2>3, <2>4
  <1>4. CASE WorldReturns
    BY <1>4 DEF WorldReturns
  <1>5. ASSUME NEW part \in {"level", "players"}, GameWrites(part) PROVE Worlds'
    <2>1. world.level \in Nat /\ world.players \in Nat
      OBVIOUS
    <2>2. CASE part = "level"
      <3>1. world'.level = world.level + 1 /\ world'.players = world.players
        BY <1>5, <2>2 DEF GameWrites
      <3>2. world' \in Prints
        BY <1>5, <2>1, <2>2, <3>1 DEF GameWrites
      <3> QED BY <1>5, <2>1, <3>1, <3>2 DEF GameWrites
    <2>3. CASE part = "players"
      <3>1. world'.players = world.players + 1 /\ world'.level = world.level
        BY <1>5, <2>3 DEF GameWrites
      <3>2. world' \in Prints
        BY <1>5, <2>1, <2>3, <3>1 DEF GameWrites
      <3> QED BY <1>5, <2>1, <3>1, <3>2 DEF GameWrites
    <2> QED BY <1>5, <2>2, <2>3
  <1>6. ASSUME NEW stuck \in SUBSET Ids, SweepTemporary(stuck) PROVE Worlds'
    BY <1>6 DEF SweepTemporary, RemoveTemporary
  <1>7. ASSUME NEW floor \in Floors, NEW stuck \in SUBSET Ids, SweepUnneeded(floor, stuck) PROVE Worlds'
    BY <1>7 DEF SweepUnneeded, RemoveUnneeded
  <1>8. ASSUME NEW floor \in Floors, PreviewCleanup(floor) PROVE Worlds'
    BY <1>8 DEF PreviewCleanup
  <1>9. CASE RequestReparse
    BY <1>9 DEF RequestReparse
  <1>10. ASSUME NEW asked \in Ids \union {NoId}, BeginQuery(asked) PROVE Worlds'
    BY <1>10 DEF BeginQuery, NoQuery
  <1>11. CASE CopyFails
    BY <1>11 DEF CopyFails, Fault, Throw
  <1>12. CASE ParseFault
    BY <1>12 DEF ParseFault, Fault, Throw
  <1>13. CASE ParseFailsTwice
    BY <1>13 DEF ParseFailsTwice, Discard, DiscardTemporary, Fault, Throw
  <1>14. CASE WorkerFails
    BY <1>14 DEF WorkerFails, Parsable
  <1>15. CASE StopIsSet
    BY <1>15 DEF StopIsSet
  <1>16. CASE Exit
    BY <1>16 DEF Exit, EndProcess, NoJob, NoQuery, Idle
  <1>17. CASE Crash
    BY <1>17 DEF Crash, EndProcess, NoJob, NoQuery, Idle
  <1>18. CASE UNCHANGED vars
    BY <1>18, <1>1 DEF vars
  <1> QED BY <1>2, <1>3, <1>4, <1>5, <1>6, <1>7, <1>8, <1>9, <1>10, <1>11, <1>12, <1>13, <1>14,
        <1>15, <1>16, <1>17, <1>18 DEF Next, Game, Cleaning, Cleanup, Query, Watch, Work, Restart

(* Where the watch thread is, and with which job. *)
LEMMA CapturesStep ==
  ASSUME Worlds, Captures, [Next]_vars
  PROVE  Captures'
  <1> USE DEF Captures, Numbers, JobNumbered, JobPrinted, CapturePoints, PrintPoints, Points,
        Event, Goto, LockFree, disk, memory, environment, thread
  <1>1. CASE UNCHANGED <<pc, job, lastId, generation>>
    BY <1>1
  <1>2. CASE Game \/ Cleaning \/ Cleanup \/ Query \/ Work \/ StopIsSet \/ StopEndsWorker
    <2>1. UNCHANGED <<pc, job, lastId, generation>>
      <3>1. CASE Game
        BY <3>1 DEF WorldVanishes, WorldReturns, GameWrites, Game
      <3>2. CASE Cleaning
        BY <3>2 DEF SweepTemporary, SweepUnneeded, Cleaning
      <3>3. CASE Cleanup
        BY <3>3 DEF PreviewCleanup, RefuseCleanup, ConfirmCleanup, Cleanup
      <3>4. CASE Query
        BY <3>4 DEF ReadItems, NameSnapshot, BeginQuery, Query
      <3>5. CASE Work
        BY <3>5 DEF WorkerBuilds, WorkerFails, Work
      <3>6. CASE StopIsSet \/ StopEndsWorker
        BY <3>6 DEF StopIsSet, StopEndsWorker
      <3> QED BY <1>2, <3>1, <3>2, <3>3, <3>4, <3>5, <3>6
    <2> QED BY <1>1, <2>1
  <1>3. CASE RequestReparse
    BY <1>3 DEF RequestReparse
  <1>4. CASE Poll
    <2>1. job' \in Jobs /\ (pc' = "decide" => job'.print \in Prints)
      BY <1>4, JobStarts DEF Poll, Worlds
    <2> QED BY <1>4, <2>1 DEF Poll
  <1>5. CASE SeeChange
    BY <1>5 DEF SeeChange
  <1>6. CASE SeeNothing
    BY <1>6 DEF SeeNothing
  <1>7. CASE StartCapture
    BY <1>7 DEF StartCapture
  <1>8. CASE WatchFails
    <2>1. job' = NoJob
      BY <1>8 DEF WatchFails
    <2> QED BY <1>8, <2>1, JobStarts DEF WatchFails
  <1>9. CASE CopyFails
    <2>1. Fault("caught")
      BY <1>9 DEF CopyFails
    <2> QED BY <1>9, <2>1, FaultKeeps, SMT DEF CopyFails
  <1>10. CASE MakeTemporary
    <2>1. lastId' \in Ids /\ lastId' = lastId + 1
      BY <1>10, BoundsAreNat DEF MakeTemporary, Ids
    <2>2. job' \in Jobs /\ job'.id = lastId' /\ job'.print = job.print
      BY <1>10, <2>1, JobPuts DEF MakeTemporary
    <2> QED BY <1>10, <2>1, <2>2, BoundsAreNat DEF MakeTemporary, Ids
  <1>11. CASE CopyLevel
    <2>1. CASE job' = job
      BY <1>11, <2>1, SMT DEF CopyLevel, Throw
    <2>2. CASE job' # job
      <3>1. Throw("failed", "caught")
        BY <1>11, <2>2 DEF CopyLevel
      <3> QED BY <1>11, <3>1, ThrowKeeps, SMT DEF CopyLevel
    <2> QED BY <2>1, <2>2
  <1>12. CASE CopyPlayers
    <2>1. CASE job' = job
      BY <1>12, <2>1, SMT DEF CopyPlayers, Throw
    <2>2. CASE job' # job
      <3>1. Throw("failed", "caught")
        BY <1>12, <2>2 DEF CopyPlayers
      <3> QED BY <1>12, <3>1, ThrowKeeps, SMT DEF CopyPlayers
    <2> QED BY <2>1, <2>2
  <1>13. CASE Recheck
    <2>1. CASE job' = job
      BY <1>13, <2>1, SMT DEF Recheck, Throw
    <2>2. CASE job' # job
      <3>1. Throw("failed", "caught")
        BY <1>13, <2>2 DEF Recheck
      <3> QED BY <1>13, <3>1, ThrowKeeps, SMT DEF Recheck
    <2> QED BY <2>1, <2>2
  <1>14. CASE RenameSnapshot
    <2>1. CASE job' = job
      BY <1>14, <2>1, SMT DEF RenameSnapshot, Throw
    <2>2. CASE job' # job
      <3>1. Throw("failed", "caught")
        BY <1>14, <2>2 DEF RenameSnapshot
      <3> QED BY <1>14, <3>1, ThrowKeeps, SMT DEF RenameSnapshot
    <2> QED BY <2>1, <2>2
  <1>15. CASE BeginParse
    <2>1. job' \in Jobs /\ job'.id = job.id /\ job'.print = job.print
      BY <1>15, JobPuts DEF BeginParse
    <2> QED BY <1>15, <2>1 DEF BeginParse
  <1>16. CASE LaunchWorker
    <2>1. CASE job' = job
      BY <1>16, <2>1, SMT DEF LaunchWorker, Throw
    <2>2. CASE job' # job
      <3>1. Throw("failed", "failed")
        BY <1>16, <2>2 DEF LaunchWorker
      <3> QED BY <1>16, <3>1, ThrowKeeps, SMT DEF LaunchWorker
    <2> QED BY <2>1, <2>2
  <1>17. CASE RememberWorker
    BY <1>17 DEF RememberWorker
  <1>18. CASE CollectWorker
    <2>1. CASE job' = job
      BY <1>18, <2>1, SMT DEF CollectWorker, Throw
    <2>2. CASE job' # job
      <3>1. \E why \in {"disk", "failed"} : Throw(why, "failed")
        BY <1>18, <2>2 DEF CollectWorker
      <3> QED BY <1>18, <3>1, ThrowKeeps, SMT DEF CollectWorker
    <2> QED BY <2>1, <2>2
  <1>19. CASE WorkerTimesOut
    <2>1. Throw("failed", "failed")
      BY <1>19 DEF WorkerTimesOut
    <2> QED BY <1>19, <2>1, ThrowKeeps, SMT DEF WorkerTimesOut
  <1>20. CASE PublishCache
    BY <1>20 DEF PublishCache, SetCache
  <1>21. CASE RecordSnapshot
    BY <1>21 DEF RecordSnapshot, RecordRow
  <1>22. CASE ParseFault
    <2>1. Fault("failed")
      BY <1>22 DEF ParseFault
    <2> QED BY <1>22, <2>1, FaultKeeps, SMT DEF ParseFault
  <1>23. CASE FinishParse
    BY <1>23 DEF FinishParse
  <1>24. CASE ParseFails
    <2>1. job' = NoJob
      BY <1>24 DEF ParseFails
    <2> QED BY <1>24, <2>1, JobStarts DEF ParseFails
  <1>25. CASE ParseFailsTwice
    <2>1. Fault("caught")
      BY <1>25 DEF ParseFailsTwice
    <2> QED BY <1>25, <2>1, FaultKeeps, SMT DEF ParseFailsTwice
  <1>26. CASE WatchEnds
    BY <1>26 DEF WatchEnds
  <1>27. ASSUME NEW floor \in Floors, Tidy(floor) PROVE Captures'
    <2>1. job' = NoJob
      BY <1>27 DEF Tidy
    <2> QED BY <1>27, <2>1, JobStarts DEF Tidy
  <1>28. ASSUME NEW floor \in Floors, Start(floor) PROVE Captures'
    BY <1>28 DEF Start, CleanStorage
  <1>29. CASE Exit
    <2>1. job' = NoJob
      BY <1>29 DEF Exit, EndProcess
    <2> QED BY <1>29, <2>1, JobStarts DEF Exit, EndProcess
  <1>30. CASE Crash
    <2>1. job' = NoJob
      BY <1>30 DEF Crash, EndProcess
    <2> QED BY <1>30, <2>1, JobStarts DEF Crash, EndProcess
  <1>31. CASE UNCHANGED vars
    BY <1>31, <1>1 DEF vars
  <1> QED BY <1>2, <1>3, <1>4, <1>5, <1>6, <1>7, <1>8, <1>9, <1>10, <1>11, <1>12, <1>13, <1>14,
        <1>15, <1>16, <1>17, <1>18, <1>19, <1>20, <1>21, <1>22, <1>23, <1>24, <1>25, <1>26, <1>27,
        <1>28, <1>29, <1>30, <1>31 DEF Next, Game, Cleaning, Cleanup, Query, Watch, Work, Restart

(* What is kept in memory, the worker, and the current row. *)
LEMMA MemoryStep ==
  ASSUME Captures, Memory, [Next]_vars
  PROVE  Memory'
  <1> USE JobFields DEF Memory, Known, Captures, JobNumbered, CapturePoints, JobPrinted, PrintPoints,
  Event, Goto, LockFree,
          disk, memory, environment, thread
  <1>1. CASE UNCHANGED <<lastSeen, pending, backoff, parsing, requested, active, lastError, worker,
  stop, current>>
    BY <1>1
  <1>2. CASE Game \/ Cleaning \/ Cleanup \/ Query \/ Restart \/ Poll \/ SeeNothing
             \/ CopyFails \/ MakeTemporary \/ CopyLevel \/ CopyPlayers \/ Recheck
             \/ RenameSnapshot \/ PublishCache \/ ParseFault \/ WatchEnds
             \/ (\E floor \in Floors : Tidy(floor))
    <2>1. UNCHANGED <<lastSeen, pending, backoff, parsing, requested, active, lastError, worker, stop,
    current>>
      <3>1. CASE Game
        BY <3>1 DEF WorldVanishes, WorldReturns, GameWrites, Game
      <3>2. CASE Cleaning
        BY <3>2 DEF SweepTemporary, SweepUnneeded, Cleaning
      <3>3. CASE Cleanup
        BY <3>3 DEF PreviewCleanup, RefuseCleanup, ConfirmCleanup, Cleanup
      <3>4. CASE Query
        BY <3>4 DEF ReadItems, NameSnapshot, BeginQuery, Query
      <3>5. CASE Poll \/ SeeNothing \/ CopyFails \/ MakeTemporary \/ CopyLevel
                 \/ CopyPlayers \/ Recheck \/ RenameSnapshot
        BY <3>5 DEF Poll, SeeNothing, CopyFails, MakeTemporary, CopyLevel, CopyPlayers, Recheck,
            RenameSnapshot
      <3>6. CASE PublishCache \/ ParseFault \/ WatchEnds \/ (\E floor \in Floors : Tidy(floor))
        BY <3>6 DEF PublishCache, ParseFault, WatchEnds, Tidy
      <3>7. CASE Restart
        BY <3>7 DEF Start, Restart
      <3> QED BY <1>2, <3>1, <3>2, <3>3, <3>4, <3>5, <3>6, <3>7
    <2> QED BY <1>1, <2>1
  <1>3. CASE RequestReparse
    BY <1>3 DEF RequestReparse
  <1>4. CASE SeeChange
    BY <1>4 DEF SeeChange
  <1>5. CASE StartCapture
    BY <1>5 DEF StartCapture
  <1>6. CASE WatchFails
    BY <1>6 DEF WatchFails, ScheduleRetry, NoJob
  <1>7. CASE BeginParse
    BY <1>7 DEF BeginParse
  <1>8. CASE LaunchWorker
    BY <1>8 DEF LaunchWorker, Throw
  <1>9. CASE RememberWorker
    BY <1>9 DEF RememberWorker
  <1>10. CASE CollectWorker
    BY <1>10 DEF CollectWorker, Throw
  <1>11. CASE WorkerTimesOut
    BY <1>11 DEF WorkerTimesOut, Throw
  <1>12. CASE RecordSnapshot
    BY <1>12 DEF RecordSnapshot, RecordRow
  <1>13. CASE FinishParse
    BY <1>13 DEF FinishParse
  <1>14. CASE ParseFails
    BY <1>14 DEF ParseFails, Discard, DiscardTemporary, RecordRow, ScheduleRetry, NoJob
  <1>15. CASE ParseFailsTwice
    BY <1>15 DEF ParseFailsTwice, Discard, DiscardTemporary, Fault, Throw
  <1>16. CASE WorkerBuilds
    BY <1>16 DEF WorkerBuilds, SetCache, Parsable
  <1>17. CASE WorkerFails
    BY <1>17 DEF WorkerFails, Parsable
  <1>18. CASE StopIsSet
    BY <1>18 DEF StopIsSet
  <1>19. CASE StopEndsWorker
    BY <1>19 DEF StopEndsWorker
  <1>20. CASE Exit
    BY <1>20 DEF Exit, EndProcess, NoJob, NoQuery, Idle
  <1>21. CASE Crash
    BY <1>21 DEF Crash, EndProcess, NoJob, NoQuery, Idle
  <1>22. CASE UNCHANGED vars
    BY <1>22, <1>1 DEF vars
  <1> QED BY <1>2, <1>3, <1>4, <1>5, <1>6, <1>7, <1>8, <1>9, <1>10, <1>11, <1>12, <1>13, <1>14,
        <1>15, <1>16, <1>17, <1>18, <1>19, <1>20, <1>21, <1>22 DEF Next, Game, Cleaning, Cleanup,
        Query, Watch, Work, Restart

(* Cleanups, parses and stop() keep out of each other's way. *)
LEMMA WorkersStep ==
  ASSUME Workers, [Next]_vars
  PROVE  Workers'
  <1> USE DEF Workers, ParseKeepsOut, CleanupKeepsOut, WorkerInParse, WorkerIsKnown,
        NoWorkerOutlivesStop, ParsePoints, LockFree, Event, Goto, disk, memory, environment,
        thread
  <1>1. CASE UNCHANGED <<pc, parsing, cleaner, worker, active, stop>>
    BY <1>1
  <1>2. CASE Game \/ RequestReparse \/ Query \/ (\E floor \in Floors : PreviewCleanup(floor))
             \/ (\E floor \in Floors : RefuseCleanup(floor))
    <2>1. UNCHANGED <<pc, parsing, cleaner, worker, active, stop>>
      BY <1>2 DEF WorldVanishes, WorldReturns, GameWrites, RequestReparse, ReadItems,
          NameSnapshot, BeginQuery, PreviewCleanup, RefuseCleanup, Game, Query
    <2> QED BY <1>1, <2>1
  <1>3. ASSUME NEW stuck \in SUBSET Ids, SweepTemporary(stuck) PROVE Workers'
    BY <1>3 DEF SweepTemporary, RemoveTemporary
  <1>4. ASSUME NEW floor \in Floors, NEW stuck \in SUBSET Ids, SweepUnneeded(floor,
  stuck) PROVE Workers'
    BY <1>4 DEF SweepUnneeded, RemoveUnneeded
  <1>5. ASSUME NEW floor \in Floors, ConfirmCleanup(floor) PROVE Workers'
    BY <1>5 DEF ConfirmCleanup
  <1>6. CASE Poll
    BY <1>6 DEF Poll, NoJob
  <1>7. CASE SeeChange
    BY <1>7 DEF SeeChange
  <1>8. CASE SeeNothing
    BY <1>8 DEF SeeNothing
  <1>9. CASE StartCapture
    BY <1>9 DEF StartCapture
  <1>10. CASE WatchFails
    BY <1>10 DEF WatchFails, ScheduleRetry, NoJob
  <1>11. CASE CopyFails
    BY <1>11 DEF CopyFails, Fault, Throw
  <1>12. CASE MakeTemporary
    BY <1>12 DEF MakeTemporary
  <1>13. CASE CopyLevel
    BY <1>13 DEF CopyLevel, SetSnap, Throw
  <1>14. CASE CopyPlayers
    BY <1>14 DEF CopyPlayers, SetSnap, Throw
  <1>15. CASE Recheck
    BY <1>15 DEF Recheck, Throw
  <1>16. CASE RenameSnapshot
    BY <1>16 DEF RenameSnapshot, SetSnap, Throw
  <1>17. CASE BeginParse
    BY <1>17 DEF BeginParse
  <1>18. CASE LaunchWorker
    BY <1>18 DEF LaunchWorker, Throw
  <1>19. CASE RememberWorker
    BY <1>19 DEF RememberWorker
  <1>20. CASE CollectWorker
    BY <1>20 DEF CollectWorker, Throw
  <1>21. CASE WorkerTimesOut
    BY <1>21 DEF WorkerTimesOut, Throw
  <1>22. CASE PublishCache
    BY <1>22 DEF PublishCache, SetCache
  <1>23. CASE RecordSnapshot
    BY <1>23 DEF RecordSnapshot, RecordRow
  <1>24. CASE ParseFault
    BY <1>24 DEF ParseFault, Fault, Throw
  <1>25. CASE FinishParse
    BY <1>25 DEF FinishParse
  <1>26. CASE ParseFails
    BY <1>26 DEF ParseFails, Discard, DiscardTemporary, RecordRow, ScheduleRetry, NoJob
  <1>27. CASE ParseFailsTwice
    BY <1>27 DEF ParseFailsTwice, Discard, DiscardTemporary, Fault, Throw
  <1>28. CASE WatchEnds
    BY <1>28 DEF WatchEnds
  <1>29. ASSUME NEW floor \in Floors, Tidy(floor) PROVE Workers'
    BY <1>29 DEF Tidy, CleanStorage, NoJob
  <1>30. CASE WorkerBuilds
    BY <1>30 DEF WorkerBuilds, SetCache, Parsable
  <1>31. CASE WorkerFails
    BY <1>31 DEF WorkerFails, Parsable
  <1>32. ASSUME NEW floor \in Floors, Start(floor) PROVE Workers'
    BY <1>32 DEF Start, CleanStorage
  <1>33. CASE StopIsSet
    BY <1>33 DEF StopIsSet
  <1>34. CASE StopEndsWorker
    BY <1>34 DEF StopEndsWorker
  <1>35. CASE Exit
    BY <1>35 DEF Exit, EndProcess, NoJob, NoQuery, Idle
  <1>36. CASE Crash
    BY <1>36 DEF Crash, EndProcess, NoJob, NoQuery, Idle
  <1>37. CASE UNCHANGED vars
    BY <1>37, <1>1 DEF vars
  <1> QED BY <1>2, <1>3, <1>4, <1>5, <1>6, <1>7, <1>8, <1>9, <1>10, <1>11, <1>12, <1>13, <1>14,
        <1>15, <1>16, <1>17, <1>18, <1>19, <1>20, <1>21, <1>22, <1>23, <1>24, <1>25, <1>26, <1>27,
        <1>28, <1>29, <1>30, <1>31, <1>32, <1>33, <1>34, <1>35, <1>36, <1>37 DEF Next, Game, Cleaning,
        Cleanup, Query, Watch, Work, Restart

(* A query keeps to its row. *)
LEMMA QueriesStep ==
  ASSUME Queries, Known, [Next]_vars
  PROVE  Queries'
  <1> USE DEF Queries, Known, Readers, QueryKeepsRow, AnswersAreOneSnapshot, Event, Goto, LockFree,
  disk,
        memory, environment, thread
  <1>1. CASE UNCHANGED reader
    BY <1>1
  <1>2. CASE Game \/ Cleaning \/ Cleanup \/ RequestReparse \/ Watch \/ Work \/ Restart
             \/ StopIsSet \/ StopEndsWorker
    <2>1. UNCHANGED reader
      <3>1. CASE Game
        BY <3>1 DEF WorldVanishes, WorldReturns, GameWrites, Game
      <3>2. CASE Cleaning
        BY <3>2 DEF SweepTemporary, SweepUnneeded, Cleaning
      <3>3. CASE Cleanup
        BY <3>3 DEF PreviewCleanup, RefuseCleanup, ConfirmCleanup, Cleanup
      <3>4. CASE Watch
        BY <3>4 DEF Poll, SeeChange, SeeNothing, StartCapture, WatchFails, CopyFails,
            MakeTemporary, CopyLevel, CopyPlayers, Recheck, RenameSnapshot, BeginParse,
            LaunchWorker, RememberWorker, CollectWorker, WorkerTimesOut, PublishCache,
            RecordSnapshot, ParseFault, FinishParse, ParseFails, ParseFailsTwice, WatchEnds, Tidy,
            Watch
      <3>5. CASE Work
        BY <3>5 DEF WorkerBuilds, WorkerFails, Work
      <3>6. CASE Restart
        BY <3>6 DEF Start, Restart
      <3>7. CASE RequestReparse \/ StopIsSet \/ StopEndsWorker
        BY <3>7 DEF RequestReparse, StopIsSet, StopEndsWorker
      <3> QED BY <1>2, <3>1, <3>2, <3>3, <3>4, <3>5, <3>6, <3>7
    <2> QED BY <1>1, <2>1
  <1>3. CASE ReadItems
    BY <1>3 DEF ReadItems, NoQuery
  <1>4. CASE NameSnapshot
    BY <1>4 DEF NameSnapshot
  <1>5. ASSUME NEW asked \in Ids \union {NoId}, BeginQuery(asked) PROVE Queries'
    BY <1>5 DEF BeginQuery, NoQuery
  <1>6. CASE Exit
    BY <1>6 DEF Exit, EndProcess, NoJob, NoQuery, Idle
  <1>7. CASE Crash
    BY <1>7 DEF Crash, EndProcess, NoJob, NoQuery, Idle
  <1>8. CASE UNCHANGED vars
    BY <1>8, <1>1 DEF vars
  <1> QED BY <1>2, <1>3, <1>4, <1>5, <1>6, <1>7, <1>8
      DEF Next, Game, Cleaning, Cleanup, Query, Watch, Work, Restart

(* A request is not forgotten. *)
LEMMA RequestsStep ==
  ASSUME Captures, Memory, Requests, [Next]_vars
  PROVE  Requests'
  <1> USE SentinelsAreFresh DEF Requests, RequestForgets, RequestedReparseIsPending, ParsePoints,
  Captures, JobPrinted,
          PrintPoints, CapturePoints, Event, Goto, LockFree, disk, memory, environment, thread
  <1>1. CASE UNCHANGED <<requested, lastSeen, pending, pc, generation, job>>
    BY <1>1
  <1>2. CASE Game \/ Cleaning \/ Cleanup \/ Query \/ Work \/ StopIsSet \/ StopEndsWorker
    <2>1. UNCHANGED <<requested, lastSeen, pending, pc, generation, job>>
      <3>1. CASE Game
        BY <3>1 DEF WorldVanishes, WorldReturns, GameWrites, Game
      <3>2. CASE Cleaning
        BY <3>2 DEF SweepTemporary, SweepUnneeded, Cleaning
      <3>3. CASE Cleanup
        BY <3>3 DEF PreviewCleanup, RefuseCleanup, ConfirmCleanup, Cleanup
      <3>4. CASE Query
        BY <3>4 DEF ReadItems, NameSnapshot, BeginQuery, Query
      <3>5. CASE Work
        BY <3>5 DEF WorkerBuilds, WorkerFails, Work
      <3>6. CASE StopIsSet \/ StopEndsWorker
        BY <3>6 DEF StopIsSet, StopEndsWorker
      <3> QED BY <1>2, <3>1, <3>2, <3>3, <3>4, <3>5, <3>6
    <2> QED BY <1>1, <2>1
  <1>3. CASE RequestReparse
    BY <1>3 DEF RequestReparse
  <1>4. CASE Poll
    BY <1>4 DEF Poll, NoJob
  <1>5. CASE SeeChange
    BY <1>5 DEF SeeChange
  <1>6. CASE SeeNothing
    BY <1>6 DEF SeeNothing
  <1>7. CASE StartCapture
    BY <1>7 DEF StartCapture
  <1>8. CASE WatchFails
    BY <1>8 DEF WatchFails, ScheduleRetry, NoJob
  <1>9. CASE CopyFails
    <2>1. Fault("caught")
      BY <1>9 DEF CopyFails
    <2> QED BY <1>9, <2>1, FaultKeeps DEF CopyFails
  <1>10. CASE MakeTemporary
    <2> QED BY <1>10 DEF MakeTemporary
  <1>11. CASE CopyLevel
    <2>1. CASE job' = job
      BY <1>11, <2>1 DEF CopyLevel, Throw
    <2>2. CASE job' # job
      <3>1. \E why \in {"disk", "failed"} : Throw(why, "caught")
        BY <1>11, <2>2 DEF CopyLevel
      <3> QED BY <1>11, <3>1, ThrowKeeps DEF CopyLevel
    <2> QED BY <2>1, <2>2
  <1>12. CASE CopyPlayers
    <2>1. CASE job' = job
      BY <1>12, <2>1 DEF CopyPlayers, Throw
    <2>2. CASE job' # job
      <3>1. \E why \in {"disk", "failed"} : Throw(why, "caught")
        BY <1>12, <2>2 DEF CopyPlayers
      <3> QED BY <1>12, <3>1, ThrowKeeps DEF CopyPlayers
    <2> QED BY <2>1, <2>2
  <1>13. CASE Recheck
    <2>1. CASE job' = job
      BY <1>13, <2>1 DEF Recheck, Throw
    <2>2. CASE job' # job
      <3>1. \E why \in {"disk", "failed"} : Throw(why, "caught")
        BY <1>13, <2>2 DEF Recheck
      <3> QED BY <1>13, <3>1, ThrowKeeps DEF Recheck
    <2> QED BY <2>1, <2>2
  <1>14. CASE RenameSnapshot
    <2>1. CASE job' = job
      BY <1>14, <2>1 DEF RenameSnapshot, Throw
    <2>2. CASE job' # job
      <3>1. \E why \in {"disk", "failed"} : Throw(why, "caught")
        BY <1>14, <2>2 DEF RenameSnapshot
      <3> QED BY <1>14, <3>1, ThrowKeeps DEF RenameSnapshot
    <2> QED BY <2>1, <2>2
  <1>15. CASE BeginParse
    <2>1. job'.gen = generation
      BY <1>15, JobPuts DEF BeginParse, Numbers
    <2> QED BY <1>15, <2>1 DEF BeginParse
  <1>16. CASE LaunchWorker
    <2>1. CASE job' = job
      BY <1>16, <2>1 DEF LaunchWorker, Throw
    <2>2. CASE job' # job
      <3>1. \E why \in {"disk", "failed"} : Throw(why, "failed")
        BY <1>16, <2>2 DEF LaunchWorker
      <3> QED BY <1>16, <3>1, ThrowKeeps DEF LaunchWorker
    <2> QED BY <2>1, <2>2
  <1>17. CASE RememberWorker
    BY <1>17 DEF RememberWorker
  <1>18. CASE CollectWorker
    <2>1. CASE job' = job
      BY <1>18, <2>1 DEF CollectWorker, Throw
    <2>2. CASE job' # job
      <3>1. \E why \in {"disk", "failed"} : Throw(why, "failed")
        BY <1>18, <2>2 DEF CollectWorker
      <3> QED BY <1>18, <3>1, ThrowKeeps DEF CollectWorker
    <2> QED BY <2>1, <2>2
  <1>19. CASE WorkerTimesOut
    <2>1. CASE job' = job
      BY <1>19, <2>1 DEF WorkerTimesOut, Throw
    <2>2. CASE job' # job
      <3>1. \E why \in {"disk", "failed"} : Throw(why, "failed")
        BY <1>19, <2>2 DEF WorkerTimesOut
      <3> QED BY <1>19, <3>1, ThrowKeeps DEF WorkerTimesOut
    <2> QED BY <2>1, <2>2
  <1>20. CASE PublishCache
    BY <1>20 DEF PublishCache, SetCache
  <1>21. CASE RecordSnapshot
    BY <1>21 DEF RecordSnapshot, RecordRow
  <1>22. CASE ParseFault
    <2>1. Fault("failed")
      BY <1>22 DEF ParseFault
    <2> QED BY <1>22, <2>1, FaultKeeps DEF ParseFault
  <1>23. CASE FinishParse
    BY <1>23 DEF FinishParse
  <1>24. CASE ParseFails
    BY <1>24 DEF ParseFails, Discard, DiscardTemporary, RecordRow, ScheduleRetry, NoJob
  <1>25. CASE ParseFailsTwice
    <2>1. Fault("caught")
      BY <1>25 DEF ParseFailsTwice
    <2> QED BY <1>25, <2>1, FaultKeeps DEF ParseFailsTwice
  <1>26. CASE WatchEnds
    BY <1>26 DEF WatchEnds
  <1>27. ASSUME NEW floor \in Floors, Tidy(floor) PROVE Requests'
    BY <1>27 DEF Tidy, CleanStorage, NoJob
  <1>28. ASSUME NEW floor \in Floors, Start(floor) PROVE Requests'
    BY <1>28 DEF Start, CleanStorage
  <1>29. CASE Exit
    BY <1>29 DEF Exit, EndProcess, NoJob, NoQuery, Idle
  <1>30. CASE Crash
    BY <1>30 DEF Crash, EndProcess, NoJob, NoQuery, Idle
  <1>31. CASE UNCHANGED vars
    BY <1>31, <1>1 DEF vars
  <1> QED BY <1>2, <1>3, <1>4, <1>5, <1>6, <1>7, <1>8, <1>9, <1>10, <1>11, <1>12, <1>13, <1>14,
        <1>15, <1>16, <1>17, <1>18, <1>19, <1>20, <1>21, <1>22, <1>23, <1>24, <1>25, <1>26, <1>27,
        <1>28, <1>29, <1>30, <1>31 DEF Next, Game, Cleaning, Cleanup, Query, Watch, Work, Restart

(* The directories, and the cache that is being built. *)
LEMMA StorageStep ==
  ASSUME Worlds, Workers, Captures, Storage, [Next]_vars
  PROVE  Storage'
  <1> USE DEF Storage, Stores, CacheIsBuilt, Workers, ParseKeepsOut, CleanupKeepsOut,
        WorkerInParse, ParsePoints, Captures, JobNumbered, CapturePoints, Event, Goto, LockFree,
        disk, memory, environment, thread
  <1>1. CASE UNCHANGED <<snaps, caches, worker, pc, job>>
    BY <1>1
  <1>2. CASE Game \/ Cleanup \/ RequestReparse \/ Query \/ StopIsSet
    <2>1. UNCHANGED <<snaps, caches, worker, pc, job>>
      BY <1>2 DEF WorldVanishes, WorldReturns, GameWrites, PreviewCleanup, RefuseCleanup,
          ConfirmCleanup, RequestReparse, ReadItems, NameSnapshot, BeginQuery, StopIsSet, Game,
          Cleanup, Query
    <2> QED BY <1>1, <2>1
  <1>3. ASSUME NEW stuck \in SUBSET Ids, SweepTemporary(stuck) PROVE Storage'
    <2>1. Stores'
      BY <1>3, WithoutIsFiles DEF SweepTemporary, RemoveTemporary
    <2>2. pc' \notin {"publish", "record"} /\ worker' # "built"
      BY <1>3 DEF SweepTemporary, RemoveTemporary
    <2> QED BY <2>1, <2>2
  <1>4. ASSUME NEW floor \in Floors, NEW stuck \in SUBSET Ids, SweepUnneeded(floor,
  stuck) PROVE Storage'
    <2>1. Stores'
      BY <1>4, WithoutIsFiles DEF SweepUnneeded, RemoveUnneeded
    <2>2. pc' \notin {"publish", "record"} /\ worker' # "built"
      BY <1>4 DEF SweepUnneeded, RemoveUnneeded
    <2> QED BY <2>1, <2>2
  <1>5. CASE Poll
    BY <1>5 DEF Poll, NoJob
  <1>6. CASE SeeChange
    BY <1>6 DEF SeeChange
  <1>7. CASE SeeNothing
    BY <1>7 DEF SeeNothing
  <1>8. CASE StartCapture
    BY <1>8 DEF StartCapture
  <1>9. CASE WatchFails
    BY <1>9 DEF WatchFails, ScheduleRetry, NoJob
  <1>10. CASE CopyFails
    <2>1. snaps' \in Files
      BY <1>10, WithoutIsFiles DEF CopyFails, Fault, Throw
    <2>2. caches' = caches /\ pc' \notin {"publish", "record"} /\ worker' # "built"
      BY <1>10 DEF CopyFails, Fault, Throw
    <2> QED BY <2>1, <2>2
  <1>11. CASE MakeTemporary
    <2>1. snaps' \in Files
      BY <1>11, PutFile, NewCopies DEF MakeTemporary
    <2>2. caches' = caches /\ pc' \notin {"publish", "record"} /\ worker' # "built"
      BY <1>11 DEF MakeTemporary
    <2> QED BY <2>1, <2>2
  <1>12. CASE CopyLevel
    <2>1. CASE IsTemp(snaps[job.id]) /\ readable
      <3>1. [snaps[job.id] EXCEPT !.level = world.level] \in Copies
        BY <1>12, <2>1, FileIsCopy, CopyPuts, NewCopies DEF CopyLevel, IsTemp
      <3>2. snaps' \in Files
        BY <1>12, <2>1, <3>1, PutFile DEF CopyLevel, SetSnap
      <3> QED BY <1>12, <2>1, <3>2 DEF CopyLevel
    <2>2. CASE ~(IsTemp(snaps[job.id]) /\ readable)
      <3>1. snaps' \in Files
        BY <1>12, <2>2, WithoutIsFiles DEF CopyLevel
      <3> QED BY <1>12, <2>2, <3>1 DEF CopyLevel, Throw
    <2> QED BY <2>1, <2>2
  <1>13. CASE CopyPlayers
    <2>1. CASE readable
      <3>1. CASE IsTemp(snaps[job.id])
        <4>1. [snaps[job.id] EXCEPT !.players = world.players] \in Copies
          BY <1>13, <3>1, FileIsCopy, CopyPuts, NewCopies DEF CopyPlayers, IsTemp
        <4> QED BY <1>13, <2>1, <3>1, <4>1, PutFile DEF CopyPlayers, SetSnap
      <3>2. CASE ~IsTemp(snaps[job.id])
        BY <1>13, <2>1, <3>2, PutFile, NewCopies DEF CopyPlayers, SetSnap
      <3> QED BY <3>1, <3>2
    <2>2. CASE ~readable
      <3>1. snaps' \in Files
        BY <1>13, <2>2, WithoutIsFiles DEF CopyPlayers
      <3> QED BY <1>13, <2>2, <3>1 DEF CopyPlayers, Throw
    <2> QED BY <2>1, <2>2
  <1>14. CASE Recheck
    <2>1. snaps' \in Files
      BY <1>14, WithoutIsFiles DEF Recheck, Throw
    <2>2. caches' = caches /\ pc' \notin {"publish", "record"} /\ worker' # "built"
      BY <1>14 DEF Recheck, Throw
    <2> QED BY <2>1, <2>2
  <1>15. CASE RenameSnapshot
    <2>1. snaps' \in Files
      <3>1. CASE IsTemp(snaps[job.id])
        <4>1. [snaps[job.id] EXCEPT !.ready = TRUE] \in Copies
          BY <1>15, <3>1, FileIsCopy, CopyPuts DEF RenameSnapshot, IsTemp
        <4> QED BY <1>15, <3>1, <4>1, PutFile DEF RenameSnapshot, SetSnap
      <3>2. CASE ~IsTemp(snaps[job.id])
        BY <1>15, <3>2 DEF RenameSnapshot
      <3> QED BY <3>1, <3>2
    <2>2. caches' = caches /\ pc' \notin {"publish", "record"} /\ worker' # "built"
      BY <1>15 DEF RenameSnapshot, Throw
    <2> QED BY <2>1, <2>2
  <1>16. CASE BeginParse
    BY <1>16 DEF BeginParse
  <1>17. CASE LaunchWorker
    BY <1>17 DEF LaunchWorker, Throw
  <1>18. CASE RememberWorker
    BY <1>18 DEF RememberWorker
  <1>19. CASE CollectWorker
    BY <1>19 DEF CollectWorker, Throw
  <1>20. CASE WorkerTimesOut
    BY <1>20 DEF WorkerTimesOut, Throw
  <1>21. CASE PublishCache
    <2>1. job.id \in Ids /\ IsTemp(caches[job.id])
      BY <1>21 DEF PublishCache
    <2> DEFINE done == [caches[job.id] EXCEPT !.ready = TRUE]
    <2>2. done \in Copies /\ done.ready = TRUE /\ done # NoFile
      BY <2>1, FileIsCopy, CopyPuts DEF IsTemp
    <2> HIDE DEF done
    <2>3. caches' = [caches EXCEPT ![job.id] = done]
      BY <1>21 DEF PublishCache, SetCache, done
    <2>4. caches' \in Files /\ IsReady(caches'[job.id])
      <3>1. caches' \in Files
        BY <2>2, <2>3, PutFile
      <3>2. caches'[job.id] = done
        BY <2>1, <2>3, PutAt
      <3> QED BY <3>1, <3>2, <2>2 DEF IsReady
    <2> QED BY <1>21, <2>1, <2>4 DEF PublishCache
  <1>22. CASE RecordSnapshot
    BY <1>22 DEF RecordSnapshot, RecordRow
  <1>23. CASE ParseFault
    BY <1>23 DEF ParseFault, Fault, Throw
  <1>24. CASE FinishParse
    BY <1>24 DEF FinishParse
  <1>25. CASE ParseFails
    <2>1. Stores'
      BY <1>25, WithoutIsFiles DEF ParseFails, Discard, DiscardTemporary, RecordRow, ScheduleRetry
    <2>2. pc' \notin {"publish", "record"} /\ worker' # "built"
      BY <1>25 DEF ParseFails, Discard, DiscardTemporary, RecordRow, ScheduleRetry
    <2> QED BY <2>1, <2>2
  <1>26. CASE ParseFailsTwice
    <2>1. Stores'
      BY <1>26, WithoutIsFiles DEF ParseFailsTwice, Discard, DiscardTemporary, Fault, Throw
    <2>2. pc' \notin {"publish", "record"} /\ worker' # "built"
      BY <1>26 DEF ParseFailsTwice, Discard, DiscardTemporary, Fault, Throw
    <2> QED BY <2>1, <2>2
  <1>27. CASE WatchEnds
    BY <1>27 DEF WatchEnds
  <1>28. ASSUME NEW floor \in Floors, Tidy(floor) PROVE Storage'
    <2>1. Stores'
      BY <1>28, WithoutIsFiles DEF Tidy, CleanStorage
    <2>2. pc' \notin {"publish", "record"} /\ worker' # "built"
      BY <1>28 DEF Tidy, CleanStorage
    <2> QED BY <2>1, <2>2
  <1>29. CASE WorkerBuilds
    <2>1. job.id \in Ids /\ pc # "publish" /\ pc # "record" /\ snaps[job.id] # NoFile
      BY <1>29 DEF WorkerBuilds, Parsable, IsReady
    <2> DEFINE built == [snaps[job.id] EXCEPT !.ready = FALSE]
    <2>2. built \in Copies /\ built.ready = FALSE /\ built # NoFile
      BY <2>1, FileIsCopy, CopyPuts
    <2> HIDE DEF built
    <2>3. caches' = [caches EXCEPT ![job.id] = built]
      BY <1>29 DEF WorkerBuilds, SetCache, built
    <2>4. caches' \in Files /\ IsTemp(caches'[job.id])
      <3>1. caches' \in Files
        BY <2>2, <2>3, PutFile
      <3>2. caches'[job.id] = built
        BY <2>1, <2>3, PutAt
      <3> QED BY <3>1, <3>2, <2>2 DEF IsTemp
    <2> QED BY <1>29, <2>1, <2>4 DEF WorkerBuilds
  <1>30. CASE WorkerFails
    BY <1>30 DEF WorkerFails, Parsable
  <1>31. ASSUME NEW floor \in Floors, Start(floor) PROVE Storage'
    <2>1. Stores'
      BY <1>31, WithoutIsFiles DEF Start, CleanStorage
    <2>2. pc' \notin {"publish", "record"} /\ worker' # "built"
      BY <1>31 DEF Start, CleanStorage
    <2> QED BY <2>1, <2>2
  <1>32. CASE StopEndsWorker
    BY <1>32 DEF StopEndsWorker
  <1>33. CASE Exit
    <2>1. EndProcess
      BY <1>33 DEF Exit
    <2> QED BY <2>1, EndIsStored DEF EndProcess
  <1>34. CASE Crash
    <2>1. EndProcess
      BY <1>34 DEF Crash
    <2> QED BY <2>1, EndIsStored DEF EndProcess
  <1>35. CASE UNCHANGED vars
    BY <1>35, <1>1 DEF vars
  <1> QED BY <1>2, <1>3, <1>4, <1>5, <1>6, <1>7, <1>8, <1>9, <1>10, <1>11, <1>12, <1>13, <1>14,
        <1>15, <1>16, <1>17, <1>18, <1>19, <1>20, <1>21, <1>22, <1>23, <1>24, <1>25, <1>26, <1>27,
        <1>28, <1>29, <1>30, <1>31, <1>32, <1>33, <1>34, <1>35 DEF Next, Game, Cleaning, Cleanup,
        Query, Watch, Work, Restart

(* The preview and the cleanup it allows. *)
LEMMA PlansStep ==
  ASSUME Stores, Plans, [Next]_vars
  PROVE  Plans'
  <1> USE CleanerPuts, CandidatesTyped DEF Plans, Event, Goto, LockFree, disk, memory, environment,
  thread
  <1>1. CASE UNCHANGED <<plan, cleaner>>
    BY <1>1
  <1>2. CASE Game \/ RequestReparse \/ Query \/ Work \/ Restart \/ StopIsSet
             \/ StopEndsWorker \/ Poll \/ SeeChange \/ SeeNothing \/ StartCapture
             \/ WatchFails \/ CopyFails \/ MakeTemporary \/ CopyLevel \/ CopyPlayers
             \/ Recheck \/ RenameSnapshot \/ BeginParse \/ LaunchWorker \/ RememberWorker
             \/ CollectWorker \/ WorkerTimesOut \/ PublishCache \/ RecordSnapshot
             \/ ParseFault \/ FinishParse \/ ParseFails \/ ParseFailsTwice \/ WatchEnds
    <2>1. UNCHANGED <<plan, cleaner>>
      <3>1. CASE Game
        BY <3>1 DEF WorldVanishes, WorldReturns, GameWrites, Game
      <3>2. CASE Query
        BY <3>2 DEF ReadItems, NameSnapshot, BeginQuery, Query
      <3>3. CASE Poll \/ SeeChange \/ SeeNothing \/ StartCapture \/ WatchFails \/ CopyFails
                 \/ MakeTemporary \/ CopyLevel
        BY <3>3 DEF Poll, SeeChange, SeeNothing, StartCapture, WatchFails, CopyFails,
            MakeTemporary, CopyLevel
      <3>4. CASE CopyPlayers \/ Recheck \/ RenameSnapshot \/ BeginParse \/ LaunchWorker
                 \/ RememberWorker \/ CollectWorker \/ WorkerTimesOut
        BY <3>4 DEF CopyPlayers, Recheck, RenameSnapshot, BeginParse, LaunchWorker,
            RememberWorker, CollectWorker, WorkerTimesOut
      <3>5. CASE PublishCache \/ RecordSnapshot \/ ParseFault \/ FinishParse \/ ParseFails
                 \/ ParseFailsTwice \/ WatchEnds
        BY <3>5 DEF PublishCache, RecordSnapshot, ParseFault, FinishParse, ParseFails,
            ParseFailsTwice, WatchEnds
      <3>6. CASE Work
        BY <3>6 DEF WorkerBuilds, WorkerFails, Work
      <3>7. CASE Restart
        BY <3>7 DEF Start, Restart
      <3>8. CASE RequestReparse \/ StopIsSet \/ StopEndsWorker
        BY <3>8 DEF RequestReparse, StopIsSet, StopEndsWorker
      <3> QED BY <1>2, <3>1, <3>2, <3>3, <3>4, <3>5, <3>6, <3>7, <3>8
    <2> QED BY <1>1, <2>1
  <1>3. ASSUME NEW stuck \in SUBSET Ids, SweepTemporary(stuck) PROVE Plans'
    BY <1>3 DEF SweepTemporary, RemoveTemporary
  <1>4. ASSUME NEW floor \in Floors, NEW stuck \in SUBSET Ids, SweepUnneeded(floor, stuck) PROVE Plans'
    BY <1>4 DEF SweepUnneeded, RemoveUnneeded
  <1>5. ASSUME NEW floor \in Floors, PreviewCleanup(floor) PROVE Plans'
    BY <1>5 DEF PreviewCleanup
  <1>6. ASSUME NEW floor \in Floors, RefuseCleanup(floor) PROVE Plans'
    BY <1>6 DEF RefuseCleanup
  <1>7. ASSUME NEW floor \in Floors, ConfirmCleanup(floor) PROVE Plans'
    <2>1. plan \in SUBSET Entries
      BY <1>7 DEF ConfirmCleanup
    <2> QED BY <1>7, <2>1 DEF ConfirmCleanup
  <1>8. ASSUME NEW floor \in Floors, Tidy(floor) PROVE Plans'
    BY <1>8 DEF Tidy, CleanStorage, NoJob
  <1>9. CASE Exit
    BY <1>9 DEF Exit, EndProcess, NoJob, NoQuery
  <1>10. CASE Crash
    BY <1>10 DEF Crash, EndProcess, NoJob, NoQuery
  <1>11. CASE UNCHANGED vars
    BY <1>11, <1>1 DEF vars
  <1> QED BY <1>2, <1>3, <1>4, <1>5, <1>6, <1>7, <1>8, <1>9, <1>10, <1>11
      DEF Next, Game, Cleaning, Cleanup, Query, Watch, Work, Restart

(* The current cache is on disk, whatever is removed. *)
LEMMA PublicationStep ==
  ASSUME Workers, Captures, Storage, Known, Publication, [Next]_vars
  PROVE  Publication'
  <1> USE SentinelsAreFresh DEF Publication, Known, CurrentIsReadable, JobIsNew, CurrentIsOld, Storage,
  Stores, CacheIsBuilt,
          Workers, WorkerInParse, Captures, Numbers, JobNumbered, CapturePoints, Event, Goto,
          LockFree, disk, memory, environment, thread
  <1>1. CASE UNCHANGED <<current, caches, pc, job, lastId>>
    BY <1>1
  <1>2. CASE Game \/ Cleanup \/ RequestReparse \/ Query \/ StopIsSet \/ StopEndsWorker
             \/ WorkerFails
    <2>1. UNCHANGED <<current, caches, pc, job, lastId>>
      <3>1. CASE Game
        BY <3>1 DEF WorldVanishes, WorldReturns, GameWrites, Game
      <3>2. CASE Cleanup
        BY <3>2 DEF PreviewCleanup, RefuseCleanup, ConfirmCleanup, Cleanup
      <3>3. CASE Query
        BY <3>3 DEF ReadItems, NameSnapshot, BeginQuery, Query
      <3>4. CASE WorkerFails
        BY <3>4 DEF WorkerFails
      <3>5. CASE RequestReparse \/ StopIsSet \/ StopEndsWorker
        BY <3>5 DEF RequestReparse, StopIsSet, StopEndsWorker
      <3> QED BY <1>2, <3>1, <3>2, <3>3, <3>4, <3>5
    <2> QED BY <1>1, <2>1
  <1>3. ASSUME NEW stuck \in SUBSET Ids, SweepTemporary(stuck) PROVE Publication'
    <2>1. caches' = Without(caches, Temporary(caches) \ stuck)
      BY <1>3 DEF SweepTemporary, RemoveTemporary
    <2>2. current # NoId => caches'[current] = caches[current]
      BY <2>1, CleanupSparesCurrent, CacheStays
    <2>3. UNCHANGED <<current, pc, job, lastId>>
      BY <1>3 DEF SweepTemporary, RemoveTemporary
    <2> QED BY <2>2, <2>3
  <1>4. ASSUME NEW floor \in Floors, NEW stuck \in SUBSET Ids, SweepUnneeded(floor,
  stuck) PROVE Publication'
    <2>1. caches' = Without(caches, (OrphanCaches \union Expired(floor)) \ stuck)
      BY <1>4 DEF SweepUnneeded, RemoveUnneeded
    <2>2. current # NoId => caches'[current] = caches[current]
      BY <2>1, CleanupSparesCurrent, CacheStays
    <2>3. UNCHANGED <<current, pc, job, lastId>>
      BY <1>4 DEF SweepUnneeded, RemoveUnneeded
    <2> QED BY <2>2, <2>3
  <1>5. CASE Poll
    BY <1>5 DEF Poll, NoJob
  <1>6. CASE SeeChange
    BY <1>6 DEF SeeChange
  <1>7. CASE SeeNothing
    BY <1>7 DEF SeeNothing
  <1>8. CASE StartCapture
    BY <1>8 DEF StartCapture
  <1>9. CASE WatchFails
    BY <1>9 DEF WatchFails, ScheduleRetry, NoJob
  <1>10. CASE CopyFails
    <2>1. pc' = "caught" /\ UNCHANGED <<caches, current, lastId>>
      BY <1>10 DEF CopyFails, Fault, Throw
    <2> QED BY <2>1
  <1>11. CASE MakeTemporary
    <2>1. lastId' = lastId + 1 /\ lastId' \in Ids
      BY <1>11, BoundsAreNat DEF MakeTemporary, Ids
    <2>2. job'.id = lastId'
      BY <1>11, <2>1, JobPuts DEF MakeTemporary
    <2>3. current # NoId => current < lastId'
      BY <2>1 DEF Ids
    <2> QED BY <1>11, <2>1, <2>2, <2>3 DEF MakeTemporary, Ids
  <1>12. CASE CopyLevel
    <2>1. job' = job \/ \E why \in {"disk", "failed"} : Throw(why, "caught")
      BY <1>12 DEF CopyLevel
    <2>2. job'.id = job.id
      BY <2>1, ThrowKeeps
    <2> QED BY <1>12, <2>2 DEF CopyLevel, Throw
  <1>13. CASE CopyPlayers
    <2>1. job' = job \/ \E why \in {"disk", "failed"} : Throw(why, "caught")
      BY <1>13 DEF CopyPlayers
    <2>2. job'.id = job.id
      BY <2>1, ThrowKeeps
    <2> QED BY <1>13, <2>2 DEF CopyPlayers, Throw
  <1>14. CASE Recheck
    <2>1. job' = job \/ \E why \in {"disk", "failed"} : Throw(why, "caught")
      BY <1>14 DEF Recheck
    <2>2. job'.id = job.id
      BY <2>1, ThrowKeeps
    <2> QED BY <1>14, <2>2 DEF Recheck, Throw
  <1>15. CASE RenameSnapshot
    <2>1. job' = job \/ \E why \in {"disk", "failed"} : Throw(why, "caught")
      BY <1>15 DEF RenameSnapshot
    <2>2. job'.id = job.id
      BY <2>1, ThrowKeeps
    <2> QED BY <1>15, <2>2 DEF RenameSnapshot, Throw
  <1>16. CASE BeginParse
    <2>1. job'.id = job.id
      BY <1>16, JobPuts DEF BeginParse
    <2> QED BY <1>16, <2>1 DEF BeginParse
  <1>17. CASE LaunchWorker
    <2>1. job' = job \/ \E why \in {"disk", "failed"} : Throw(why, "failed")
      BY <1>17 DEF LaunchWorker
    <2>2. job'.id = job.id
      BY <2>1, ThrowKeeps
    <2> QED BY <1>17, <2>2 DEF LaunchWorker, Throw
  <1>18. CASE RememberWorker
    BY <1>18 DEF RememberWorker
  <1>19. CASE CollectWorker
    <2>1. job' = job \/ \E why \in {"disk", "failed"} : Throw(why, "failed")
      BY <1>19 DEF CollectWorker
    <2>2. job'.id = job.id
      BY <2>1, ThrowKeeps
    <2> QED BY <1>19, <2>2 DEF CollectWorker, Throw
  <1>20. CASE WorkerTimesOut
    <2>1. job' = job \/ \E why \in {"disk", "failed"} : Throw(why, "failed")
      BY <1>20 DEF WorkerTimesOut
    <2>2. job'.id = job.id
      BY <2>1, ThrowKeeps
    <2> QED BY <1>20, <2>2 DEF WorkerTimesOut, Throw
  <1>21. CASE PublishCache
    <2>1. job.id \in Ids /\ job.id # current
      BY <1>21 DEF PublishCache
    <2>2. current # NoId => caches'[current] = caches[current]
      BY <1>21, <2>1, PutAt DEF PublishCache, SetCache
    <2> QED BY <1>21, <2>2 DEF PublishCache
  <1>22. CASE RecordSnapshot
    BY <1>22 DEF RecordSnapshot, RecordRow
  <1>23. CASE ParseFault
    <2>1. pc' = "failed" /\ UNCHANGED <<caches, current, lastId>>
      BY <1>23 DEF ParseFault, Fault, Throw
    <2> QED BY <2>1
  <1>24. CASE FinishParse
    BY <1>24 DEF FinishParse
  <1>25. CASE ParseFails
    <2>1. Discard /\ UNCHANGED <<current, lastId>> /\ pc' = "poll"
      BY <1>25 DEF ParseFails, RecordRow
    <2>2. current # NoId => caches'[current] = caches[current]
      <3>1. CASE current = job.id
        <4>1. caches' = Without(caches, {job.id} \intersect Temporary(caches))
          BY <2>1, <3>1 DEF Discard, DiscardTemporary
        <4> QED BY <4>1, CleanupSparesCurrent, CacheStays
      <3>2. CASE current # job.id
        <4>1. caches' = Without(caches, {job.id})
          BY <2>1, <3>2 DEF Discard
        <4> QED BY <4>1, <3>2, CacheStays
      <3> QED BY <3>1, <3>2
    <2> QED BY <2>1, <2>2
  <1>26. CASE ParseFailsTwice
    <2>1. (Discard \/ DiscardTemporary) /\ UNCHANGED <<current, lastId>> /\ pc' = "caught"
      BY <1>26 DEF ParseFailsTwice, Fault, Throw
    <2>2. current # NoId => caches'[current] = caches[current]
      <3>1. CASE caches' = Without(caches, {job.id} \intersect Temporary(caches))
        BY <3>1, CleanupSparesCurrent, CacheStays
      <3>2. CASE current # job.id /\ caches' = Without(caches, {job.id})
        BY <3>2, CacheStays
      <3> QED BY <2>1, <3>1, <3>2 DEF Discard, DiscardTemporary
    <2> QED BY <2>1, <2>2
  <1>27. CASE WatchEnds
    BY <1>27 DEF WatchEnds
  <1>28. ASSUME NEW floor \in Floors, Tidy(floor) PROVE Publication'
    <2>1. \/ caches' = Without(caches, Temporary(caches) \union OrphanCaches \union Expired(floor))
          \/ caches' = caches
      BY <1>28 DEF Tidy, CleanStorage
    <2>2. current # NoId => caches'[current] = caches[current]
      BY <2>1, CleanupSparesCurrent, CacheStays
    <2>3. UNCHANGED <<current, lastId>> /\ pc' = "poll"
      BY <1>28 DEF Tidy, CleanStorage
    <2> QED BY <2>2, <2>3
  <1>29. CASE WorkerBuilds
    <2>1. job.id \in Ids /\ job.id # current
      BY <1>29 DEF WorkerBuilds
    <2>2. current # NoId => caches'[current] = caches[current]
      BY <1>29, <2>1, PutAt DEF WorkerBuilds, SetCache
    <2> QED BY <1>29, <2>2 DEF WorkerBuilds
  <1>30. ASSUME NEW floor \in Floors, Start(floor) PROVE Publication'
    <2>1. \/ caches' = Without(caches, Temporary(caches) \union OrphanCaches \union Expired(floor))
          \/ caches' = caches
      BY <1>30 DEF Start, CleanStorage
    <2>2. current # NoId => caches'[current] = caches[current]
      BY <2>1, CleanupSparesCurrent, CacheStays
    <2>3. UNCHANGED <<current, lastId>> /\ pc' = "poll"
      BY <1>30 DEF Start, CleanStorage
    <2> QED BY <2>2, <2>3
  <1>31. CASE Exit
    <2>1. EndProcess
      BY <1>31 DEF Exit
    <2>2. current # NoId => caches'[current] = caches[current]
      BY <2>1, EndIsStored
    <2>3. UNCHANGED <<current, lastId>> /\ pc' = "off"
      BY <2>1 DEF EndProcess
    <2> QED BY <2>2, <2>3
  <1>32. CASE Crash
    <2>1. EndProcess
      BY <1>32 DEF Crash
    <2>2. current # NoId => caches'[current] = caches[current]
      BY <2>1, EndIsStored
    <2>3. UNCHANGED <<current, lastId>> /\ pc' = "off"
      BY <2>1 DEF EndProcess
    <2> QED BY <2>2, <2>3
  <1>33. CASE UNCHANGED vars
    BY <1>33, <1>1 DEF vars
  <1> QED BY <1>2, <1>3, <1>4, <1>5, <1>6, <1>7, <1>8, <1>9, <1>10, <1>11, <1>12, <1>13, <1>14,
        <1>15, <1>16, <1>17, <1>18, <1>19, <1>20, <1>21, <1>22, <1>23, <1>24, <1>25, <1>26, <1>27,
        <1>28, <1>29, <1>30, <1>31, <1>32, <1>33 DEF Next, Game, Cleaning, Cleanup, Query, Watch, Work,
        Restart

(* The copy shows the fingerprint once the source was looked at again. *)
LEMMA CopyingStep ==
  ASSUME Worlds, Captures, Stores, Copying, [Next]_vars
  PROVE  Copying'
  <1> USE DEF Copying, PrintIsPast, CopyIsTemp, LevelInTime, PlayersInTime, CopyIsPrint, Stores,
        Captures, JobNumbered, JobPrinted, CapturePoints, PrintPoints, Event, Goto, LockFree,
        disk, memory, environment, thread
  <1>1. CASE UNCHANGED <<world, seen, pc, job, snaps>>
    BY <1>1
  <1>2. CASE Cleanup \/ RequestReparse \/ Query \/ Work \/ StopIsSet \/ StopEndsWorker
             \/ WorldVanishes \/ WorldReturns
    <2>1. UNCHANGED <<world, seen, pc, job, snaps>>
      <3>1. CASE WorldVanishes \/ WorldReturns
        BY <3>1 DEF WorldVanishes, WorldReturns
      <3>2. CASE Cleanup
        BY <3>2 DEF PreviewCleanup, RefuseCleanup, ConfirmCleanup, Cleanup
      <3>3. CASE Query
        BY <3>3 DEF ReadItems, NameSnapshot, BeginQuery, Query
      <3>4. CASE Work
        BY <3>4 DEF WorkerBuilds, WorkerFails, Work
      <3>5. CASE RequestReparse \/ StopIsSet \/ StopEndsWorker
        BY <3>5 DEF RequestReparse, StopIsSet, StopEndsWorker
      <3> QED BY <1>2, <3>1, <3>2, <3>3, <3>4, <3>5
    <2> QED BY <1>1, <2>1
  <1>3. ASSUME NEW part \in {"level", "players"}, GameWrites(part) PROVE Copying'
    <2>1. /\ world'.level >= world.level /\ world'.players >= world.players
          /\ world'.level \in Nat /\ world'.players \in Nat
      BY <1>3, WorldNumbers DEF GameWrites, Worlds, Prints
    <2>2. seen \subseteq seen' /\ UNCHANGED <<pc, job, snaps>>
      BY <1>3 DEF GameWrites
    <2>3. PrintIsPast'
      BY <2>1, <2>2, WorldNumbers DEF AtMost
    <2>4. pc \in {"players", "recheck"} => job.id \in Ids
      OBVIOUS
    <2>5. LevelInTime'
      BY <2>1, <2>2, <2>4, WorldNumbers, CopyNumbers DEF IsTemp
    <2>6. PlayersInTime'
      BY <2>1, <2>2, <2>4, WorldNumbers, CopyNumbers DEF IsTemp
    <2> QED BY <2>2, <2>3, <2>5, <2>6
  <1>4. ASSUME NEW stuck \in SUBSET Ids, SweepTemporary(stuck) PROVE Copying'
    <2>1. snaps' = Without(snaps, Temporary(snaps) \ stuck) /\ UNCHANGED <<world, seen, pc, job>>
      BY <1>4 DEF SweepTemporary, RemoveTemporary
    <2>2. pc \in CapturePoints => snaps'[job.id] \in {NoFile, snaps[job.id]}
      BY <2>1, WithoutIsFiles
    <2> QED BY <2>1, <2>2, TempIsFile
  <1>5. ASSUME NEW floor \in Floors, NEW stuck \in SUBSET Ids, SweepUnneeded(floor,
  stuck) PROVE Copying'
    <2>1. snaps' = Without(snaps,
    (OrphanSnapshots \union Expired(floor)) \ stuck) /\ UNCHANGED <<world, seen, pc, job>>
      BY <1>5 DEF SweepUnneeded, RemoveUnneeded
    <2>2. pc \in CapturePoints => snaps'[job.id] \in {NoFile, snaps[job.id]}
      BY <2>1, WithoutIsFiles
    <2> QED BY <2>1, <2>2, TempIsFile
  <1>6. CASE Poll
    <2>1. pc' = "caught" \/ (pc' = "decide" /\ job'.print = world)
      BY <1>6, JobStarts DEF Poll, Worlds
    <2> QED BY <1>6, <2>1, WorldNumbers DEF Poll, AtMost
  <1>7. CASE SeeChange
    BY <1>7 DEF SeeChange
  <1>8. CASE SeeNothing
    BY <1>8 DEF SeeNothing
  <1>9. CASE StartCapture
    BY <1>9 DEF StartCapture
  <1>10. CASE WatchFails
    BY <1>10 DEF WatchFails, ScheduleRetry, NoJob
  <1>11. CASE CopyFails
    <2>1. pc' = "caught"
      BY <1>11 DEF CopyFails, Fault, Throw
    <2> QED BY <2>1
  <1>12. CASE MakeTemporary
    <2>1. lastId' \in Ids
      BY <1>12, BoundsAreNat DEF MakeTemporary, Ids, Numbers
    <2>2. job'.id = lastId' /\ job'.print = job.print
      BY <1>12, <2>1, JobPuts DEF MakeTemporary
    <2>3. snaps'[job'.id] = [ready |-> FALSE, level |-> Absent, players |-> Absent]
      BY <1>12, <2>1, <2>2, PutAt DEF MakeTemporary
    <2>4. pc' = "level" /\ UNCHANGED <<world, seen>>
      BY <1>12 DEF MakeTemporary
    <2> QED BY <1>12, <2>2, <2>3, <2>4 DEF MakeTemporary, IsReady
  <1>13. CASE CopyLevel
    <2>1. CASE IsTemp(snaps[job.id]) /\ readable
      <3> DEFINE new == [snaps[job.id] EXCEPT !.level = world.level]
      <3>1. job.id \in Ids /\ snaps[job.id] \in Copies
        BY <1>13, <2>1, FileIsCopy DEF CopyLevel, IsTemp
      <3>2. ~new.ready /\ new.level = world.level
        BY <3>1, <2>1, CopyPuts, WorldNumbers DEF IsTemp
      <3>3. snaps' = [snaps EXCEPT ![job.id] = new] /\ UNCHANGED <<world, seen, job>> /\ pc' = "players"
        BY <1>13, <2>1 DEF CopyLevel, SetSnap
      <3> HIDE DEF new
      <3>4. snaps'[job'.id] = new
        BY <3>1, <3>3, PutAt
      <3> QED BY <1>13, <3>2, <3>3, <3>4, WorldNumbers DEF CopyLevel, IsReady, AtMost
    <2>2. CASE ~(IsTemp(snaps[job.id]) /\ readable)
      <3>1. pc' = "caught"
        BY <1>13, <2>2 DEF CopyLevel, Throw
      <3> QED BY <3>1
    <2> QED BY <2>1, <2>2
  <1>14. CASE CopyPlayers
    <2>1. CASE readable
      <3>1. job.id \in Ids /\ UNCHANGED <<world, seen, job>> /\ pc' = "recheck"
        BY <1>14, <2>1 DEF CopyPlayers
      <3>2. /\ ~snaps'[job.id].ready /\ snaps'[job.id].players = world.players
            /\ snaps'[job.id].level # Absent => IsTemp(snaps[job.id]) /\ snaps'[job.id].level = snaps[job.id].level
        <4>1. CASE IsTemp(snaps[job.id])
          <5> DEFINE new == [snaps[job.id] EXCEPT !.players = world.players]
          <5>1. ~new.ready /\ new.players = world.players /\ new.level = snaps[job.id].level
            BY <3>1, <4>1, FileIsCopy, CopyPuts, WorldNumbers DEF IsTemp
          <5>2. snaps' = [snaps EXCEPT ![job.id] = new]
            BY <1>14, <2>1, <4>1 DEF CopyPlayers, SetSnap
          <5> HIDE DEF new
          <5>3. snaps'[job.id] = new
            BY <3>1, <5>2, PutAt
          <5> QED BY <4>1, <5>1, <5>3
        <4>2. CASE ~IsTemp(snaps[job.id])
          <5>1. snaps'[job.id] = [ready |-> FALSE, level |-> Absent, players |-> world.players]
            BY <1>14, <2>1, <3>1, <4>2, PutAt DEF CopyPlayers, SetSnap
          <5> QED BY <5>1
        <4> QED BY <4>1, <4>2
      <3>3. world.players # Absent
        BY WorldNumbers
      <3> QED BY <1>14, <3>1, <3>2, <3>3, WorldNumbers DEF CopyPlayers, IsReady, AtMost
    <2>2. CASE ~readable
      <3>1. pc' = "caught"
        BY <1>14, <2>2 DEF CopyPlayers, Throw
      <3> QED BY <3>1
    <2> QED BY <2>1, <2>2
  <1>15. CASE Recheck
    <2>1. CASE readable /\ world = job.print
      <3>1. pc' = "rename" /\ UNCHANGED <<world, seen, job, snaps>> /\ job.id \in Ids
        BY <1>15, <2>1 DEF Recheck
      <3>2. snaps[job.id] # NoFile => IsTemp(snaps[job.id])
        BY <1>15 DEF Recheck, IsReady, IsTemp
      <3>3. CopyIsPrint'
        <4>1. SUFFICES ASSUME snaps[job.id] # NoFile
              PROVE  snaps[job.id].level \in {Absent,
              world.level} /\ snaps[job.id].players = world.players
          BY <2>1, <3>1
        <4> QED BY <1>15, <2>1, <3>1, <3>2, <4>1, CopyNumbers, WorldNumbers DEF Recheck
      <3> QED BY <1>15, <3>1, <3>3 DEF Recheck
    <2>2. CASE ~(readable /\ world = job.print)
      <3>1. pc' = "caught"
        BY <1>15, <2>2 DEF Recheck, Throw
      <3> QED BY <3>1
    <2> QED BY <2>1, <2>2
  <1>16. CASE RenameSnapshot
    <2>1. CASE IsTemp(snaps[job.id])
      <3> DEFINE new == [snaps[job.id] EXCEPT !.ready = TRUE]
      <3>1. job.id \in Ids /\ snaps[job.id] \in Copies
        BY <1>16, <2>1, FileIsCopy DEF RenameSnapshot, IsTemp
      <3>2. new.level = snaps[job.id].level /\ new.players = snaps[job.id].players
        BY <3>1, CopyPuts
      <3>3. snaps' = [snaps EXCEPT ![job.id] = new] /\ UNCHANGED <<world, seen, job>> /\ pc' = "begin"
        BY <1>16, <2>1 DEF RenameSnapshot, SetSnap
      <3> HIDE DEF new
      <3>4. snaps'[job'.id] = new
        BY <3>1, <3>3, PutAt
      <3> QED BY <1>16, <2>1, <3>2, <3>3, <3>4 DEF RenameSnapshot, IsTemp
    <2>2. CASE ~IsTemp(snaps[job.id])
      <3>1. pc' = "caught"
        BY <1>16, <2>2 DEF RenameSnapshot, Throw
      <3> QED BY <3>1
    <2> QED BY <2>1, <2>2
  <1>17. CASE BeginParse
    <2>1. job'.id = job.id /\ job'.print = job.print
      BY <1>17, JobPuts DEF BeginParse
    <2> QED BY <1>17, <2>1 DEF BeginParse
  <1>18. CASE LaunchWorker
    <2>1. pc' = "failed" \/ (UNCHANGED <<world, seen, job, snaps>> /\ pc' = "remember")
      BY <1>18 DEF LaunchWorker, Throw
    <2>2. pc \in {"launch", "wait"}
      BY <1>18 DEF LaunchWorker
    <2> QED BY <2>1, <2>2
  <1>19. CASE RememberWorker
    BY <1>19 DEF RememberWorker
  <1>20. CASE CollectWorker
    <2>1. pc' = "failed" \/ (UNCHANGED <<world, seen, job, snaps>> /\ pc' = "publish")
      BY <1>20 DEF CollectWorker, Throw
    <2>2. pc \in {"launch", "wait"}
      BY <1>20 DEF CollectWorker
    <2> QED BY <2>1, <2>2
  <1>21. CASE WorkerTimesOut
    <2>1. pc' = "failed"
      BY <1>21 DEF WorkerTimesOut, Throw
    <2> QED BY <2>1
  <1>22. CASE PublishCache
    BY <1>22 DEF PublishCache, SetCache
  <1>23. CASE RecordSnapshot
    BY <1>23 DEF RecordSnapshot, RecordRow
  <1>24. CASE ParseFault
    <2>1. pc' = "failed"
      BY <1>24 DEF ParseFault, Fault, Throw
    <2> QED BY <2>1
  <1>25. CASE FinishParse
    BY <1>25 DEF FinishParse
  <1>26. CASE ParseFails
    <2>1. pc' = "poll"
      BY <1>26 DEF ParseFails, Discard, DiscardTemporary, RecordRow, ScheduleRetry
    <2> QED BY <2>1
  <1>27. CASE ParseFailsTwice
    <2>1. pc' = "caught"
      BY <1>27 DEF ParseFailsTwice, Discard, DiscardTemporary, Fault, Throw
    <2> QED BY <2>1
  <1>28. CASE WatchEnds
    BY <1>28 DEF WatchEnds
  <1>29. ASSUME NEW floor \in Floors, Tidy(floor) PROVE Copying'
    <2>1. pc' = "poll"
      BY <1>29 DEF Tidy, CleanStorage
    <2> QED BY <2>1
  <1>30. ASSUME NEW floor \in Floors, Start(floor) PROVE Copying'
    <2>1. pc' = "poll"
      BY <1>30 DEF Start, CleanStorage
    <2> QED BY <2>1
  <1>31. CASE Exit
    <2>1. pc' = "off"
      BY <1>31 DEF Exit, EndProcess
    <2> QED BY <2>1
  <1>32. CASE Crash
    <2>1. pc' = "off"
      BY <1>32 DEF Crash, EndProcess
    <2> QED BY <2>1
  <1>33. CASE UNCHANGED vars
    BY <1>33, <1>1 DEF vars
  <1> QED BY <1>2, <1>3, <1>4, <1>5, <1>6, <1>7, <1>8, <1>9, <1>10, <1>11, <1>12, <1>13, <1>14,
        <1>15, <1>16, <1>17, <1>18, <1>19, <1>20, <1>21, <1>22, <1>23, <1>24, <1>25, <1>26, <1>27,
        <1>28, <1>29, <1>30, <1>31, <1>32, <1>33 DEF Next, Game, Cleaning, Cleanup, Query, Watch, Work,
        Restart

-----------------------------------------------------------------------------
(* What one step does to the published caches, the row, the world and the   *)
(* fingerprint of the capture.                                              *)
CacheFated == \A i \in Ids : IsReady(caches'[i]) => caches'[i] = caches[i] \/ (PublishCache /\ i = job.id)
CurrentFated == current' = current \/ (current' = job.id /\ caches' = caches /\ pc = "record" /\ pc' = "finish")
WorldFated == seen \subseteq seen' /\ AtMost(world, world')
PrintFated ==
  pc' \in PrintPoints =>
    \/ pc \in PrintPoints /\ job'.print = job.print
    \/ job'.print = world /\ world' = world
CurrentKept == current # NoId => caches'[current] = caches[current]

(* A cache that is ready after a step was it before, or it is the one published. *)
LEMMA CacheFate ==
  ASSUME Workers, Captures, Storage, [Next]_vars
  PROVE  CacheFated
  <1> USE DEF CacheFated, Storage, Stores, CacheIsBuilt, Workers, WorkerInParse, Captures, JobNumbered,
        CapturePoints, Event, Goto, LockFree, disk, memory, environment, thread
  <1>1. CASE UNCHANGED caches
    BY <1>1
  <1>2. CASE Game \/ Cleanup \/ RequestReparse \/ Query \/ StopIsSet \/ StopEndsWorker
             \/ Poll \/ SeeChange \/ SeeNothing \/ StartCapture \/ WatchFails \/ CopyFails
             \/ MakeTemporary \/ CopyLevel \/ CopyPlayers \/ Recheck \/ RenameSnapshot
             \/ BeginParse \/ LaunchWorker \/ RememberWorker \/ CollectWorker
             \/ WorkerTimesOut \/ RecordSnapshot \/ ParseFault \/ FinishParse \/ WatchEnds
             \/ WorkerFails
    <2>1. UNCHANGED caches
      <3>1. CASE Game
        BY <3>1 DEF WorldVanishes, WorldReturns, GameWrites, Game
      <3>2. CASE Cleanup
        BY <3>2 DEF PreviewCleanup, RefuseCleanup, ConfirmCleanup, Cleanup
      <3>3. CASE Query
        BY <3>3 DEF ReadItems, NameSnapshot, BeginQuery, Query
      <3>4. CASE Poll \/ SeeChange \/ SeeNothing \/ StartCapture \/ WatchFails \/ CopyFails
                 \/ MakeTemporary \/ CopyLevel
        BY <3>4 DEF Poll, SeeChange, SeeNothing, StartCapture, WatchFails, CopyFails,
            MakeTemporary, CopyLevel
      <3>5. CASE CopyPlayers \/ Recheck \/ RenameSnapshot \/ BeginParse \/ LaunchWorker
                 \/ RememberWorker \/ CollectWorker \/ WorkerTimesOut
        BY <3>5 DEF CopyPlayers, Recheck, RenameSnapshot, BeginParse, LaunchWorker,
            RememberWorker, CollectWorker, WorkerTimesOut
      <3>6. CASE RecordSnapshot \/ ParseFault \/ FinishParse \/ WatchEnds
        BY <3>6 DEF RecordSnapshot, ParseFault, FinishParse, WatchEnds
      <3>7. CASE WorkerFails
        BY <3>7 DEF WorkerFails
      <3>8. CASE RequestReparse \/ StopIsSet \/ StopEndsWorker
        BY <3>8 DEF RequestReparse, StopIsSet, StopEndsWorker
      <3> QED BY <1>2, <3>1, <3>2, <3>3, <3>4, <3>5, <3>6, <3>7, <3>8
    <2> QED BY <1>1, <2>1
  <1>3. ASSUME NEW stuck \in SUBSET Ids, SweepTemporary(stuck) PROVE CacheFated
    <2>1. caches' = Without(caches, Temporary(caches) \ stuck)
      BY <1>3 DEF SweepTemporary, RemoveTemporary
    <2> QED BY <2>1, WithoutKeeps, TempIsFile
  <1>4. ASSUME NEW floor \in Floors, NEW stuck \in SUBSET Ids, SweepUnneeded(floor,
  stuck) PROVE CacheFated
    <2>1. caches' = Without(caches, (OrphanCaches \union Expired(floor)) \ stuck)
      BY <1>4 DEF SweepUnneeded, RemoveUnneeded
    <2> QED BY <2>1, WithoutKeeps, TempIsFile
  <1>5. CASE PublishCache
    <2>1. job.id \in Ids
      BY <1>5 DEF PublishCache
    <2>2. \A i \in Ids : i # job.id => caches'[i] = caches[i]
      BY <1>5, <2>1, PutAt DEF PublishCache, SetCache
    <2> QED BY <1>5, <2>2
  <1>6. CASE ParseFails
    <2>1. \E ids : caches' = Without(caches, ids)
      BY <1>6 DEF ParseFails, Discard, DiscardTemporary
    <2> QED BY <2>1, WithoutKeeps, TempIsFile
  <1>7. CASE ParseFailsTwice
    <2>1. \E ids : caches' = Without(caches, ids)
      BY <1>7 DEF ParseFailsTwice, Discard, DiscardTemporary
    <2> QED BY <2>1, WithoutKeeps, TempIsFile
  <1>8. ASSUME NEW floor \in Floors, Tidy(floor) PROVE CacheFated
    <2>1. \/ caches' = Without(caches, Temporary(caches) \union OrphanCaches \union Expired(floor))
          \/ caches' = caches
      BY <1>8 DEF Tidy, CleanStorage
    <2> QED BY <2>1, WithoutKeeps, TempIsFile
  <1>9. CASE WorkerBuilds
    <2>1. job.id \in Ids /\ snaps[job.id] # NoFile /\ caches' = [caches EXCEPT ![job.id] = [snaps[job.id] EXCEPT !.ready = FALSE]]
      BY <1>9 DEF WorkerBuilds, SetCache, Parsable, IsReady
    <2> DEFINE built == [snaps[job.id] EXCEPT !.ready = FALSE]
    <2>2. built.ready = FALSE
      BY <2>1, FileIsCopy, CopyPuts
    <2>3. caches'[job.id] = built /\ \A i \in Ids : i # job.id => caches'[i] = caches[i]
      BY <2>1, PutAt
    <2> HIDE DEF built
    <2> QED BY <2>2, <2>3 DEF IsReady
  <1>10. ASSUME NEW floor \in Floors, Start(floor) PROVE CacheFated
    <2>1. \/ caches' = Without(caches, Temporary(caches) \union OrphanCaches \union Expired(floor))
          \/ caches' = caches
      BY <1>10 DEF Start, CleanStorage
    <2> QED BY <2>1, WithoutKeeps, TempIsFile
  <1>11. CASE Exit
    <2>1. EndProcess
      BY <1>11 DEF Exit
    <2> QED BY <2>1, EndIsStored DEF IsTemp, IsReady
  <1>12. CASE Crash
    <2>1. EndProcess
      BY <1>12 DEF Crash
    <2> QED BY <2>1, EndIsStored DEF IsTemp, IsReady
  <1>13. CASE UNCHANGED vars
    BY <1>13, <1>1 DEF vars
  <1> QED BY <1>2, <1>3, <1>4, <1>5, <1>6, <1>7, <1>8, <1>9, <1>10, <1>11, <1>12, <1>13
      DEF Next, Game, Cleaning, Cleanup, Query, Watch, Work, Restart

(* Only a finished parse changes the current row. *)
LEMMA CurrentFate ==
  ASSUME [Next]_vars
  PROVE  CurrentFated
  <1> USE DEF CurrentFated, Event, Goto, LockFree, disk, memory, environment, thread
  <1>1. CASE UNCHANGED current
    BY <1>1
  <1>2. CASE Game \/ Cleaning \/ Cleanup \/ RequestReparse \/ Query \/ Work \/ Restart
             \/ StopIsSet \/ StopEndsWorker \/ Exit \/ Crash \/ Poll \/ SeeChange
             \/ SeeNothing \/ StartCapture \/ WatchFails \/ CopyFails \/ MakeTemporary
             \/ CopyLevel \/ CopyPlayers \/ Recheck \/ RenameSnapshot \/ BeginParse
             \/ LaunchWorker \/ RememberWorker \/ CollectWorker \/ WorkerTimesOut
             \/ PublishCache \/ ParseFault \/ FinishParse \/ ParseFailsTwice \/ WatchEnds
             \/ (\E floor \in Floors : Tidy(floor))
    <2>1. UNCHANGED current
      <3>1. CASE Game
        BY <3>1 DEF WorldVanishes, WorldReturns, GameWrites, Game
      <3>2. CASE Cleaning
        BY <3>2 DEF SweepTemporary, SweepUnneeded, Cleaning
      <3>3. CASE Cleanup
        BY <3>3 DEF PreviewCleanup, RefuseCleanup, ConfirmCleanup, Cleanup
      <3>4. CASE Query
        BY <3>4 DEF ReadItems, NameSnapshot, BeginQuery, Query
      <3>5. CASE Poll \/ SeeChange \/ SeeNothing \/ StartCapture \/ WatchFails \/ CopyFails
                 \/ MakeTemporary \/ CopyLevel
        BY <3>5 DEF Poll, SeeChange, SeeNothing, StartCapture, WatchFails, CopyFails,
            MakeTemporary, CopyLevel
      <3>6. CASE CopyPlayers \/ Recheck \/ RenameSnapshot \/ BeginParse \/ LaunchWorker
                 \/ RememberWorker \/ CollectWorker \/ WorkerTimesOut
        BY <3>6 DEF CopyPlayers, Recheck, RenameSnapshot, BeginParse, LaunchWorker,
            RememberWorker, CollectWorker, WorkerTimesOut
      <3>7. CASE PublishCache \/ ParseFault \/ FinishParse \/ ParseFailsTwice \/ WatchEnds
                 \/ (\E floor \in Floors : Tidy(floor))
        BY <3>7 DEF PublishCache, ParseFault, FinishParse, ParseFailsTwice, WatchEnds, Tidy
      <3>8. CASE Work
        BY <3>8 DEF WorkerBuilds, WorkerFails, Work
      <3>9. CASE Restart
        BY <3>9 DEF Start, Restart
      <3>10. CASE RequestReparse \/ StopIsSet \/ StopEndsWorker \/ Exit \/ Crash
        BY <3>10 DEF RequestReparse, StopIsSet, StopEndsWorker, Exit, Crash, EndProcess
      <3> QED BY <1>2, <3>1, <3>2, <3>3, <3>4, <3>5, <3>6, <3>7, <3>8, <3>9, <3>10
    <2> QED BY <1>1, <2>1
  <1>3. CASE RecordSnapshot
    BY <1>3 DEF RecordSnapshot, RecordRow
  <1>4. CASE ParseFails
    BY <1>4 DEF ParseFails, RecordRow
  <1>5. CASE UNCHANGED vars
    BY <1>5, <1>1 DEF vars
  <1> QED BY <1>2, <1>3, <1>4, <1>5 DEF Next, Game, Cleaning, Cleanup, Query, Watch, Work, Restart

(* The world does not go back. *)
LEMMA WorldFate ==
  ASSUME Worlds, [Next]_vars
  PROVE  WorldFated
  <1> USE WorldNumbers DEF WorldFated, AtMost, Event, Goto, LockFree, disk, memory, environment, thread
  <1>1. CASE UNCHANGED <<world, seen>>
    BY <1>1
  <1>2. CASE Cleaning \/ Cleanup \/ RequestReparse \/ Query \/ Watch \/ Work \/ Restart
             \/ StopIsSet \/ StopEndsWorker \/ Exit \/ Crash \/ WorldVanishes \/ WorldReturns
    <2>1. UNCHANGED <<world, seen>>
      <3>1. CASE WorldVanishes \/ WorldReturns
        BY <3>1 DEF WorldVanishes, WorldReturns
      <3>2. CASE Cleaning
        BY <3>2 DEF SweepTemporary, SweepUnneeded, Cleaning
      <3>3. CASE Cleanup
        BY <3>3 DEF PreviewCleanup, RefuseCleanup, ConfirmCleanup, Cleanup
      <3>4. CASE Query
        BY <3>4 DEF ReadItems, NameSnapshot, BeginQuery, Query
      <3>5. CASE Watch
        BY <3>5 DEF Poll, SeeChange, SeeNothing, StartCapture, WatchFails, CopyFails,
            MakeTemporary, CopyLevel, CopyPlayers, Recheck, RenameSnapshot, BeginParse,
            LaunchWorker, RememberWorker, CollectWorker, WorkerTimesOut, PublishCache,
            RecordSnapshot, ParseFault, FinishParse, ParseFails, ParseFailsTwice, WatchEnds, Tidy,
            Watch
      <3>6. CASE Work
        BY <3>6 DEF WorkerBuilds, WorkerFails, Work
      <3>7. CASE Restart
        BY <3>7 DEF Start, Restart
      <3>8. CASE RequestReparse \/ StopIsSet \/ StopEndsWorker \/ Exit \/ Crash
        BY <3>8 DEF RequestReparse, StopIsSet, StopEndsWorker, Exit, Crash, EndProcess
      <3> QED BY <1>2, <3>1, <3>2, <3>3, <3>4, <3>5, <3>6, <3>7, <3>8
    <2> QED BY <1>1, <2>1
  <1>3. ASSUME NEW part \in {"level", "players"}, GameWrites(part) PROVE WorldFated
    <2>1. world'.level >= world.level /\ world'.players >= world.players
      BY <1>3 DEF GameWrites, Worlds, Prints
    <2>2. seen \subseteq seen'
      BY <1>3 DEF GameWrites
    <2> QED BY <2>1, <2>2
  <1>4. CASE UNCHANGED vars
    BY <1>4, <1>1 DEF vars
  <1> QED BY <1>2, <1>3, <1>4 DEF Next, Game, Cleaning, Cleanup, Query, Watch, Work, Restart

(* A capture keeps its fingerprint. *)
LEMMA PrintFate ==
  ASSUME Worlds, Captures, [Next]_vars
  PROVE  PrintFated
  <1> USE DEF PrintFated, PrintPoints, CapturePoints, Captures, Event, Goto, LockFree, disk,
        memory, environment, thread
  <1>1. CASE UNCHANGED <<pc, job>>
    BY <1>1
  <1>2. CASE Game \/ Cleaning \/ Cleanup \/ RequestReparse \/ Query \/ Work \/ StopIsSet
             \/ StopEndsWorker
    <2>1. UNCHANGED <<pc, job>>
      <3>1. CASE Game
        BY <3>1 DEF WorldVanishes, WorldReturns, GameWrites, Game
      <3>2. CASE Cleaning
        BY <3>2 DEF SweepTemporary, SweepUnneeded, Cleaning
      <3>3. CASE Cleanup
        BY <3>3 DEF PreviewCleanup, RefuseCleanup, ConfirmCleanup, Cleanup
      <3>4. CASE Query
        BY <3>4 DEF ReadItems, NameSnapshot, BeginQuery, Query
      <3>5. CASE Work
        BY <3>5 DEF WorkerBuilds, WorkerFails, Work
      <3>6. CASE RequestReparse \/ StopIsSet \/ StopEndsWorker
        BY <3>6 DEF RequestReparse, StopIsSet, StopEndsWorker
      <3> QED BY <1>2, <3>1, <3>2, <3>3, <3>4, <3>5, <3>6
    <2> QED BY <1>1, <2>1
  <1>3. CASE Poll
    <2>1. pc' = "caught" \/ (job'.print = world /\ world' = world)
      BY <1>3, JobStarts DEF Poll, Worlds
    <2> QED BY <2>1
  <1>4. CASE SeeChange
    BY <1>4 DEF SeeChange
  <1>5. CASE SeeNothing
    BY <1>5 DEF SeeNothing
  <1>6. CASE StartCapture
    BY <1>6 DEF StartCapture
  <1>7. CASE WatchFails
    <2>1. pc' = "poll"
      BY <1>7 DEF WatchFails, ScheduleRetry
    <2> QED BY <2>1
  <1>8. CASE CopyFails
    <2>1. pc' = "caught"
      BY <1>8 DEF CopyFails, Fault, Throw
    <2> QED BY <2>1
  <1>9. CASE MakeTemporary
    <2>1. lastId' \in Ids
      BY <1>9, BoundsAreNat DEF MakeTemporary, Ids, Numbers
    <2>2. job'.print = job.print
      BY <1>9, <2>1, JobPuts DEF MakeTemporary
    <2> QED BY <1>9, <2>2 DEF MakeTemporary
  <1>10. CASE CopyLevel
    BY <1>10 DEF CopyLevel, Throw
  <1>11. CASE CopyPlayers
    BY <1>11 DEF CopyPlayers, Throw
  <1>12. CASE Recheck
    BY <1>12 DEF Recheck, Throw
  <1>13. CASE RenameSnapshot
    BY <1>13 DEF RenameSnapshot, Throw
  <1>14. CASE BeginParse
    <2>1. job'.print = job.print
      BY <1>14, JobPuts DEF BeginParse
    <2> QED BY <1>14, <2>1 DEF BeginParse
  <1>15. CASE LaunchWorker
    BY <1>15 DEF LaunchWorker, Throw
  <1>16. CASE RememberWorker
    BY <1>16 DEF RememberWorker
  <1>17. CASE CollectWorker
    BY <1>17 DEF CollectWorker, Throw
  <1>18. CASE WorkerTimesOut
    <2>1. pc' = "failed"
      BY <1>18 DEF WorkerTimesOut, Throw
    <2> QED BY <2>1
  <1>19. CASE PublishCache
    BY <1>19 DEF PublishCache, SetCache
  <1>20. CASE RecordSnapshot
    BY <1>20 DEF RecordSnapshot, RecordRow
  <1>21. CASE ParseFault
    <2>1. pc' = "failed"
      BY <1>21 DEF ParseFault, Fault, Throw
    <2> QED BY <2>1
  <1>22. CASE FinishParse
    BY <1>22 DEF FinishParse
  <1>23. CASE ParseFails
    <2>1. pc' = "poll"
      BY <1>23 DEF ParseFails, Discard, DiscardTemporary, RecordRow, ScheduleRetry
    <2> QED BY <2>1
  <1>24. CASE ParseFailsTwice
    <2>1. pc' = "caught"
      BY <1>24 DEF ParseFailsTwice, Discard, DiscardTemporary, Fault, Throw
    <2> QED BY <2>1
  <1>25. CASE WatchEnds
    BY <1>25 DEF WatchEnds
  <1>26. ASSUME NEW floor \in Floors, Tidy(floor) PROVE PrintFated
    <2>1. pc' = "poll"
      BY <1>26 DEF Tidy, CleanStorage
    <2> QED BY <2>1
  <1>27. ASSUME NEW floor \in Floors, Start(floor) PROVE PrintFated
    BY <1>27 DEF Start, CleanStorage
  <1>28. CASE Exit
    <2>1. pc' = "off"
      BY <1>28 DEF Exit, EndProcess
    <2> QED BY <2>1
  <1>29. CASE Crash
    <2>1. pc' = "off"
      BY <1>29 DEF Crash, EndProcess
    <2> QED BY <2>1
  <1>30. CASE UNCHANGED vars
    BY <1>30, <1>1 DEF vars
  <1> QED BY <1>2, <1>3, <1>4, <1>5, <1>6, <1>7, <1>8, <1>9, <1>10, <1>11, <1>12, <1>13, <1>14,
        <1>15, <1>16, <1>17, <1>18, <1>19, <1>20, <1>21, <1>22, <1>23, <1>24, <1>25, <1>26, <1>27,
        <1>28, <1>29, <1>30 DEF Next, Game, Cleaning, Cleanup, Query, Watch, Work, Restart

(* The cache shows the fingerprint of its capture. *)
LEMMA CacheIsPrintStep ==
  ASSUME Workers, Captures, Storage, Copying, CacheIsPrint, [Next]_vars
  PROVE  CacheIsPrint'
  <1> USE DEF CacheIsPrint, CacheIsBuilt, Storage, Stores, Workers, ParseKeepsOut,
        CleanupKeepsOut, WorkerInParse, ParsePoints, Captures, JobNumbered, CapturePoints, Event,
        Goto, LockFree, disk, memory, environment, thread
  <1>1. CASE UNCHANGED <<caches, worker, pc, job>>
    BY <1>1
  <1>2. CASE Game \/ Cleanup \/ RequestReparse \/ Query \/ StopIsSet
    <2>1. UNCHANGED <<caches, worker, pc, job>>
      BY <1>2 DEF WorldVanishes, WorldReturns, GameWrites, PreviewCleanup, RefuseCleanup,
          ConfirmCleanup, RequestReparse, ReadItems, NameSnapshot, BeginQuery, StopIsSet, Game,
          Cleanup, Query
    <2> QED BY <1>1, <2>1
  <1>3. ASSUME NEW stuck \in SUBSET Ids, SweepTemporary(stuck) PROVE CacheIsPrint'
    <2>1. cleaner.step # "idle" /\ UNCHANGED <<pc, worker>>
      BY <1>3 DEF SweepTemporary, RemoveTemporary
    <2> QED BY <2>1
  <1>4. ASSUME NEW floor \in Floors, NEW stuck \in SUBSET Ids, SweepUnneeded(floor,
  stuck) PROVE CacheIsPrint'
    <2>1. cleaner.step # "idle" /\ UNCHANGED <<pc, worker>>
      BY <1>4 DEF SweepUnneeded, RemoveUnneeded
    <2> QED BY <2>1
  <1>5. CASE Poll
    BY <1>5 DEF Poll, NoJob
  <1>6. CASE SeeChange
    BY <1>6 DEF SeeChange
  <1>7. CASE SeeNothing
    BY <1>7 DEF SeeNothing
  <1>8. CASE StartCapture
    BY <1>8 DEF StartCapture
  <1>9. CASE WatchFails
    BY <1>9 DEF WatchFails, ScheduleRetry, NoJob
  <1>10. CASE CopyFails
    <2>1. pc' = "caught" /\ worker' # "built"
      BY <1>10 DEF CopyFails, Fault, Throw
    <2> QED BY <2>1
  <1>11. CASE MakeTemporary
    <2>1. pc' \notin {"publish", "record"} /\ worker' # "built"
      BY <1>11 DEF MakeTemporary, Throw
    <2> QED BY <2>1
  <1>12. CASE CopyLevel
    <2>1. pc' \notin {"publish", "record"} /\ worker' # "built"
      BY <1>12 DEF CopyLevel, Throw
    <2> QED BY <2>1
  <1>13. CASE CopyPlayers
    <2>1. pc' \notin {"publish", "record"} /\ worker' # "built"
      BY <1>13 DEF CopyPlayers, Throw
    <2> QED BY <2>1
  <1>14. CASE Recheck
    <2>1. pc' \notin {"publish", "record"} /\ worker' # "built"
      BY <1>14 DEF Recheck, Throw
    <2> QED BY <2>1
  <1>15. CASE RenameSnapshot
    <2>1. pc' \notin {"publish", "record"} /\ worker' # "built"
      BY <1>15 DEF RenameSnapshot, Throw
    <2> QED BY <2>1
  <1>16. CASE BeginParse
    <2>1. pc' \notin {"publish", "record"} /\ worker' # "built"
      BY <1>16 DEF BeginParse, Throw
    <2> QED BY <2>1
  <1>17. CASE LaunchWorker
    <2>1. pc' \notin {"publish", "record"} /\ worker' # "built"
      BY <1>17 DEF LaunchWorker, Throw
    <2> QED BY <2>1
  <1>18. CASE RememberWorker
    BY <1>18 DEF RememberWorker
  <1>19. CASE CollectWorker
    <2>1. worker' # "built" /\ (pc' \in {"publish",
    "record"} => worker = "built" /\ UNCHANGED <<caches, job>>)
      BY <1>19 DEF CollectWorker, Throw
    <2> QED BY <2>1
  <1>20. CASE WorkerTimesOut
    <2>1. pc' = "failed" /\ worker' # "built"
      BY <1>20 DEF WorkerTimesOut, Throw
    <2> QED BY <2>1
  <1>21. CASE PublishCache
    <2>1. job.id \in Ids /\ caches[job.id] # NoFile
      BY <1>21 DEF PublishCache, IsTemp
    <2> DEFINE done == [caches[job.id] EXCEPT !.ready = TRUE]
    <2>2. done.level = caches[job.id].level /\ done.players = caches[job.id].players
      BY <2>1, FileIsCopy, CopyPuts
    <2>3. caches' = [caches EXCEPT ![job.id] = done]
      BY <1>21 DEF PublishCache, SetCache
    <2> HIDE DEF done
    <2>4. caches'[job.id] = done
      BY <2>1, <2>3, PutAt
    <2> QED BY <1>21, <2>2, <2>4 DEF PublishCache, Shows
  <1>22. CASE RecordSnapshot
    BY <1>22 DEF RecordSnapshot, RecordRow
  <1>23. CASE ParseFault
    <2>1. pc' = "failed" /\ worker' # "built"
      BY <1>23 DEF ParseFault, Fault, Throw
    <2> QED BY <2>1
  <1>24. CASE FinishParse
    BY <1>24 DEF FinishParse
  <1>25. CASE ParseFails
    <2>1. pc' = "poll" /\ worker' = worker /\ worker # "built"
      BY <1>25 DEF ParseFails, Discard, DiscardTemporary, RecordRow, ScheduleRetry
    <2> QED BY <2>1
  <1>26. CASE ParseFailsTwice
    <2>1. pc' = "caught" /\ worker' = worker /\ worker # "built"
      BY <1>26 DEF ParseFailsTwice, Discard, DiscardTemporary, Fault, Throw
    <2> QED BY <2>1
  <1>27. CASE WatchEnds
    BY <1>27 DEF WatchEnds
  <1>28. ASSUME NEW floor \in Floors, Tidy(floor) PROVE CacheIsPrint'
    <2>1. pc' = "poll" /\ worker' = worker /\ worker # "built"
      BY <1>28 DEF Tidy, CleanStorage
    <2> QED BY <2>1
  <1>29. CASE WorkerBuilds
    <2>1. job.id \in Ids /\ snaps[job.id] # NoFile /\ snaps[job.id].level # Absent /\ pc \in {"remember", "wait"}
      BY <1>29 DEF WorkerBuilds, Parsable, IsReady
    <2> DEFINE built == [snaps[job.id] EXCEPT !.ready = FALSE]
    <2>2. built.level = snaps[job.id].level /\ built.players = snaps[job.id].players
      BY <2>1, FileIsCopy, CopyPuts
    <2>3. caches' = [caches EXCEPT ![job.id] = built]
      BY <1>29 DEF WorkerBuilds, SetCache
    <2> HIDE DEF built
    <2>4. caches'[job.id] = built
      BY <2>1, <2>3, PutAt
    <2>5. Shows(built, job.print)
      BY <2>1, <2>2 DEF Copying, CopyIsPrint, Shows
    <2> QED BY <1>29, <2>4, <2>5 DEF WorkerBuilds
  <1>30. CASE WorkerFails
    BY <1>30 DEF WorkerFails, Parsable
  <1>31. ASSUME NEW floor \in Floors, Start(floor) PROVE CacheIsPrint'
    <2>1. pc' = "poll" /\ worker' = worker /\ worker # "built"
      BY <1>31 DEF Start, CleanStorage
    <2> QED BY <2>1
  <1>32. CASE StopEndsWorker
    BY <1>32 DEF StopEndsWorker
  <1>33. CASE Exit
    <2>1. pc' = "off" /\ worker' = "none"
      BY <1>33 DEF Exit, EndProcess
    <2> QED BY <2>1
  <1>34. CASE Crash
    <2>1. pc' = "off" /\ worker' = "none"
      BY <1>34 DEF Crash, EndProcess
    <2> QED BY <2>1
  <1>35. CASE UNCHANGED vars
    BY <1>35, <1>1 DEF vars
  <1> QED BY <1>2, <1>3, <1>4, <1>5, <1>6, <1>7, <1>8, <1>9, <1>10, <1>11, <1>12, <1>13, <1>14,
        <1>15, <1>16, <1>17, <1>18, <1>19, <1>20, <1>21, <1>22, <1>23, <1>24, <1>25, <1>26, <1>27,
        <1>28, <1>29, <1>30, <1>31, <1>32, <1>33, <1>34, <1>35 DEF Next, Game, Cleaning, Cleanup,
        Query, Watch, Work, Restart

(* Published caches show states of the past, and the current one no later state *)
(* than the capture under way.                                                  *)
LEMMA ContentsStep ==
  ASSUME Worlds, Worlds', Captures, Stores, Known, Publication, Publication', Copying, Contents,
  CacheIsPrint',
         CacheFated, CurrentFated, WorldFated, PrintFated
  PROVE  Contents' /\ CurrentKept
  <1>1. ASSUME NEW i \in Ids, PublishCache, i = job.id
        PROVE  Shows(caches'[i], job.print) /\ job.print \in seen /\ job.print \in Prints
    <2>1. pc = "publish" /\ pc' = "record" /\ job' = job
      BY <1>1 DEF PublishCache, Goto
    <2> QED BY <1>1, <2>1
        DEF CacheIsPrint, Copying, PrintIsPast, PrintPoints, CapturePoints, Captures, JobPrinted
  <1>2. PublishedIsWhole'
    <2> SUFFICES ASSUME NEW i \in Ids, IsReady(caches'[i])
                 PROVE  [level |-> caches'[i].level, players |-> caches'[i].players] \in seen'
      BY DEF PublishedIsWhole, Caches
    <2>1. CASE caches'[i] = caches[i]
      BY <2>1 DEF Contents, PublishedIsWhole, Caches, WorldFated
    <2>2. CASE PublishCache /\ i = job.id
      <3>1. [level |-> job.print.level, players |-> job.print.players] = job.print
        BY <1>1, <2>2 DEF Prints
      <3> QED BY <1>1, <2>2, <3>1 DEF Shows, WorldFated
    <2> QED BY <2>1, <2>2 DEF CacheFated
  <1>3. CurrentKept
    <2> SUFFICES ASSUME current # NoId PROVE caches'[current] = caches[current]
      BY DEF CurrentKept
    <2>1. CASE current' = current
      <3>1. current \in Ids /\ IsReady(caches'[current])
        BY <2>1 DEF Publication, CurrentIsReadable, Known
      <3>2. ~(PublishCache /\ current = job.id)
        BY DEF PublishCache, Publication, JobIsNew, CapturePoints
      <3> QED BY <3>1, <3>2 DEF CacheFated
    <2>2. CASE current' # current
      BY <2>2 DEF CurrentFated
    <2> QED BY <2>1, <2>2
  <1>4. CurrentIsPast'
    <2> SUFFICES ASSUME current' # NoId
                 PROVE  /\ AtMost(caches'[current'], world')
                        /\ pc' \in PrintPoints => AtMost(caches'[current'], job'.print)
      BY DEF CurrentIsPast
    <2>1. world \in Prints /\ world' \in Prints
      BY DEF Worlds
    <2>2. CASE current' = current
      <3>1. caches'[current'] = caches[current] /\ AtMost(caches[current], world)
        BY <1>3, <2>2 DEF CurrentKept, Contents, CurrentIsPast
      <3>2. caches[current].level \in Nat /\ caches[current].players \in Nat
        <4>1. [level |-> caches[current].level, players |-> caches[current].players] \in Prints
          BY <2>2 DEF Contents, PublishedIsWhole, Caches, Publication, CurrentIsReadable, Worlds, Known
        <4> QED BY <4>1, WorldNumbers
      <3>3. AtMost(caches'[current'], world')
        BY <2>1, <3>1, <3>2, WorldNumbers DEF WorldFated, AtMost
      <3>4. pc' \in PrintPoints => AtMost(caches'[current'], job'.print)
        BY <2>2, <3>1 DEF PrintFated, Contents, CurrentIsPast, AtMost
      <3> QED BY <3>3, <3>4
    <2>3. CASE current' # current
      <3>1. /\ current' = job.id /\ caches' = caches /\ pc = "record" /\ pc' = "finish"
            /\ Shows(caches[job.id], job.print) /\ AtMost(job.print, world) /\ job.print \in Prints
        BY <2>3
          DEF CurrentFated, Contents, CacheIsPrint, Copying, PrintIsPast, PrintPoints, CapturePoints,
              Captures,
             JobPrinted
      <3> QED BY <2>1, <3>1, WorldNumbers DEF WorldFated, AtMost, Shows, PrintPoints, CapturePoints
    <2> QED BY <2>2, <2>3
  <1> QED BY <1>2, <1>3, <1>4 DEF Contents

-----------------------------------------------------------------------------
(* Nothing is on disk, and nobody is at work, when the console first starts. *)
LEMMA InitInv == ASSUME Init PROVE Inv
  <1> USE BoundsAreNat, SentinelsAreFresh
  <1>1. world \in Prints /\ world.level = 0 /\ world.players = 0
    BY DEF Init, Prints, Versions
  <1>2. Worlds
    BY <1>1 DEF Init, Worlds, WritesAreEvents
  <1>3. Captures
    BY JobStarts
      DEF Init, Captures, Points, Numbers, JobNumbered, JobPrinted, CapturePoints, PrintPoints
  <1>4. Memory /\ Workers /\ Requests
    BY DEF Init, Memory, Known, Workers, ParseKeepsOut, CleanupKeepsOut, WorkerInParse, WorkerIsKnown,
       NoWorkerOutlivesStop, Requests, RequestForgets, RequestedReparseIsPending, ParsePoints
  <1>5. Queries
    BY DEF Init, NoQuery, Queries, Readers, QueryKeepsRow, AnswersAreOneSnapshot
  <1>6. Storage /\ Plans
    BY CleanerPuts DEF Init, Storage, Stores, Files, CacheIsBuilt, Plans
  <1>7. Publication
    BY DEF Init, Publication, CurrentIsReadable, JobIsNew, CurrentIsOld, CapturePoints
  <1>8. Copying
    BY DEF Init, Copying, PrintIsPast, CopyIsTemp, LevelInTime, PlayersInTime, CopyIsPrint, PrintPoints,
       CapturePoints
  <1>9. Contents
    BY DEF Init, Contents, CacheIsPrint, PublishedIsWhole, Caches, IsReady, CurrentIsPast
  <1> QED BY <1>2, <1>3, <1>4, <1>5, <1>6, <1>7, <1>8, <1>9 DEF Inv

(* The parts, one after the other. *)
LEMMA StepInv == ASSUME Inv, [Next]_vars PROVE Inv' /\ CurrentKept /\ CurrentFated
  <1> USE DEF Inv
  <1>1. Worlds'
    BY WorldsStep
  <1>2. Captures'
    BY CapturesStep
  <1>3. Memory' /\ Workers' /\ Requests'
    BY MemoryStep, WorkersStep, RequestsStep
  <1>4. Known
    BY DEF Memory
  <1>5. Queries'
    BY <1>4, QueriesStep
  <1>6. Storage'
    BY StorageStep
  <1>7. Stores
    BY DEF Storage
  <1>8. Plans' /\ Copying'
    BY <1>7, PlansStep, CopyingStep
  <1>9. Publication'
    BY <1>4, PublicationStep
  <1>10. CacheIsPrint'
    BY CacheIsPrintStep DEF Contents
  <1>11. CacheFated /\ CurrentFated /\ WorldFated /\ PrintFated
    BY CacheFate, CurrentFate, WorldFate, PrintFate
  <1>12. Contents' /\ CurrentKept
    BY <1>1, <1>4, <1>7, <1>9, <1>10, <1>11, ContentsStep
  <1> QED BY <1>1, <1>2, <1>3, <1>5, <1>6, <1>8, <1>9, <1>11, <1>12

(* The invariant holds in every behaviour. *)
THEOREM Invariance == Spec => []Inv
  <1>1. Init => Inv
    BY InitInv
  <1>2. Inv /\ [Next]_vars => Inv'
    BY StepInv
  <1> QED BY <1>1, <1>2, PTL DEF Spec

-----------------------------------------------------------------------------
(* Every variable of the snapshot service keeps the type its code gives it. *)
THEOREM TypeCorrect == Spec => []TypeOK
  <1>1. Inv => TypeOK
    BY
      DEF Inv, TypeOK, Worlds, Captures, Numbers, Memory, Known, Storage, Stores, Files, Plans,
          Cleaners,
       Queries, Readers, Jobs
  <1> QED BY <1>1, Invariance, PTL

(* The current cache is on disk under its final name, whatever was cleaned up, *)
(* failed or crashed since it was published (_cleanup_storage_locked, the      *)
(* failure path of _capture_and_parse).                                        *)
THEOREM CurrentIsReadableAlways == Spec => []CurrentIsReadable
  <1>1. Inv => CurrentIsReadable
    BY DEF Inv, Publication
  <1> QED BY <1>1, Invariance, PTL

(* A published cache shows one state the world really had, although its parts  *)
(* are copied one after the other while the game writes (_copy_snapshot).      *)
THEOREM PublishedIsWholeAlways == Spec => []PublishedIsWhole
  <1>1. Inv => PublishedIsWhole
    BY DEF Inv, Contents
  <1> QED BY <1>1, Invariance, PTL

(* A requested parse is on its way as long as status() says so.                *)
THEOREM RequestedReparseIsPendingAlways == Spec => []RequestedReparseIsPending
  <1>1. Inv => RequestedReparseIsPending
    BY DEF Inv, Requests
  <1> QED BY <1>1, Invariance, PTL

(* Once stop() has ended the worker it knew of, no worker is waited for that   *)
(* still runs.                                                                 *)
THEOREM NoWorkerOutlivesStopAlways == Spec => []NoWorkerOutlivesStop
  <1>1. Inv => NoWorkerOutlivesStop
    BY DEF Inv, Workers
  <1> QED BY <1>1, Invariance, PTL

(* The items of an answer and the snapshot it names are the same snapshot.     *)
THEOREM AnswersAreOneSnapshotAlways == Spec => []AnswersAreOneSnapshot
  <1>1. Inv => AnswersAreOneSnapshot
    BY DEF Inv, Queries
  <1> QED BY <1>1, Invariance, PTL

(* A current snapshot is only ever replaced by a later state of the world      *)
(* (record_snapshot_version and the watch thread, one capture at a time).      *)
THEOREM CurrentNeverRegressesAlways == Spec => CurrentNeverRegresses
  <1> DEFINE Later ==
        current # NoId /\ current' # current =>
          /\ current' # NoId
          /\ caches'[current'].level >= caches[current].level
          /\ caches'[current'].players >= caches[current].players
  <1>1. ASSUME Inv, [Next]_vars PROVE [Later]_vars
    <2> SUFFICES ASSUME current # NoId, current' # current PROVE Later
      OBVIOUS
    <2>1. current' = job.id /\ caches' = caches /\ pc = "record"
      BY <1>1, StepInv DEF CurrentFated
    <2>2. job.id \in Ids /\ job.print \in Prints
      BY <1>1, <2>1 DEF Inv, Captures, JobNumbered, JobPrinted, CapturePoints, PrintPoints
    <2>3. Shows(caches[job.id], job.print) /\ AtMost(caches[current], job.print)
      BY <1>1, <2>1 DEF Inv, Contents, CacheIsPrint, CurrentIsPast, PrintPoints, CapturePoints
    <2>4. caches[current].level \in Nat /\ caches[current].players \in Nat
      <3>1. [level |-> caches[current].level, players |-> caches[current].players] \in Prints
        BY <1>1
          DEF Inv, Contents, PublishedIsWhole, Caches, Publication, CurrentIsReadable, Worlds, Memory,
             Known
      <3> QED BY <1>1, <3>1, WorldNumbers DEF Inv
    <2>5. job.print.level \in Nat /\ job.print.players \in Nat
      BY <1>1, <2>2, WorldNumbers DEF Inv
    <2> QED BY <2>1, <2>2, <2>3, <2>4, <2>5, SentinelsAreFresh DEF Shows, AtMost
  <1> QED BY <1>1, Invariance, PTL DEF Spec, CurrentNeverRegresses
=============================================================================
