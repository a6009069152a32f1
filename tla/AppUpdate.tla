------------------------------ MODULE AppUpdate ------------------------------
(***************************************************************************)
(* The update of a portable installation (application_updates.py and the   *)
(* scripts apply-downloaded-update.ps1 and upgrade-portable.ps1).          *)
(*                                                                         *)
(* Several consoles (instances) may run from one installation directory.   *)
(* A console that is asked to update takes the update lock of the          *)
(* installation, makes sure that no other console runs from it, downloads  *)
(* a package and starts a helper process; the helper takes the lock over,  *)
(* waits for every console to exit, replaces the four installed parts one  *)
(* after the other, gives the lock back and starts the console again.  The *)
(* administrator may run the same replacement by hand.  Every console      *)
(* looks at the lock when it is launched (__main__.py) and exits if an     *)
(* update is under way.  The lock is a file that names a process; a lock   *)
(* whose process is gone is abandoned and is reclaimed by whoever meets it.*)
(*                                                                         *)
(* Every reading and writing of the lock happens under a guard that the    *)
(* operating system takes back from a process that dies, so that each is   *)
(* one step here.  An update is its lock id, the version it installs and   *)
(* the timestamp of its backups, all numbered in the order of the locks.   *)
(***************************************************************************)
EXTENDS Naturals, FiniteSets

CONSTANTS
  Consoles,    \* the instances of one installation, each with its own data directory
  Manual,      \* who asks for an update that is run by hand
  Nobody,      \* who asks for an update that has not begun
  NoLock,      \* the update lock does not exist
  Missing,     \* a part that is not in its place
  MaxUpdates,  \* updates begun
  MaxEvents    \* launches, ends, failures and delays nobody can count on

ASSUME BoundsAreNat == MaxUpdates \in Nat /\ MaxEvents \in Nat

Ids == 1..MaxUpdates
Versions == 0..MaxUpdates
Phases == {"prepare", "helper", "manual"}
Locks == [id : Ids, phase : Phases]

ASSUME SentinelsAreFresh ==
  /\ Manual \notin Consoles /\ Nobody \notin Consoles /\ Manual # Nobody
  /\ NoLock \notin Locks
  /\ Missing \notin Versions

(* The parts, in the order in which they are replaced. *)
Program == 1
Launcher == 2
Helper == 3
Script == 4
Parts == 1..4
Installs == [Parts -> Versions \union {Missing}]

(* An installation of one version; the packages before 0.2.0 had no scripts. *)
WholeOf(v) == [p \in Parts |-> v]
Older == [p \in Parts |-> IF p \in {Helper, Script} THEN Missing ELSE 0]
Whole == {WholeOf(v) : v \in Versions} \union {Older}

PrepareSteps == {"none", "locked", "alone", "checked", "fetched", "staged", "handing", "handed",
                 "failing", "killing", "releasing", "done"}
Moving == {"moving", "rolling"}
InstallerSteps == {"none", "new", "waiting", "entering", "checking", "saving", "staging", "installed",
                   "launching", "health", "failing", "restoring", "reporting",
                   "finishing", "done", "dead"} \union Moving
PrunerSteps == {"none", "waiting", "ready", "done"}
Updates == [by : Consoles \union {Manual, Nobody}, hosted : BOOLEAN,
            prepare : PrepareSteps, installer : InstallerSteps,
            step : 0..8, pruner : PrunerSteps]
ConsoleStates == {"off", "starting", "refused", "running", "held", "leaving"}
ProgressStates == {"idle", "preparing", "applying", "completed", "failed"}
Active == {"preparing", "applying"}
Disturbances == {"torn", "killed", "user", "slow"}

VARIABLES
  lock,       \* .palserver-console-update.lock
  console,    \* the process of each instance
  progress,   \* application-updates/progress.json of each instance
  fresh,      \* FALSE once updatedAt lies ABANDONED_PROGRESS_GRACE_SECONDS back
  loser,      \* a second request that met the lock and saw no update under way
  upd,        \* the updates: who asked, and where the processes of each are
  installed,  \* the parts in the installation directory
  backups,    \* program-backups: the parts each update has moved away
  disturbed,  \* what went wrong so far (an observation, no program state)
  events      \* events so far

vars == <<lock, console, progress, fresh, loser, upd, installed, backups,
          disturbed, events>>

(* What an event costs, so that a behaviour has only a few of them. *)
Event(what) ==
  /\ events < MaxEvents
  /\ events' = events + 1
  /\ disturbed' = disturbed \union what
NoEvent == UNCHANGED <<disturbed, events>>

NoUpdate == [by |-> Nobody, hosted |-> FALSE, prepare |-> "none",
             installer |-> "none", step |-> 0, pruner |-> "none"]

Init ==
  /\ lock = NoLock
  /\ console \in [Consoles -> {"off", "running"}]
  /\ progress = [c \in Consoles |-> [state |-> "idle", id |-> 0]]
  /\ fresh = [c \in Consoles |-> TRUE]
  /\ loser = [c \in Consoles |-> FALSE]
  /\ upd = [u \in Ids |-> NoUpdate]
  /\ installed \in {WholeOf(0), Older}
  /\ backups = [u \in Ids |-> [p \in Parts |-> Missing]]
  /\ disturbed = {}
  /\ events = 0

-----------------------------------------------------------------------------
(* Processes and the lock. *)

InstallerAlive(u) == upd[u].installer \notin {"none", "done", "dead"}
Present(c) == console[c] # "off"

(* The pid and start time in the lock still name a process. *)
OwnerAlive ==
  IF lock.phase = "prepare" THEN upd[lock.id].hosted ELSE InstallerAlive(lock.id)

(* portable_application_update_in_progress; what it leaves of the lock. *)
InProgress == lock # NoLock /\ OwnerAlive
Reclaimed == IF InProgress THEN lock ELSE NoLock

Owns(u) == lock # NoLock /\ lock.id = u

(* One step: the guard keeps every other process away until it is released *)
(* or its holder dies, and the new contents replace the file as a whole.   *)
SetLock(contents) == lock' = contents

(* The oldest id that is not in use. *)
NextId(u) == upd[u].by = Nobody /\ \A v \in Ids : v < u => upd[v].by # Nobody

Publish(c, state, u) ==
  /\ progress' = [progress EXCEPT ![c] = [state |-> state, id |-> u]]
  /\ fresh' = [fresh EXCEPT ![c] = TRUE]

Prepare(u, step) == upd' = [upd EXCEPT ![u].prepare = step]
Installer(u, step) == upd' = [upd EXCEPT ![u].installer = step]

lockVars == <<lock, upd>>
progressVars == <<progress, fresh, loser>>
fileVars == <<installed, backups>>

(* The process of a console is gone, and the request it was serving with it. *)
EndOf(c) ==
  /\ console' = [console EXCEPT ![c] = "off"]
  /\ loser' = [loser EXCEPT ![c] = FALSE]
  /\ upd' = [u \in Ids |-> IF upd[u].by = c /\ upd[u].hosted
                           THEN [upd[u] EXCEPT !.hosted = FALSE, !.prepare = "done"]
                           ELSE upd[u]]
  /\ UNCHANGED <<lock, progress, fresh, fileVars>>

Start(c) == console' = [console EXCEPT ![c] = IF Present(c) THEN @ ELSE "starting"]
CanStart == installed[Launcher] # Missing /\ installed[Program] # Missing

(* A user starts an instance. *)
Launch(c) ==
  /\ ~Present(c) /\ CanStart
  /\ Event({"user"})
  /\ Start(c)
  /\ UNCHANGED <<lockVars, progressVars, fileVars>>

(* Mutant: the gate looks at the phase of the lock, and lets a helper pass. *)
GateMissesHelper(c) ==
  /\ console[c] = "starting"
  /\ console' = [console EXCEPT ![c] =
       IF InProgress /\ lock.phase # "helper" THEN "refused" ELSE "running"]
  /\ SetLock(Reclaimed)
  /\ NoEvent
  /\ UNCHANGED <<upd, progressVars, fileVars>>

(* The launch gate: the process exists before it looks at the lock. *)
Gate(c) ==
  /\ console[c] = "starting"
  /\ console' = [console EXCEPT ![c] = IF InProgress THEN "refused" ELSE "running"]
  /\ SetLock(Reclaimed)
  /\ NoEvent
  /\ UNCHANGED <<upd, progressVars, fileVars>>

RefusedExits(c) ==
  /\ console[c] = "refused"
  /\ EndOf(c)
  /\ NoEvent

(* The console is closed or killed. *)
Dies(c) ==
  /\ Present(c)
  /\ Event({"killed"})
  /\ EndOf(c)

(* The console exits once it has no open connections.                     *)
Leaves(c) ==
  /\ console[c] = "leaving"
  /\ EndOf(c)
  /\ NoEvent

(* uvicorn waits for its open connections before the lifespan ends, and an *)
(* event stream ends only when the lifespan stops the monitor: a console   *)
(* is held by a browser until the page is closed.                          *)
ClosesTab(c) ==
  /\ console[c] = "held"
  /\ console' = [console EXCEPT ![c] = "leaving"]
  /\ NoEvent
  /\ UNCHANGED <<lockVars, progressVars, fileVars>>

-----------------------------------------------------------------------------
(* The progress of an update, as the console of its data directory sees it. *)

(* Mutant: an old state is taken for abandoned without a look at the lock. *)
AbandonedWhenOld(c) == progress[c].state \in Active /\ ~fresh[c]

(* _progress_is_abandoned *)
Abandoned(c) == progress[c].state \in Active /\ ~fresh[c] /\ ~InProgress

(* The last state of a running update grows older than the grace period.   *)
(* From "restarting" on the helper waits at most 60 of the 90 seconds.     *)
GrowsOld(c) ==
  /\ fresh[c] /\ progress[c].state \in Active
  /\ upd[progress[c].id].installer \notin {"launching", "health"}
  /\ fresh' = [fresh EXCEPT ![c] = FALSE]
  /\ NoEvent
  /\ UNCHANGED <<lockVars, console, progress, loser, fileVars>>

(* progress(): an abandoned update is reported as interrupted. *)
ReadProgress(c) ==
  /\ console[c] = "running" /\ progress[c].state \in Active /\ ~fresh[c]
  /\ SetLock(Reclaimed)
  /\ IF Abandoned(c) THEN Publish(c, "failed", progress[c].id)
                     ELSE UNCHANGED <<progress, fresh>>
  /\ NoEvent
  /\ UNCHANGED <<upd, console, loser, fileVars>>

-----------------------------------------------------------------------------
(* prepare, in the console that was asked. *)

(* _acquire_update_lock: an abandoned lock is reclaimed first. *)
Begin(c, u) ==
  /\ console[c] = "running" /\ NextId(u) /\ ~InProgress
  /\ SetLock([id |-> u, phase |-> "prepare"])
  /\ upd' = [upd EXCEPT ![u] = [NoUpdate EXCEPT !.by = c, !.hosted = TRUE,
                                                !.prepare = "locked"]]
  /\ NoEvent
  /\ UNCHANGED <<console, progressVars, fileVars>>

(* A request that meets the lock of another update looks at the progress, *)
MeetsLock(c) ==
  /\ console[c] = "running" /\ InProgress /\ ~loser[c]
  /\ progress[c].state \notin Active
  /\ Event({})
  /\ loser' = [loser EXCEPT ![c] = TRUE]
  /\ UNCHANGED <<lockVars, console, progress, fresh, fileVars>>

(* and reports its failure only if it saw none: by now there may be one. *)
ReportsLoss(c) ==
  /\ loser[c]
  /\ loser' = [loser EXCEPT ![c] = FALSE]
  /\ Publish(c, "failed", 0)
  /\ NoEvent
  /\ UNCHANGED <<lockVars, console, fileVars>>

(* _other_install_instances_running: processes before their gate count. *)
LookForOthers(u) ==
  /\ upd[u].prepare = "locked"
  /\ Publish(upd[u].by, "preparing", u)
  /\ Prepare(u, IF \E c \in Consoles \ {upd[u].by} : Present(c) THEN "failing" ELSE "alone")
  /\ NoEvent
  /\ UNCHANGED <<lock, console, loser, fileVars>>

(* One stage of the preparation: it may fail, and the next but the last is *)
(* announced when it is done.                                              *)
Stage(u, from, to) ==
  /\ upd[u].prepare = from
  /\ \/ /\ Prepare(u, to) /\ NoEvent
        /\ IF to = "staged" THEN UNCHANGED <<progress, fresh>>
                           ELSE Publish(upd[u].by, "preparing", u)
     \/ Prepare(u, "failing") /\ Event({}) /\ UNCHANGED <<progress, fresh>>
  /\ UNCHANGED <<lock, console, loser, fileVars>>

CheckRelease(u) == Stage(u, "alone", "checked")
Download(u) == Stage(u, "checked", "fetched")
Validate(u) == Stage(u, "fetched", "staged")

StartHelper(u) ==
  /\ upd[u].prepare = "staged"
  /\ IF installed[Helper] = Missing
     THEN Prepare(u, "failing") /\ UNCHANGED <<progress, fresh>>
     ELSE /\ upd' = [upd EXCEPT ![u].prepare = "handing", ![u].installer = "new"]
          /\ Publish(upd[u].by, "preparing", u)
  /\ disturbed' = IF \E v \in Ids : InstallerAlive(v) THEN disturbed \union {"slow"}
                                                     ELSE disturbed
  /\ UNCHANGED events
  /\ UNCHANGED <<lock, console, loser, fileVars>>

(* _wait_for_helper_handoff: the lock names the helper, *)
SeeHandoff(u) ==
  /\ upd[u].prepare = "handing"
  /\ lock = [id |-> u, phase |-> "helper"]
  /\ Prepare(u, "handed")
  /\ Publish(upd[u].by, "preparing", u)
  /\ NoEvent
  /\ UNCHANGED <<lock, console, loser, fileVars>>

(* or another update, or the helper is gone, or too slow. *)
MissHandoff(u) ==
  /\ upd[u].prepare = "handing"
  /\ \/ /\ ~InstallerAlive(u) \/ (lock # NoLock /\ lock.id # u)
        /\ NoEvent
     \/ Event({})
  /\ Prepare(u, "failing")
  /\ UNCHANGED <<lock, console, progressVars, fileVars>>

(* The route records the request and schedules the shutdown. *)
ScheduleShutdown(u) ==
  /\ upd[u].prepare = "handed"
  /\ Prepare(u, "done")
  /\ \/ /\ \E how \in {"held", "leaving"} : console' = [console EXCEPT ![upd[u].by] = how]
        /\ NoEvent
     \/ UNCHANGED console /\ Event({})
  /\ UNCHANGED <<lock, progressVars, fileVars>>

ReportFailure(u) ==
  /\ upd[u].prepare = "failing"
  /\ Publish(upd[u].by, "failed", u)
  /\ Prepare(u, "killing")
  /\ NoEvent
  /\ UNCHANGED <<lock, console, loser, fileVars>>

(* _terminate_helper_process: only a helper that is known to be gone lets *)
(* the lock go.                                                           *)
TerminateHelper(u) ==
  /\ upd[u].prepare = "killing"
  /\ \/ /\ upd' = [upd EXCEPT ![u].prepare = "releasing",
                              ![u].installer = IF InstallerAlive(u) THEN "dead" ELSE @]
        /\ NoEvent
     \/ InstallerAlive(u) /\ Prepare(u, "done") /\ Event({})
  /\ UNCHANGED <<lock, console, progressVars, fileVars>>

ReleaseOwnLock(u) ==
  /\ upd[u].prepare = "releasing"
  /\ SetLock(IF Owns(u) THEN NoLock ELSE lock)
  /\ Prepare(u, "done")
  /\ NoEvent
  /\ UNCHANGED <<console, progressVars, fileVars>>

PrepareStep(u) ==
  \/ LookForOthers(u) \/ CheckRelease(u) \/ Download(u) \/ Validate(u) \/ StartHelper(u) \/ SeeHandoff(u) \/ MissHandoff(u)
  \/ ScheduleShutdown(u) \/ ReportFailure(u) \/ TerminateHelper(u) \/ ReleaseOwnLock(u)

-----------------------------------------------------------------------------
(* The helper, up to the installation. *)

(* Set-UpdateLockOwner *)
TakeLock(u) ==
  /\ upd[u].installer = "new"
  /\ IF Owns(u) THEN /\ SetLock([id |-> u, phase |-> "helper"])
                     /\ Installer(u, "waiting")
                     /\ Publish(upd[u].by, "applying", u)
                ELSE /\ Installer(u, "failing")
                     /\ UNCHANGED <<lock, progress, fresh>>
  /\ NoEvent
  /\ UNCHANGED <<console, loser, fileVars>>

(* Every console of the installation has exited. *)
SeeExits(u) ==
  /\ upd[u].installer = "waiting"
  /\ \A c \in Consoles : ~Present(c)
  /\ Publish(upd[u].by, "applying", u)
  /\ Installer(u, "entering")
  /\ NoEvent
  /\ UNCHANGED <<lock, console, loser, fileVars>>

(* A console that will not exit, or that takes more than two minutes, of *)
(* which the rest of the request takes thirteen seconds at most.         *)
WillStay(c) == console[c] \in {"running", "held"}

ExitTimeout(u) ==
  /\ upd[u].installer = "waiting"
  /\ \/ /\ upd[u].prepare = "done"
        /\ \E c \in Consoles : WillStay(c)
        /\ disturbed' = IF \E c \in Consoles : console[c] \in {"held", "leaving"}
                        THEN disturbed \union {"slow"} ELSE disturbed
        /\ UNCHANGED events
     \/ (\E c \in Consoles : Present(c)) /\ Event({"slow"})
  /\ Installer(u, "failing")
  /\ UNCHANGED <<lock, console, progressVars, fileVars>>

-----------------------------------------------------------------------------
(* upgrade-portable.ps1, run by the helper or by hand. *)

(* New-ManualUpdateLock takes no lock that exists, an abandoned one either. *)
BeginManual(u) ==
  /\ NextId(u) /\ lock = NoLock
  /\ SetLock([id |-> u, phase |-> "manual"])
  /\ upd' = [upd EXCEPT ![u] = [NoUpdate EXCEPT !.by = Manual, !.installer = "checking"]]
  /\ disturbed' = disturbed \union {"user"} /\ UNCHANGED events
  /\ UNCHANGED <<console, progressVars, fileVars>>

(* Where an error of the script leads: the catch of the helper, or the end. *)
AfterError(u) == IF upd[u].by = Manual THEN "finishing" ELSE "failing"

(* Assert-ExistingUpdateLockOwner *)
EnterScript(u) ==
  /\ upd[u].installer = "entering"
  /\ Installer(u, IF lock = [id |-> u, phase |-> "helper"] THEN "checking" ELSE "failing")
  /\ NoEvent
  /\ UNCHANGED <<lock, console, progressVars, fileVars>>

(* The package is complete and its checksums hold, and no console runs. *)
Fit == installed[Program] # Missing /\ \A c \in Consoles : ~Present(c)

CheckPackage(u) ==
  /\ upd[u].installer = "checking"
  /\ \/ Fit /\ Installer(u, "saving") /\ NoEvent
     \/ ~Fit /\ Installer(u, AfterError(u)) /\ NoEvent
     \/ Installer(u, AfterError(u)) /\ Event({})
  /\ UNCHANGED <<lock, console, progressVars, fileVars>>

(* Nothing that is installed changes before the moves begin. *)
BeforeMoves(u, from, to) ==
  /\ upd[u].installer = from
  /\ \/ Installer(u, to) /\ NoEvent
     \/ Installer(u, AfterError(u)) /\ Event({})
  /\ UNCHANGED <<lock, console, progressVars, fileVars>>

(* The databases of all instances are checked and saved, *)
SaveDatabases(u) == BeforeMoves(u, "saving", "staging")

(* and the new parts are copied beside the old ones. *)
StageParts(u) == BeforeMoves(u, "staging", "moving")

(* Part of the next move: its old file to the backups, then its new file in. *)
PartAt(k) == (k \div 2) + 1

(* Windows does not move the directory of a program that runs. *)
InUse(p) == p = Program /\ \E c \in Consoles : Present(c)

MovePart(u) ==
  /\ upd[u].installer = "moving" /\ upd[u].step < 8
  /\ LET p == PartAt(upd[u].step)
     IN /\ ~InUse(p)
        /\ IF upd[u].step % 2 = 0
           THEN /\ backups' = [backups EXCEPT ![u][p] = installed[p]]
                /\ installed' = [installed EXCEPT ![p] = Missing]
           ELSE /\ installed' = [installed EXCEPT ![p] = u]
                /\ UNCHANGED backups
  /\ upd' = [upd EXCEPT ![u].step = @ + 1]
  /\ NoEvent
  /\ UNCHANGED <<lock, console, progressVars>>

(* A move fails, or a checksum of what was moved. *)
MoveFails(u) ==
  /\ upd[u].installer = "moving"
  /\ \/ upd[u].step < 8 /\ InUse(PartAt(upd[u].step)) /\ NoEvent
     \/ Event({})
  /\ Installer(u, "rolling")
  /\ UNCHANGED <<lock, console, progressVars, fileVars>>

(* The script ends: a pruner is started that waits for the completion. *)
EndMoves(u) ==
  /\ upd[u].installer = "moving" /\ upd[u].step = 8
  /\ upd' = [upd EXCEPT ![u].installer = "installed",
                        ![u].pruner = IF upd[u].by = Manual THEN "none" ELSE "waiting"]
  /\ NoEvent
  /\ UNCHANGED <<lock, console, progressVars, fileVars>>

(* Mutant: a part whose old file alone was moved is not moved back. *)
RollBackOnlyReplaced(u) ==
  LET k == upd[u].step
      p == PartAt(k - 1)
  IN /\ upd[u].installer = "rolling" /\ k > 0 /\ ~InUse(p)
     /\ IF k % 2 = 0
        THEN /\ installed' = [installed EXCEPT ![p] = backups[u][p]]
             /\ backups' = [backups EXCEPT ![u][p] = Missing]
        ELSE UNCHANGED fileVars
     /\ upd' = [upd EXCEPT ![u].step = IF k % 2 = 0 THEN k - 2 ELSE k - 1]
     /\ NoEvent
     /\ UNCHANGED <<lock, console, progressVars>>

(* The catch undoes the moves part by part, the last part first. *)
RollBack(u) ==
  LET k == upd[u].step
      p == PartAt(k - 1)
  IN /\ upd[u].installer = "rolling" /\ k > 0 /\ ~InUse(p)
     /\ installed' = [installed EXCEPT ![p] = backups[u][p]]
     /\ backups' = [backups EXCEPT ![u][p] = Missing]
     /\ upd' = [upd EXCEPT ![u].step = IF k % 2 = 0 THEN k - 2 ELSE k - 1]
     /\ NoEvent
     /\ UNCHANGED <<lock, console, progressVars>>

(* Everything is back, or a move of the roll back fails as well. *)
EndRollBack(u) ==
  /\ upd[u].installer = "rolling"
  /\ \/ upd[u].step = 0 /\ NoEvent
     \/ /\ upd[u].step > 0 /\ InUse(PartAt(upd[u].step - 1))
        /\ disturbed' = disturbed \union {"torn"} /\ UNCHANGED events
     \/ upd[u].step > 0 /\ Event({"torn"})
  /\ Installer(u, AfterError(u))
  /\ UNCHANGED <<lock, console, progressVars, fileVars>>

-----------------------------------------------------------------------------
(* The helper, after the installation. *)

(* Release-UpdateLockForLaunch *)
ReleaseForLaunch(u) ==
  /\ upd[u].installer = "installed" /\ upd[u].by # Manual
  /\ IF lock # NoLock /\ lock.id # u
     THEN Installer(u, "failing") /\ UNCHANGED lock
     ELSE Installer(u, "launching") /\ SetLock(NoLock)
  /\ Publish(upd[u].by, "applying", u)
  /\ NoEvent
  /\ UNCHANGED <<console, loser, fileVars>>

StartConsole(u) ==
  /\ upd[u].installer = "launching"
  /\ IF CanStart THEN Start(upd[u].by) /\ Installer(u, "health")
                 ELSE UNCHANGED console /\ Installer(u, "failing")
  /\ NoEvent
  /\ UNCHANGED <<lock, progressVars, fileVars>>

(* Mutant: any console that answers counts, whatever its version. *)
AnyIsHealthy(u) ==
  /\ upd[u].installer = "health"
  /\ console[upd[u].by] = "running"
  /\ Publish(upd[u].by, "completed", u)
  /\ Installer(u, "finishing")
  /\ NoEvent
  /\ UNCHANGED <<lock, console, loser, fileVars>>

(* Wait-ConsoleHealth: the console answers with the expected version. *)
Healthy(u) ==
  /\ upd[u].installer = "health"
  /\ console[upd[u].by] = "running" /\ installed[Program] = u
  /\ Publish(upd[u].by, "completed", u)
  /\ Installer(u, "finishing")
  /\ NoEvent
  /\ UNCHANGED <<lock, console, loser, fileVars>>

HealthTimeout(u) ==
  /\ upd[u].installer = "health"
  /\ \/ console[upd[u].by] \in {"off", "refused"} /\ NoEvent
     \/ console[upd[u].by] = "running" /\ installed[Program] # u /\ NoEvent
     \/ Event({})
  /\ Installer(u, "failing")
  /\ UNCHANGED <<lock, console, progressVars, fileVars>>

(* The catch of the helper: the lock goes first, or the launch is skipped. *)
ReleaseInCatch(u) ==
  /\ upd[u].installer = "failing"
  /\ IF lock # NoLock /\ lock.id # u
     THEN Installer(u, "reporting") /\ UNCHANGED lock
     ELSE Installer(u, "restoring") /\ SetLock(NoLock)
  /\ NoEvent
  /\ UNCHANGED <<console, progressVars, fileVars>>

(* Mutant: the console is started again only after a success. *)
RestoreNothing(u) ==
  /\ upd[u].installer = "restoring"
  /\ UNCHANGED console
  /\ Installer(u, "reporting")
  /\ NoEvent
  /\ UNCHANGED <<lock, progressVars, fileVars>>

(* Restore-ConsoleLauncher: any process of the installation will do. *)
RestoreConsole(u) ==
  /\ upd[u].installer = "restoring"
  /\ IF CanStart /\ \A c \in Consoles : ~Present(c) THEN Start(upd[u].by)
                                                  ELSE UNCHANGED console
  /\ Installer(u, "reporting")
  /\ NoEvent
  /\ UNCHANGED <<lock, progressVars, fileVars>>

ReportHelperFailure(u) ==
  /\ upd[u].installer = "reporting"
  /\ Publish(upd[u].by, "failed", u)
  /\ Installer(u, "finishing")
  /\ NoEvent
  /\ UNCHANGED <<lock, console, loser, fileVars>>

(* The finally of the helper, and that of a script that was run by hand. *)
Finish(u) ==
  /\ upd[u].installer = "finishing"
  /\ SetLock(IF Owns(u) THEN NoLock ELSE lock)
  /\ Installer(u, "done")
  /\ NoEvent
  /\ UNCHANGED <<console, progressVars, fileVars>>

(* The helper, or the script that was run by hand, is killed. *)
InstallerDies(u) ==
  /\ InstallerAlive(u)
  /\ Event(IF upd[u].installer \in Moving THEN {"torn", "killed"} ELSE {"killed"})
  /\ Installer(u, "dead")
  /\ UNCHANGED <<lock, console, progressVars, fileVars>>

InstallerStep(u) ==
  \/ TakeLock(u) \/ SeeExits(u) \/ ExitTimeout(u) \/ EnterScript(u) \/ CheckPackage(u)
  \/ SaveDatabases(u) \/ StageParts(u)
  \/ MovePart(u) \/ MoveFails(u) \/ EndMoves(u) \/ RollBack(u) \/ EndRollBack(u)
  \/ ReleaseForLaunch(u) \/ StartConsole(u) \/ Healthy(u) \/ HealthTimeout(u)
  \/ ReleaseInCatch(u) \/ RestoreConsole(u) \/ ReportHelperFailure(u) \/ Finish(u)

-----------------------------------------------------------------------------
(* Retention of the backups. *)

Groups == {u \in Ids : \E p \in Parts : backups[u][p] # Missing}
Newest(u) == u \in Groups /\ \A v \in Groups : v <= u
Empty == [p \in Parts |-> Missing]

(* Remove-OldUpgradeBackups *)
Pruned == [u \in Ids |-> IF Newest(u) THEN backups[u] ELSE Empty]

(* The script that was run by hand cleans up before it gives the lock back. *)
PruneByHand(u) ==
  /\ upd[u].installer = "installed" /\ upd[u].by = Manual
  /\ backups' = Pruned
  /\ Installer(u, "finishing")
  /\ NoEvent
  /\ UNCHANGED <<lock, console, progressVars, installed>>

Completed(u) ==
  upd[u].by \in Consoles /\ progress[upd[u].by] = [state |-> "completed", id |-> u]

(* The pruner polls the progress, for 90 seconds. *)
PrunerWaits(u) ==
  /\ upd[u].pruner = "waiting"
  /\ upd' = [upd EXCEPT ![u].pruner = IF Completed(u) THEN "ready" ELSE "done"]
  /\ NoEvent
  /\ UNCHANGED <<lock, console, progressVars, fileVars>>

(* Mutant: the pruner does not look for the lock of a later update. *)
PruneUnlocked(u) ==
  /\ upd[u].pruner = "ready"
  /\ backups' = IF Completed(u) THEN Pruned ELSE backups
  /\ upd' = [upd EXCEPT ![u].pruner = "done"]
  /\ NoEvent
  /\ UNCHANGED <<lock, console, progressVars, installed>>

(* Under the guard it looks again, and for a lock. *)
Prune(u) ==
  /\ upd[u].pruner = "ready"
  /\ backups' = IF Completed(u) /\ lock = NoLock THEN Pruned ELSE backups
  /\ upd' = [upd EXCEPT ![u].pruner = "done"]
  /\ NoEvent
  /\ UNCHANGED <<lock, console, progressVars, installed>>

-----------------------------------------------------------------------------
ConsoleStep(c) == Gate(c) \/ RefusedExits(c) \/ Leaves(c) \/ ReportsLoss(c)

Environment(c) == Launch(c) \/ Dies(c) \/ ClosesTab(c) \/ GrowsOld(c) \/ MeetsLock(c)

Next ==
  \/ \E c \in Consoles : ConsoleStep(c) \/ Environment(c) \/ ReadProgress(c)
  \/ \E c \in Consoles, u \in Ids : Begin(c, u)
  \/ \E u \in Ids : BeginManual(u) \/ PrepareStep(u) \/ InstallerStep(u) \/ PruneByHand(u)
                   \/ PrunerWaits(u) \/ Prune(u) \/ InstallerDies(u)

Spec == Init /\ [][Next]_vars

(* The threads and processes of an update run on; users and faults need not. *)
Fairness ==
  /\ \A c \in Consoles : WF_vars(ConsoleStep(c))
  /\ \A u \in Ids : WF_vars(PrepareStep(u)) /\ WF_vars(InstallerStep(u) \/ PruneByHand(u))

FairSpec == Spec /\ Fairness

-----------------------------------------------------------------------------
(* Properties. *)

(* The variables have their types; pids, ids and states are as declared. *)
TypeOK ==
  /\ lock \in Locks \union {NoLock}
  /\ console \in [Consoles -> ConsoleStates]
  /\ progress \in [Consoles -> [state : ProgressStates, id : 0..MaxUpdates]]
  /\ fresh \in [Consoles -> BOOLEAN]
  /\ loser \in [Consoles -> BOOLEAN]
  /\ upd \in [Ids -> Updates]
  /\ installed \in Installs
  /\ backups \in [Ids -> Installs]
  /\ disturbed \in SUBSET Disturbances
  /\ events \in 0..MaxEvents

MovesParts(u) == upd[u].installer \in Moving

(* While the parts are being replaced or put back, by a helper or by hand,   *)
(* no console runs past its launch gate (upgrade-portable.ps1:841, __main__  *)
(* .py:35), and nobody else replaces them.                                   *)
NoConsoleWhileMoving ==
  \A u \in Ids : MovesParts(u) =>
    /\ \A c \in Consoles : console[c] \notin {"running", "held", "leaving"}
    /\ \A v \in Ids : MovesParts(v) => v = u

(* Whenever nobody replaces them, the four parts are those of one package,   *)
(* a failed or refused update included, unless an installer was killed       *)
(* between two moves or the way back failed (upgrade-portable.ps1:948).      *)
InstalledIsWhole ==
  (\A u \in Ids : ~MovesParts(u)) /\ "torn" \notin disturbed => installed \in Whole

(* Likewise the installation that the last update replaced is there in full  *)
(* for a roll back by hand, whatever later updates failed and whenever the   *)
(* cleanup of old backups ran (upgrade-portable.ps1:707).                    *)
PreviousIsKept ==
  (\A u \in Ids : ~MovesParts(u)) /\ "torn" \notin disturbed =>
    \A v \in Ids : installed[Program] = v => backups[v] \in Whole

(* An update is reported as interrupted (application_updates.py:253) only    *)
(* when neither the console nor the helper can bring it any further.         *)
Interrupts(c) ==
  /\ progress[c].state \in Active /\ ~fresh[c]
  /\ progress'[c] = [progress[c] EXCEPT !.state = "failed"] /\ upd' = upd

GoesOn(u) ==
  \/ upd[u].prepare \in {"locked", "alone", "checked", "fetched", "staged"}
  \/ upd[u].installer \in {"waiting", "entering", "checking", "saving", "staging", "installed",
                            "launching", "health"} \union Moving

InterruptedIsOver == [][\A c \in Consoles : Interrupts(c) => ~GoesOn(progress[c].id)]_vars

(* An update that is reported as completed has its console running, and the  *)
(* parts in place are those of its package (apply-downloaded-update.ps1:460).*)
CompletedRuns ==
  [][\A u \in Ids : ~Completed(u) /\ Completed(u)' =>
       /\ console[upd[u].by] = "running"
       /\ installed = WholeOf(u)]_vars

(* A console that leaves for an update comes back, in the new version or in  *)
(* the old one, whichever step of the update fails, unless a process was     *)
(* killed, a user started one, the exit took two minutes, an earlier helper  *)
(* was still about or the way back failed (apply-downloaded-update.ps1:271). *)
ConsoleReturns ==
  \A c \in Consoles :
    console[c] = "leaving" ~> console[c] = "running" \/ disturbed # {}

(* README.md:76: the console exits, is updated and starts again.             *)
UpdateRestarts ==
  \A u \in Ids : upd[u].prepare = "handed" ~> Completed(u)
=============================================================================
