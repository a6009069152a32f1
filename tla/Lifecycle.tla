------------------------------ MODULE Lifecycle ------------------------------
(***************************************************************************)
(* Server operations of the console: the operations table of               *)
(* persistence.py (reserve_operation, transition_operation, recovery at    *)
(* startup) and the threads of lifecycle.py that carry the operations out  *)
(* under the control lock, next to the other users of that lock (backup    *)
(* restore, pending configuration) and the PalServer process itself.       *)
(*                                                                         *)
(* An operation is indexed by its idempotency key: the column is UNIQUE,   *)
(* so a key names at most one operation and the operation id carries no    *)
(* further information.  Wall-clock time appears only as the open/expired  *)
(* status of a force-stop confirmation.                                    *)
(***************************************************************************)
EXTENDS Naturals

CONSTANTS
  Keys,     \* idempotency keys the clients may use (bounds the operations)
  Pids,     \* process ids PalServer may get (bounds the launches)
  NoKey,    \* "no operation": parent of an ordinary operation
  Free, RestoreJob   \* control lock: not held, held by the restore service

ASSUME SentinelsAreFresh ==
  /\ NoKey \notin Keys
  /\ Free \notin Keys \union {RestoreJob}
  /\ RestoreJob \notin Keys

VARIABLES
  ops,       \* the operations table, one row per idempotency key
  pc,        \* pc[k]: where the thread of operation k is
  raised,    \* raised[k]: error the thread of k carries to its handler
  cancelled, \* keys whose cancellation event is set
  expiring,  \* parent whose expired confirmation begin() is about to fail
  lock,      \* holder of the control lock
  handle,    \* handle[k]: the process the thread of k has launched
  pids,      \* running processes of the configured executable
  spawned,   \* pids the operating system has handed out so far
  journal,   \* TRUE while a restore journal is not terminal
  draft      \* pending game configuration: none, pending or in conflict

threadVars == <<pc, raised, cancelled, expiring, lock, handle>>
worldVars == <<pids, spawned, journal, draft>>
vars == <<ops, pc, raised, cancelled, expiring, lock, handle,
          pids, spawned, journal, draft>>

Kinds == {"start", "save", "stop", "restart", "force_stop"}
ApiKinds == Kinds \ {"force_stop"}
RestoreBlockedKinds == {"start", "save", "restart"}

States == {"none", "queued", "running", "awaiting_force_confirmation",
           "succeeded", "failed", "cancelled"}
Terminal == {"succeeded", "failed", "cancelled"}

Stages == {"none", "queued", "countdown", "saving", "stopping", "starting",
           "restarted", "config_applied", "health_check", "process_running",
           "saved", "stopped", "shutdown_timeout", "force_stopping",
           "force_stopped", "force_stop_failed", "force_confirmation_expired",
           "cancelled", "interrupted", "failed"}

Errors == {"none", "RESTORE_RECOVERY_REQUIRED", "CONFIGURATION_UNAVAILABLE",
           "ALREADY_RUNNING", "SERVER_NOT_RUNNING", "REST_UNAVAILABLE",
           "SERVER_RUNNING", "CONFIG_CONFLICT", "CONFIG_WRITE_FAILED",
           "START_FAILED", "SHUTDOWN_TIMEOUT", "FORCE_STOP_TARGET_CHANGED",
           "FORCE_STOP_FAILED", "FORCE_CONFIRMATION_EXPIRED",
           "CONSOLE_RESTARTED"}

Drafts == {"none", "pending", "conflict"}

\* Program points of an operation thread.  From "begin" to "release" it holds
\* the control lock; the handlers of _run ("failing", then "complete" and
\* "closing" with raised set) run after the lock has been released.
LockedPoints == {"begin", "announce", "countdown", "elapsed", "saving",
                 "stopping", "waitExit", "kill", "waitKill", "apply", "launch",
                 "health", "finish", "complete", "closing", "release"}
Points == LockedPoints \union {"idle", "waitLock", "failing"}

Operation ==
  [kind : Kinds, state : States, stage : Stages, error : Errors,
   parent : Keys \union {NoKey},
   target : SUBSET Pids, confirm : {"none", "open", "expired"}]

NoOperation ==
  [kind |-> "start", state |-> "none", stage |-> "none", error |-> "none",
   parent |-> NoKey, target |-> {}, confirm |-> "none"]

(***************************************************************************)
(* persistence.py                                                          *)
(***************************************************************************)

\* _ALLOWED_OPERATION_TRANSITIONS
AllowedNext(s) ==
  CASE s = "queued" -> {"running", "failed"}
    [] s = "running" -> {"running", "succeeded", "failed", "cancelled",
                         "awaiting_force_confirmation"}
    [] s = "awaiting_force_confirmation" -> {"succeeded", "failed"}
    [] OTHER -> {}

\* The table after transition_operation(k, state, stage, error): a row moves
\* along the table above or is rewritten in its own state; a refused transition
\* leaves the table as it was.
Moved(table, k, state, stage, error) ==
  IF table[k].state = state \/ state \in AllowedNext(table[k].state)
  THEN [table EXCEPT ![k].state = state, ![k].stage = stage, ![k].error = error]
  ELSE table

Move(k, state, stage, error) == ops' = Moved(ops, k, state, stage, error)

\* The condition every reservation and begin_restore_journal test: queued or
\* running, or waiting for a confirmation that has not expired.
Active(k) ==
  \/ ops[k].state \in {"queued", "running"}
  \/ ops[k].state = "awaiting_force_confirmation" /\ ops[k].confirm # "expired"

\* Mutant: a restart is not among the blocked operations.
RestartNotBlocked(kind) == kind \in {"start", "save"} /\ journal

\* A restore that needs resume or rollback blocks the operations that would
\* start or save the world.
RestoreBlocks(kind) == kind \in RestoreBlockedKinds /\ journal

(***************************************************************************)
(* Initial state: an empty table, no thread, a server that runs or not.    *)
(***************************************************************************)
Init ==
  /\ ops = [k \in Keys |-> NoOperation]
  /\ pc = [k \in Keys |-> "idle"]
  /\ raised = [k \in Keys |-> "none"]
  /\ cancelled = {}
  /\ expiring = NoKey
  /\ lock = Free
  /\ handle = [k \in Keys |-> {}]
  /\ pids \in {{}} \union {{p} : p \in Pids}
  /\ spawned = pids
  /\ journal = FALSE
  /\ draft = "none"

(***************************************************************************)
(* begin, confirm_force_stop and cancel, called by the HTTP routes         *)
(***************************************************************************)

Reserve(k, kind, parent, target) ==
  /\ ops' = [ops EXCEPT ![k] =
       [kind |-> kind, state |-> "queued", stage |-> "queued", error |-> "none",
        parent |-> parent, target |-> target, confirm |-> "none"]]
  /\ pc' = [pc EXCEPT ![k] = "waitLock"]
  /\ UNCHANGED <<raised, cancelled, expiring, lock, handle, worldVars>>

\* Mutant: an open confirmation does not count as an operation in progress.
BeginDespiteConfirmation(k, kind) ==
  /\ expiring = NoKey
  /\ ops[k].state = "none"
  /\ ~RestoreBlocks(kind)
  /\ \A a \in Keys : ops[a].state \notin {"queued", "running"}
  /\ Reserve(k, kind, NoKey, {})

\* A new request: the key is unused, no restore blocks it, nothing is active.
\* A used key replays its row or is refused; neither changes the state.
Begin(k, kind) ==
  /\ expiring = NoKey
  /\ ops[k].state = "none"
  /\ ~RestoreBlocks(kind)
  /\ \A a \in Keys : ~Active(a)
  /\ Reserve(k, kind, NoKey, {})

\* A force stop is bound to an open confirmation and to its process ids; only
\* the operation that asked for the confirmation may be active besides it.
ConfirmForceStop(k, p) ==
  /\ expiring = NoKey
  /\ ops[k].state = "none"
  /\ ops[p].state = "awaiting_force_confirmation"
  /\ ops[p].confirm = "open"
  /\ ops[p].target # {}
  /\ \A a \in Keys \ {p} : ~Active(a)
  /\ Reserve(k, "force_stop", p, ops[p].target)

\* Mutant: the parent need not be waiting for a confirmation.
ConfirmTooLateForAny(k, p) ==
  /\ expiring = NoKey
  /\ ops[k].state = "none"
  /\ ops[p].state # "none"
  /\ ops[p].confirm # "open"
  /\ expiring' = p
  /\ UNCHANGED <<ops, pc, raised, cancelled, lock, handle, worldVars>>

\* A late confirmation is refused by the database, which has read the parent as
\* waiting.  begin() then fails the parent without asking for a running child;
\* transition_operation reads the row and updates it in two transactions, so
\* the update may meet a row that has been closed meanwhile.
ConfirmTooLate(k, p) ==
  /\ expiring = NoKey
  /\ ops[k].state = "none"
  /\ ops[p].state = "awaiting_force_confirmation"
  /\ ops[p].confirm # "open"
  /\ expiring' = p
  /\ UNCHANGED <<ops, pc, raised, cancelled, lock, handle, worldVars>>

ExpireParent ==
  /\ expiring # NoKey
  /\ ops' = [ops EXCEPT ![expiring].state = "failed",
                        ![expiring].stage = "force_confirmation_expired",
                        ![expiring].error = "FORCE_CONFIRMATION_EXPIRED"]
  /\ expiring' = NoKey
  /\ UNCHANGED <<pc, raised, cancelled, lock, handle, worldVars>>

\* The read of transition_operation came late enough to see the row closed.
ExpireRefused ==
  /\ expiring # NoKey
  /\ ops[expiring].state = "succeeded"
  /\ expiring' = NoKey
  /\ UNCHANGED <<ops, pc, raised, cancelled, lock, handle, worldVars>>

\* cancel() sets the event of a live thread whose row says "countdown".
Cancel(k) ==
  /\ pc[k] # "idle"
  /\ ops[k].stage = "countdown"
  /\ cancelled' = cancelled \union {k}
  /\ UNCHANGED <<ops, pc, raised, expiring, lock, handle, worldVars>>

(***************************************************************************)
(* The thread of operation k                                               *)
(***************************************************************************)

Goto(k, point) == pc' = [pc EXCEPT ![k] = point]

\* Mutant: the lock is not released on the way out.
RaiseWithLock(k, error) ==
  /\ Goto(k, "failing")
  /\ raised' = [raised EXCEPT ![k] = error]
  /\ UNCHANGED <<ops, cancelled, expiring, lock, handle>>

\* An exception leaves the "with control_lock" block, then reaches the handler.
Raise(k, error) ==
  /\ Goto(k, "failing")
  /\ raised' = [raised EXCEPT ![k] = error]
  /\ lock' = Free
  /\ UNCHANGED <<ops, cancelled, expiring, handle>>

\* The restore check is repeated under the lock.
AcquireLock(k) ==
  /\ pc[k] = "waitLock"
  /\ lock = Free
  /\ IF RestoreBlocks(ops[k].kind)
     THEN Raise(k, "RESTORE_RECOVERY_REQUIRED")
     ELSE /\ Goto(k, "begin")
          /\ lock' = k
          /\ UNCHANGED <<ops, raised, cancelled, expiring, handle>>
  /\ UNCHANGED worldVars

\* Profile, INI or REST settings cannot be read.
ConfigurationFails(k) ==
  /\ pc[k] = "begin"
  /\ Raise(k, "CONFIGURATION_UNAVAILABLE")
  /\ UNCHANGED worldVars

BeginStart(k) ==
  /\ pc[k] = "begin"
  /\ ops[k].kind = "start"
  /\ IF pids # {}
     THEN Raise(k, "ALREADY_RUNNING")
     ELSE /\ Goto(k, "apply")
          /\ UNCHANGED <<ops, raised, cancelled, expiring, lock, handle>>
  /\ UNCHANGED worldVars

BeginSave(k) ==
  /\ pc[k] = "begin"
  /\ ops[k].kind = "save"
  /\ IF pids = {}
     THEN Raise(k, "SERVER_NOT_RUNNING")
     ELSE /\ Move(k, "running", "saving", "none")
          /\ Goto(k, "saving")
          /\ UNCHANGED <<raised, cancelled, expiring, lock, handle>>
  /\ UNCHANGED worldVars

\* _graceful_stop binds the processes it found before it counts down; a request
\* may ask for no countdown.
BeginStop(k) ==
  /\ pc[k] = "begin"
  /\ ops[k].kind \in {"stop", "restart"}
  /\ IF pids = {}
     THEN Raise(k, "SERVER_NOT_RUNNING")
     ELSE /\ ops' = Moved([ops EXCEPT ![k].target = pids],
                          k, "running", "countdown", "none")
          /\ \E point \in {"announce", "elapsed"} : Goto(k, point)
          /\ UNCHANGED <<raised, cancelled, expiring, lock, handle>>
  /\ UNCHANGED worldVars

Announce(k) ==
  /\ pc[k] = "announce"
  /\ \/ /\ Goto(k, "countdown")
        /\ UNCHANGED <<ops, raised, cancelled, expiring, lock, handle>>
     \/ Raise(k, "REST_UNAVAILABLE")
  /\ UNCHANGED worldVars

CountdownCancelled(k) ==
  /\ pc[k] = "countdown"
  /\ k \in cancelled
  /\ Move(k, "cancelled", "cancelled", "none")
  /\ Goto(k, "release")
  /\ UNCHANGED <<raised, cancelled, expiring, lock, handle, worldVars>>

\* Event.wait has timed out; a cancellation that arrives now is not seen.
CountdownElapsed(k) ==
  /\ pc[k] = "countdown"
  /\ k \notin cancelled
  /\ Goto(k, "elapsed")
  /\ UNCHANGED <<ops, raised, cancelled, expiring, lock, handle, worldVars>>

EnterSaving(k) ==
  /\ pc[k] = "elapsed"
  /\ Move(k, "running", "saving", "none")
  /\ Goto(k, "saving")
  /\ UNCHANGED <<raised, cancelled, expiring, lock, handle, worldVars>>

\* The REST save; a stop goes on only when it has succeeded.
RestSave(k) ==
  /\ pc[k] = "saving"
  /\ \/ /\ ops[k].kind = "save"
        /\ Move(k, "succeeded", "saved", "none")
        /\ Goto(k, "release")
        /\ UNCHANGED <<raised, cancelled, expiring, lock, handle>>
     \/ /\ ops[k].kind # "save"
        /\ Move(k, "running", "stopping", "none")
        /\ Goto(k, "stopping")
        /\ UNCHANGED <<raised, cancelled, expiring, lock, handle>>
     \/ Raise(k, "REST_UNAVAILABLE")
  /\ UNCHANGED worldVars

RestShutdown(k) ==
  /\ pc[k] = "stopping"
  /\ \/ /\ Goto(k, "waitExit")
        /\ UNCHANGED <<ops, raised, cancelled, expiring, lock, handle>>
     \/ Raise(k, "REST_UNAVAILABLE")
  /\ UNCHANGED worldVars

\* wait_for_exit watches the bound processes only.
TargetExited(k) ==
  /\ pc[k] = "waitExit"
  /\ pids \intersect ops[k].target = {}
  /\ Goto(k, "apply")
  /\ UNCHANGED <<ops, raised, cancelled, expiring, lock, handle, worldVars>>

ShutdownTimeout(k) ==
  /\ pc[k] = "waitExit"
  /\ pids \intersect ops[k].target # {}
  /\ ops' = Moved([ops EXCEPT ![k].confirm = "open"], k,
                  "awaiting_force_confirmation", "shutdown_timeout",
                  "SHUTDOWN_TIMEOUT")
  /\ Goto(k, "release")
  /\ UNCHANGED <<raised, cancelled, expiring, lock, handle, worldVars>>

\* _force_stop: the processes now running must be exactly the bound ones.
BeginForceStop(k) ==
  /\ pc[k] = "begin"
  /\ ops[k].kind = "force_stop"
  /\ IF pids # {} /\ pids # ops[k].target
     THEN Raise(k, "FORCE_STOP_TARGET_CHANGED")
     ELSE /\ Move(k, "running", "force_stopping", "none")
          /\ Goto(k, IF pids = {} THEN "waitKill" ELSE "kill")
          /\ UNCHANGED <<raised, cancelled, expiring, lock, handle>>
  /\ UNCHANGED worldVars

\* Mutant: whatever runs now is killed.
KillWhateverRuns(k) ==
  /\ pc[k] = "kill"
  /\ \E dead \in SUBSET pids : pids' = pids \ dead
  /\ Goto(k, "waitKill")
  /\ UNCHANGED <<ops, raised, cancelled, expiring, lock, handle,
                 spawned, journal, draft>>

\* kill() is sent to every bound process; some may survive it.
Kill(k) ==
  /\ pc[k] = "kill"
  /\ \E dead \in SUBSET ops[k].target : pids' = pids \ dead
  /\ Goto(k, "waitKill")
  /\ UNCHANGED <<ops, raised, cancelled, expiring, lock, handle,
                 spawned, journal, draft>>

WaitKill(k) ==
  /\ pc[k] = "waitKill"
  /\ IF pids \intersect ops[k].target # {}
     THEN Raise(k, "FORCE_STOP_FAILED")
     ELSE /\ Goto(k, "apply")
          /\ UNCHANGED <<ops, raised, cancelled, expiring, lock, handle>>
  /\ UNCHANGED worldVars

\* _apply_pending_config: ConfigService.apply_pending, whose first test is that
\* no server runs, then load_configuration for a start.
AfterApply(k) == IF ops[k].kind \in {"start", "restart"} THEN "launch" ELSE "finish"

\* Mutant: pending configuration is applied while a server runs.
ApplyRefusalWhileRunning ==
  IF draft = "none" THEN "none"
  ELSE IF journal THEN "RESTORE_RECOVERY_REQUIRED"
  ELSE IF draft = "conflict" THEN "CONFIG_CONFLICT"
  ELSE "none"

ApplyRefusal ==
  IF pids # {} THEN "SERVER_RUNNING"
  ELSE IF draft = "none" THEN "none"
  ELSE IF journal THEN "RESTORE_RECOVERY_REQUIRED"
  ELSE IF draft = "conflict" THEN "CONFIG_CONFLICT"
  ELSE "none"

ApplyPending(k) ==
  /\ pc[k] = "apply"
  /\ ApplyRefusal = "none"
  /\ IF draft = "pending"
     THEN Move(k, "running", "config_applied", "none")
     ELSE UNCHANGED ops
  /\ draft' = "none"
  /\ Goto(k, AfterApply(k))
  /\ UNCHANGED <<raised, cancelled, expiring, lock, handle, pids, spawned, journal>>

ApplyFails(k) ==
  /\ pc[k] = "apply"
  /\ \/ ApplyRefusal # "none" /\ Raise(k, ApplyRefusal)
     \/ ApplyRefusal = "none" /\ draft = "pending" /\ Raise(k, "CONFIG_WRITE_FAILED")
  /\ UNCHANGED worldVars

LaunchStage(k) == IF ops[k].kind = "start" THEN "starting" ELSE "health_check"

Launch(k) ==
  /\ pc[k] = "launch"
  /\ \E p \in Pids \ spawned :
       /\ pids' = pids \union {p}
       /\ spawned' = spawned \union {p}
       /\ handle' = [handle EXCEPT ![k] = {p}]
  /\ Move(k, "running", LaunchStage(k), "none")
  /\ Goto(k, "health")
  /\ UNCHANGED <<raised, cancelled, expiring, lock, journal, draft>>

\* The executable cannot be started, or for a start the configuration that was
\* just written cannot be loaded.
LaunchFails(k) ==
  /\ pc[k] = "launch"
  /\ Raise(k, "START_FAILED")
  /\ UNCHANGED worldVars

HealthCheck(k) ==
  /\ pc[k] = "health"
  /\ IF handle[k] \intersect pids = {}
     THEN Raise(k, "START_FAILED")
     ELSE /\ Goto(k, "finish")
          /\ UNCHANGED <<ops, raised, cancelled, expiring, lock, handle>>
  /\ UNCHANGED worldVars

FinalStage(kind) ==
  CASE kind = "start" -> "process_running"
    [] kind = "restart" -> "restarted"
    [] kind = "force_stop" -> "force_stopped"
    [] OTHER -> "stopped"

Finish(k) ==
  /\ pc[k] = "finish"
  /\ Move(k, "succeeded", FinalStage(ops[k].kind), "none")
  /\ Goto(k, IF ops[k].kind = "force_stop" THEN "complete" ELSE "release")
  /\ UNCHANGED <<raised, cancelled, expiring, lock, handle, worldVars>>

Release(k) ==
  /\ pc[k] = "release"
  /\ lock' = Free
  /\ Goto(k, "idle")
  /\ cancelled' = cancelled \ {k}
  /\ handle' = [handle EXCEPT ![k] = {}]
  /\ UNCHANGED <<ops, raised, expiring, worldVars>>

\* The handlers of _run fail the operation first, then a waiting parent.
RecordFailure(k) ==
  /\ pc[k] = "failing"
  /\ Move(k, "failed", "failed", raised[k])
  /\ Goto(k, "complete")
  /\ UNCHANGED <<raised, cancelled, expiring, lock, handle, worldVars>>

\* What follows _complete_force_parent: the end of the locked section after a
\* success, the end of the thread after a failure.
Resolved(k) ==
  IF raised[k] = "none"
  THEN Goto(k, "release") /\ UNCHANGED <<raised, cancelled, handle>>
  ELSE /\ Goto(k, "idle")
       /\ raised' = [raised EXCEPT ![k] = "none"]
       /\ cancelled' = cancelled \ {k}
       /\ handle' = [handle EXCEPT ![k] = {}]

\* Mutant: only a successful force stop closes its parent.
ParentWaitsForSuccess(k) ==
  /\ ops[k].parent # NoKey
  /\ raised[k] = "none"
  /\ ops[ops[k].parent].state = "awaiting_force_confirmation"

ParentWaits(k) ==
  /\ ops[k].parent # NoKey
  /\ ops[ops[k].parent].state = "awaiting_force_confirmation"

\* _complete_force_parent reads the parent; one that does not wait any more is
\* left alone.  The read and the update below are two transactions.
CheckParent(k) ==
  /\ pc[k] = "complete"
  /\ IF ParentWaits(k)
     THEN Goto(k, "closing") /\ UNCHANGED <<raised, cancelled, handle>>
     ELSE Resolved(k)
  /\ UNCHANGED <<ops, expiring, lock, worldVars>>

ParentOutcome(k) ==
  IF raised[k] = "none"
  THEN [state |-> "succeeded", stage |-> "force_stopped", error |-> "none"]
  ELSE [state |-> "failed", stage |-> "force_stop_failed", error |-> raised[k]]

CloseParent(k) ==
  /\ pc[k] = "closing"
  /\ ops' = [ops EXCEPT ![ops[k].parent].state = ParentOutcome(k).state,
                        ![ops[k].parent].stage = ParentOutcome(k).stage,
                        ![ops[k].parent].error = ParentOutcome(k).error]
  /\ Resolved(k)
  /\ UNCHANGED <<expiring, lock, worldVars>>

(***************************************************************************)
(* The other users of the control lock                                     *)
(***************************************************************************)

\* A restore starts on a stopped server with no active operation and leaves a
\* journal behind until it has completed or rolled back.
BeginRestore ==
  /\ lock = Free
  /\ pids = {}
  /\ ~journal
  /\ \A a \in Keys : ~Active(a)
  /\ lock' = RestoreJob
  /\ journal' = TRUE
  /\ UNCHANGED <<ops, pc, raised, cancelled, expiring, handle, pids, spawned, draft>>

\* Resume and rollback test the server and the journal, not the operations.
ResumeRestore ==
  /\ lock = Free
  /\ pids = {}
  /\ journal
  /\ lock' = RestoreJob
  /\ UNCHANGED <<ops, pc, raised, cancelled, expiring, handle, worldVars>>

\* The journal reaches "completed" or "rolled_back" before the lock is released.
JournalEnds ==
  /\ lock = RestoreJob
  /\ journal
  /\ journal' = FALSE
  /\ UNCHANGED <<ops, threadVars, pids, spawned, draft>>

EndRestore ==
  /\ lock = RestoreJob
  /\ lock' = Free
  /\ UNCHANGED <<ops, pc, raised, cancelled, expiring, handle, worldVars>>

\* save_ini and save_world_option record the draft, a conflict with it unless
\* the field is saved again, and apply it at once when no server runs; this
\* apply may be refused or fail after the draft was recorded.
SaveDraft ==
  /\ lock = Free
  /\ \/ draft' = "pending"
     \/ draft = "conflict" /\ UNCHANGED draft
     \/ pids = {} /\ ~journal /\ draft' = "none"
  /\ UNCHANGED <<ops, threadVars, pids, spawned, journal>>

\* One round of _watch_pending.
WatchPending ==
  /\ lock = Free
  /\ draft = "pending"
  /\ pids = {}
  /\ ~journal
  /\ draft' = "none"
  /\ UNCHANGED <<ops, threadVars, pids, spawned, journal>>

(***************************************************************************)
(* Environment                                                             *)
(***************************************************************************)

\* A field of the draft is edited in the live file by someone else.
ExternalEdit ==
  /\ draft = "pending"
  /\ draft' = "conflict"
  /\ UNCHANGED <<ops, threadVars, pids, spawned, journal>>

ServerExit(p) ==
  /\ p \in pids
  /\ pids' = pids \ {p}
  /\ UNCHANGED <<ops, threadVars, spawned, journal, draft>>

\* PalServer.exe is started by hand.  The console cannot close the window
\* between its own last check and its own launch, so the operator is assumed
\* not to start the server in that window, nor while files are restored.
ManualStart(p) ==
  /\ pids = {}
  /\ p \in Pids \ spawned
  /\ lock # RestoreJob
  /\ \A k \in Keys : pc[k] # "launch"
  /\ pids' = {p}
  /\ spawned' = spawned \union {p}
  /\ UNCHANGED <<ops, threadVars, journal, draft>>

\* FORCE_CONFIRMATION_TTL_SECONDS pass while the row waits; the time is not
\* looked at in any other state.
ConfirmationExpires(k) ==
  /\ ops[k].state = "awaiting_force_confirmation"
  /\ ops[k].confirm = "open"
  /\ ops' = [ops EXCEPT ![k].confirm = "expired"]
  /\ UNCHANGED <<threadVars, worldVars>>

\* Mutant: recovery at startup fails every operation.
RecoveredAll ==
  [k \in Keys |->
     IF ops[k].state # "none"
     THEN [ops[k] EXCEPT !.state = "failed", !.stage = "interrupted",
                         !.error = "CONSOLE_RESTARTED"]
     ELSE ops[k]]

\* recover_incomplete_operations
Recovered ==
  [k \in Keys |->
     IF ops[k].state \in {"queued", "running", "awaiting_force_confirmation"}
     THEN [ops[k] EXCEPT !.state = "failed", !.stage = "interrupted",
                         !.error = "CONSOLE_RESTARTED"]
     ELSE ops[k]]

\* The console dies at any point and starts again: its threads are gone, the
\* operating system has released the lock, and the startup hook fails every
\* row that was not terminal.  The server process survives.
ConsoleRestart ==
  /\ ops' = Recovered
  /\ pc' = [k \in Keys |-> "idle"]
  /\ raised' = [k \in Keys |-> "none"]
  /\ cancelled' = {}
  /\ expiring' = NoKey
  /\ lock' = Free
  /\ handle' = [k \in Keys |-> {}]
  /\ UNCHANGED worldVars

(***************************************************************************)
(* Specification                                                           *)
(***************************************************************************)

Request ==
  \/ \E k \in Keys, kind \in ApiKinds : Begin(k, kind)
  \/ \E k, p \in Keys : ConfirmForceStop(k, p) \/ ConfirmTooLate(k, p)
  \/ \E k \in Keys : Cancel(k)

Step(k) ==
  \/ AcquireLock(k) \/ ConfigurationFails(k)
  \/ BeginStart(k) \/ BeginSave(k) \/ BeginStop(k) \/ BeginForceStop(k)
  \/ Announce(k) \/ CountdownCancelled(k) \/ CountdownElapsed(k)
  \/ EnterSaving(k) \/ RestSave(k) \/ RestShutdown(k)
  \/ TargetExited(k) \/ ShutdownTimeout(k)
  \/ Kill(k) \/ WaitKill(k)
  \/ ApplyPending(k) \/ ApplyFails(k)
  \/ Launch(k) \/ LaunchFails(k) \/ HealthCheck(k)
  \/ Finish(k) \/ Release(k) \/ RecordFailure(k)
  \/ CheckParent(k) \/ CloseParent(k)

Other ==
  \/ BeginRestore \/ ResumeRestore \/ JournalEnds \/ EndRestore
  \/ SaveDraft \/ WatchPending

Environment ==
  \/ ExternalEdit
  \/ \E p \in Pids : ServerExit(p) \/ ManualStart(p)
  \/ \E k \in Keys : ConfirmationExpires(k)
  \/ ConsoleRestart

Next ==
  \/ Request
  \/ ExpireParent \/ ExpireRefused
  \/ \E k \in Keys : Step(k)
  \/ Other
  \/ Environment

Spec == Init /\ [][Next]_vars

\* Threads that can go on do so, and a thread that waits for the lock gets it:
\* the holders' sections end, and a lock that is free again and again is
\* polled every 50 ms.  Time passes for an open confirmation.
Fairness ==
  /\ \A k \in Keys : SF_vars(Step(k))
  /\ \A k \in Keys : WF_vars(ConfirmationExpires(k))
  /\ WF_vars(ExpireParent \/ ExpireRefused)
  /\ WF_vars(EndRestore)

FairSpec == Spec /\ Fairness

(***************************************************************************)
(* Properties                                                              *)
(***************************************************************************)

\* Every variable has its type.
TypeOK ==
  /\ ops \in [Keys -> Operation]
  /\ pc \in [Keys -> Points]
  /\ raised \in [Keys -> Errors]
  /\ cancelled \in SUBSET Keys
  /\ expiring \in Keys \union {NoKey}
  /\ lock \in Keys \union {Free, RestoreJob}
  /\ handle \in [Keys -> SUBSET Pids]
  /\ pids \in SUBSET Pids
  /\ spawned \in SUBSET Pids
  /\ journal \in BOOLEAN
  /\ draft \in Drafts

\* Points from which a thread may still act on the server or its files.
Working == Points \ {"idle", "release", "complete", "closing"}

\* A thread that may still act on the server has a row that says so: no path
\* (expiry, force stop of the parent, restore) closes the row under it.
WorkIsActive ==
  \A k \in Keys : pc[k] \in Working => ops[k].state \in {"queued", "running"}

\* reserve_operation admits one operation at a time; the only pair that may be
\* active together is a stop waiting for its confirmation and the force stop
\* bound to it.
OneActive ==
  \A a, b \in Keys :
    Active(a) /\ Active(b) => a = b \/ ops[a].parent = b \/ ops[b].parent = a

\* Two threads are never both inside the control lock, the lock is never held
\* by a thread that has left it, and a failing thread has given it up.
InLock(k) == pc[k] \in LockedPoints /\ raised[k] = "none"

LockIsExclusive == \A k \in Keys : InLock(k) <=> lock = k

\* An installation never runs two servers: start and restart launch only when
\* no process of the executable was left, whoever started it.
OneServer == \A p, q \in pids : p = q

\* A force stop that has ended leaves no confirmation open behind it.  (Audit
\* records, which are not modelled, can be written: see lifecycle.py:506.)
ForceStopClosesParent ==
  \A k \in Keys :
    ops[k].kind = "force_stop" /\ ops[k].state \in Terminal /\ pc[k] = "idle"
      => ops[ops[k].parent].state \in Terminal

\* An operation that no force stop was bound to keeps its outcome:
\* cancellation, recovery at startup and other operations leave it alone.
OutcomeIsFinal ==
  [][\A k \in Keys :
       ops[k].state \in Terminal /\ (\A c \in Keys : ops[c].parent # k)
         => ops'[k].state = ops[k].state]_vars

\* The console launches a server only with no restore left to resume or roll
\* back, no pending configuration left unapplied, and under the lock.
LaunchIsSafe ==
  [][\A k \in Keys : pc[k] = "launch" /\ pc'[k] = "health"
       => ~journal /\ draft = "none" /\ lock = k]_vars

\* A force stop ends only processes that the confirmation named.
ForceStopIsBound ==
  [][\A k \in Keys : pc[k] = "kill" /\ pc'[k] = "waitKill"
       => pids \ pids' \subseteq ops[ops[k].parent].target]_vars

\* Every operation ends, or its confirmation does.
OperationsEnd == \A k \in Keys : Active(k) ~> ~Active(k)

\* The message of a late confirmation, recorded on the operation it was for:
\* the confirmation has expired and nothing was stopped.  No process is killed
\* on the strength of a confirmation that was declared so.
ExpiredStopsNothing ==
  [][\A k \in Keys : pc[k] = "kill" /\ pc'[k] = "waitKill" /\ pids' # pids
       => ops[ops[k].parent].error # "FORCE_CONFIRMATION_EXPIRED"]_vars
=============================================================================
