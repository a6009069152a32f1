--------------------------- MODULE LifecycleProof ---------------------------
(***************************************************************************)
(* Proofs about Lifecycle for any set of keys and any set of processes.    *)
(***************************************************************************)
EXTENDS Lifecycle, TLAPS

(***************************************************************************)
(* What transition_operation does to the table.                            *)
(***************************************************************************)
LEMMA MovedType ==
  ASSUME NEW table \in [Keys -> Operation], NEW k \in Keys,
         NEW state \in States, NEW stage \in Stages, NEW error \in Errors
  PROVE  Moved(table, k, state, stage, error) \in [Keys -> Operation]
BY DEF Moved, Operation

\* An update that writes the three columns without looking at the state.
LEMMA WriteType ==
  ASSUME NEW table \in [Keys -> Operation], NEW k,
         NEW state \in States, NEW stage \in Stages, NEW error \in Errors
  PROVE  [table EXCEPT ![k].state = state, ![k].stage = stage, ![k].error = error]
           \in [Keys -> Operation]
BY DEF Operation

\* Only the row k changes, only in its state, stage and error, and the state
\* only along the transition table.
LEMMA MovedRow ==
  ASSUME NEW table \in [Keys -> Operation], NEW k \in Keys,
         NEW state \in States, NEW stage \in Stages, NEW error \in Errors,
         NEW moved, moved = Moved(table, k, state, stage, error)
  PROVE  /\ \A j \in Keys : j # k => moved[j] = table[j]
         /\ moved[k].kind = table[k].kind
         /\ moved[k].parent = table[k].parent
         /\ moved[k].target = table[k].target
         /\ moved[k].confirm = table[k].confirm
         /\ \/ moved[k].state = table[k].state
            \/ moved[k].state = state /\ state \in AllowedNext(table[k].state)
BY DEF Moved, Operation

(***************************************************************************)
(* Type correctness                                                        *)
(***************************************************************************)
LEMMA InitType == Init => TypeOK
<1> SUFFICES ASSUME Init PROVE TypeOK
  OBVIOUS
<1>1. NoOperation \in Operation
  BY DEF NoOperation, Operation, Kinds, States, Stages, Errors
<1>2. "idle" \in Points /\ "none" \in Errors /\ "none" \in Drafts
  BY DEF Points, Errors, Drafts
<1>3. pids \in SUBSET Pids /\ spawned \in SUBSET Pids
  BY DEF Init
<1>4. QED
  BY <1>1, <1>2, <1>3 DEF Init, TypeOK

LEMMA RequestType == TypeOK /\ Request => TypeOK'
<1> SUFFICES ASSUME TypeOK, Request PROVE TypeOK'
  OBVIOUS
<1> USE DEF TypeOK, threadVars, worldVars
<1>1. ASSUME NEW k \in Keys, NEW kind \in ApiKinds, Begin(k, kind) PROVE TypeOK'
  BY <1>1 DEF Begin, Reserve, Operation, ApiKinds, Kinds, States, Stages, Errors,
     Points, LockedPoints
<1>2. ASSUME NEW k \in Keys, NEW p \in Keys, ConfirmForceStop(k, p) PROVE TypeOK'
  BY <1>2 DEF ConfirmForceStop, Reserve, Operation, Kinds, States, Stages, Errors,
     Points, LockedPoints
<1>3. ASSUME NEW k \in Keys, NEW p \in Keys, ConfirmTooLate(k, p) PROVE TypeOK'
  BY <1>3 DEF ConfirmTooLate
<1>4. ASSUME NEW k \in Keys, Cancel(k) PROVE TypeOK'
  BY <1>4 DEF Cancel
<1>5. QED
  BY <1>1, <1>2, <1>3, <1>4 DEF Request

\* Leaving the locked section by an exception.
LEMMA RaiseType ==
  ASSUME TypeOK, NEW k \in Keys, NEW error \in Errors, Raise(k, error), UNCHANGED worldVars
  PROVE  TypeOK'
BY DEF TypeOK, Raise, Goto, worldVars, Points, LockedPoints

\* A move of the row of k to a point of its thread, the rest unchanged.
LEMMA MoveType ==
  ASSUME TypeOK, NEW k \in Keys, NEW state \in States, NEW stage \in Stages,
         NEW error \in Errors, Move(k, state, stage, error),
         NEW point \in Points, Goto(k, point),
         UNCHANGED <<raised, cancelled, expiring, lock, handle, worldVars>>
  PROVE  TypeOK'
BY MovedType DEF TypeOK, Move, Goto, worldVars

LEMMA GotoType ==
  ASSUME TypeOK, NEW k \in Keys, NEW point \in Points, Goto(k, point),
         UNCHANGED <<ops, raised, cancelled, expiring, lock, handle, worldVars>>
  PROVE  TypeOK'
BY DEF TypeOK, Goto, worldVars

LEMMA StepType == TypeOK => \A k \in Keys : Step(k) => TypeOK'
<1> SUFFICES ASSUME TypeOK, NEW k \in Keys, Step(k) PROVE TypeOK'
  OBVIOUS
<1>s. /\ {"running", "succeeded", "failed", "cancelled"} \subseteq States
      /\ {"none", "saving", "saved", "stopping", "cancelled", "force_stopping",
          "force_stopped", "force_stop_failed", "config_applied", "failed",
          "starting", "health_check", "countdown", "shutdown_timeout", "stopped",
          "restarted", "process_running"} \subseteq Stages
      /\ Points = {"idle", "waitLock", "failing"} \union LockedPoints
  BY DEF States, Stages, Points
<1>e. {"none", "RESTORE_RECOVERY_REQUIRED", "CONFIGURATION_UNAVAILABLE",
       "ALREADY_RUNNING", "SERVER_NOT_RUNNING", "REST_UNAVAILABLE",
       "SERVER_RUNNING", "CONFIG_CONFLICT", "CONFIG_WRITE_FAILED",
       "START_FAILED", "SHUTDOWN_TIMEOUT", "FORCE_STOP_TARGET_CHANGED",
       "FORCE_STOP_FAILED"} \subseteq Errors
  BY DEF Errors
<1>p. {"begin", "announce", "countdown", "elapsed", "saving",
       "stopping", "waitExit", "kill", "waitKill", "apply", "launch",
       "health", "finish", "complete", "closing", "release", "idle"} \subseteq Points
  BY DEF Points, LockedPoints
<1>1. CASE AcquireLock(k)
  <2>1. CASE RestoreBlocks(ops[k].kind)
    BY <1>1, <2>1, <1>e, RaiseType DEF AcquireLock
  <2>2. CASE ~RestoreBlocks(ops[k].kind)
    BY <1>1, <2>2, <1>p DEF AcquireLock, TypeOK, Goto, worldVars
  <2>3. QED BY <2>1, <2>2
<1>2. CASE ConfigurationFails(k)
  BY <1>2, <1>e, RaiseType DEF ConfigurationFails
<1>3. CASE BeginStart(k)
  BY <1>3, <1>e, <1>p, RaiseType, GotoType DEF BeginStart
<1>4. CASE BeginSave(k)
  BY <1>4, <1>e, <1>s, <1>p, RaiseType, MoveType DEF BeginSave
<1>5. CASE BeginStop(k)
  <2>1. CASE pids = {}
    BY <1>5, <2>1, <1>e, RaiseType DEF BeginStop
  <2>2. CASE pids # {}
    <3>1. [ops EXCEPT ![k].target = pids] \in [Keys -> Operation]
      BY DEF TypeOK, Operation
    <3>a. Moved([ops EXCEPT ![k].target = pids], k, "running", "countdown", "none")
            \in [Keys -> Operation]
      BY <3>1, <1>e, <1>s, MovedType
    <3>2. ops' \in [Keys -> Operation]
      BY <1>5, <2>2, <3>a DEF BeginStop
    <3>3. pc' \in [Keys -> Points]
      BY <1>5, <2>2, <1>p DEF BeginStop, Goto, TypeOK
    <3>4. QED BY <1>5, <2>2, <3>2, <3>3 DEF BeginStop, TypeOK, worldVars
  <2>3. QED BY <2>1, <2>2
<1>6. CASE BeginForceStop(k)
  BY <1>6, <1>e, <1>s, <1>p, RaiseType, MoveType DEF BeginForceStop
<1>7. CASE Announce(k)
  BY <1>7, <1>e, <1>p, RaiseType, GotoType DEF Announce
<1>8. CASE CountdownCancelled(k)
  BY <1>8, <1>e, <1>s, <1>p, MoveType DEF CountdownCancelled
<1>9. CASE CountdownElapsed(k)
  BY <1>9, <1>p, GotoType DEF CountdownElapsed
<1>10. CASE EnterSaving(k)
  BY <1>10, <1>e, <1>s, <1>p, MoveType DEF EnterSaving
<1>11. CASE RestSave(k)
  BY <1>11, <1>e, <1>s, <1>p, RaiseType, MoveType DEF RestSave
<1>12. CASE RestShutdown(k)
  BY <1>12, <1>e, <1>p, RaiseType, GotoType DEF RestShutdown
<1>13. CASE TargetExited(k)
  BY <1>13, <1>p, GotoType DEF TargetExited
<1>14. CASE ShutdownTimeout(k)
  <2>1. [ops EXCEPT ![k].confirm = "open"] \in [Keys -> Operation]
    BY DEF TypeOK, Operation
  <2>2. ops' \in [Keys -> Operation]
    BY <1>14, <2>1, <1>e, <1>s, MovedType DEF ShutdownTimeout, States
  <2>3. QED BY <1>14, <2>2, <1>p DEF ShutdownTimeout, TypeOK, Goto, worldVars
<1>15. CASE Kill(k)
  BY <1>15, <1>p DEF Kill, TypeOK, Goto
<1>16. CASE WaitKill(k)
  BY <1>16, <1>e, <1>p, RaiseType, GotoType DEF WaitKill
<1>17. CASE ApplyPending(k)
  <2>1. ops' \in [Keys -> Operation]
    <3>1. Moved(ops, k, "running", "config_applied", "none") \in [Keys -> Operation]
      BY <1>e, <1>s, MovedType DEF TypeOK
    <3>2. QED BY <1>17, <3>1 DEF ApplyPending, Move, TypeOK
  <2>2. QED BY <1>17, <2>1, <1>p DEF ApplyPending, AfterApply, TypeOK, Goto, Drafts
<1>18. CASE ApplyFails(k)
  BY <1>18, <1>e, RaiseType DEF ApplyFails, ApplyRefusal
<1>19. CASE Launch(k)
  <2>1. ops' \in [Keys -> Operation]
    BY <1>19, <1>e, <1>s, MovedType DEF Launch, LaunchStage, Move, TypeOK
  <2>2. QED BY <1>19, <2>1, <1>p DEF Launch, TypeOK, Goto
<1>20. CASE LaunchFails(k)
  BY <1>20, <1>e, RaiseType DEF LaunchFails
<1>21. CASE HealthCheck(k)
  BY <1>21, <1>e, <1>p, RaiseType, GotoType DEF HealthCheck
<1>22. CASE Finish(k)
  BY <1>22, <1>e, <1>s, <1>p, MoveType DEF Finish, FinalStage
<1>23. CASE Release(k)
  BY <1>23, <1>p DEF Release, TypeOK, Goto, worldVars
<1>24. CASE RecordFailure(k)
  BY <1>24, <1>e, <1>s, <1>p, MoveType DEF RecordFailure, TypeOK
<1>25. CASE CheckParent(k)
  BY <1>25, <1>e, <1>p DEF CheckParent, Resolved, Goto, TypeOK, worldVars
<1>26. CASE CloseParent(k)
  <2>1. ops' \in [Keys -> Operation]
    <3> DEFINE outcome == ParentOutcome(k)
    <3>1. /\ outcome.state \in States
          /\ outcome.stage \in Stages
          /\ outcome.error \in Errors
      BY <1>e, <1>s DEF ParentOutcome, TypeOK
    <3>2. ops' = [ops EXCEPT ![ops[k].parent].state = outcome.state,
                             ![ops[k].parent].stage = outcome.stage,
                             ![ops[k].parent].error = outcome.error]
      BY <1>26 DEF CloseParent
    <3> HIDE DEF outcome
    <3>3. QED BY <3>1, <3>2, WriteType DEF TypeOK
  <2>2. QED
    BY <1>26, <2>1, <1>e, <1>p DEF CloseParent, Resolved, Goto, TypeOK, worldVars
<1>27. QED
  BY <1>1, <1>2, <1>3, <1>4, <1>5, <1>6, <1>7, <1>8, <1>9, <1>10, <1>11, <1>12,
     <1>13, <1>14, <1>15, <1>16, <1>17, <1>18, <1>19, <1>20, <1>21, <1>22, <1>23,
     <1>24, <1>25, <1>26 DEF Step

LEMMA OtherType == TypeOK /\ (Other \/ Environment \/ ExpireParent \/ ExpireRefused) => TypeOK'
<1> SUFFICES ASSUME TypeOK, Other \/ Environment \/ ExpireParent \/ ExpireRefused
             PROVE TypeOK'
  OBVIOUS
<1> USE DEF TypeOK, threadVars, worldVars
<1>1. CASE Other
  BY <1>1 DEF Other, BeginRestore, ResumeRestore, JournalEnds, EndRestore, SaveDraft,
     WatchPending, Drafts
<1>2. CASE ExpireParent
  <2>1. /\ "failed" \in States
        /\ "force_confirmation_expired" \in Stages
        /\ "FORCE_CONFIRMATION_EXPIRED" \in Errors
    BY DEF States, Stages, Errors
  <2>2. ops' \in [Keys -> Operation]
    BY <1>2, <2>1, WriteType DEF ExpireParent
  <2>3. QED BY <1>2, <2>2 DEF ExpireParent
<1>3. CASE ExpireRefused
  BY <1>3 DEF ExpireRefused
<1>4. CASE ExternalEdit
  BY <1>4 DEF ExternalEdit, Drafts
<1>5. ASSUME NEW p \in Pids, ServerExit(p) \/ ManualStart(p) PROVE TypeOK'
  BY <1>5 DEF ServerExit, ManualStart
<1>6. ASSUME NEW k \in Keys, ConfirmationExpires(k) PROVE TypeOK'
  BY <1>6 DEF ConfirmationExpires, Operation
<1>7. CASE ConsoleRestart
  <2>1. Recovered \in [Keys -> Operation]
    <3>1. /\ "failed" \in States
          /\ "interrupted" \in Stages
          /\ "CONSOLE_RESTARTED" \in Errors
      BY DEF States, Stages, Errors
    <3>2. ASSUME NEW k \in Keys
          PROVE [ops[k] EXCEPT !.state = "failed", !.stage = "interrupted",
                               !.error = "CONSOLE_RESTARTED"] \in Operation
      BY <3>1 DEF Operation
    <3>3. QED BY <3>2 DEF Recovered
  <2>2. "idle" \in Points /\ "none" \in Errors
    BY DEF Points, Errors
  <2>3. QED BY <1>7, <2>1, <2>2 DEF ConsoleRestart
<1>8. QED
  BY <1>1, <1>2, <1>3, <1>4, <1>5, <1>6, <1>7 DEF Environment

LEMMA NextType == TypeOK /\ [Next]_vars => TypeOK'
<1>1. TypeOK /\ UNCHANGED vars => TypeOK'
  BY DEF TypeOK, vars
<1>2. QED
  BY <1>1, RequestType, StepType, OtherType DEF Next

\* The rows, threads, lock and processes keep their types whatever the clients,
\* the threads, the server and crashes of the console do.
THEOREM TypeCorrect == Spec => []TypeOK
<1>1. Init => TypeOK
  BY InitType
<1>2. TypeOK /\ [Next]_vars => TypeOK'
  BY NextType
<1>3. QED
  BY <1>1, <1>2, PTL DEF Spec

(***************************************************************************)
(* The inductive invariant.                                                *)
(***************************************************************************)

\* Points at which a thread acts on the server or its files under the lock.
Acting == LockedPoints \ {"complete", "closing", "release"}

\* States of a row that no thread of its own works on any more.
Left == Terminal \union {"awaiting_force_confirmation"}

\* The handlers of _run have an error to record, the other points have none.
RaisedAt(k) ==
  /\ pc[k] = "failing" => raised[k] # "none"
  /\ pc[k] \in Acting \union {"idle", "waitLock", "release"} => raised[k] = "none"

LockAt(k) == InLock(k) <=> lock = k

\* A force stop belongs to an operation whose own thread has left the server.
ParentsLeft ==
  \A k \in Keys : ops[k].parent # NoKey => ops[ops[k].parent].state \in Left

\* begin() fails an operation that still waits or that a force stop was bound to.
ExpiringLeft ==
  expiring # NoKey =>
    /\ ops[expiring].state \in Left
    /\ \/ ops[expiring].state = "awaiting_force_confirmation"
       \/ \E c \in Keys : ops[c].parent = expiring

\* An operation that a restore blocks does not act next to an unfinished one.
RestoreRespected ==
  \A k \in Keys : pc[k] \in Acting /\ ops[k].kind \in RestoreBlockedKinds => ~journal

\* Only a reservation starts a thread.
UnusedIsIdle == \A k \in Keys : ops[k].state = "none" => pc[k] = "idle"

LaunchReady(k) ==
  pc[k] = "launch" => /\ pids = {}
                      /\ draft = "none"
                      /\ ops[k].kind \in {"start", "restart"}

Inv ==
  /\ TypeOK
  /\ \A k \in Keys : RaisedAt(k)
  /\ \A k \in Keys : LockAt(k)
  /\ WorkIsActive
  /\ ParentsLeft
  /\ ExpiringLeft
  /\ OneActive
  /\ RestoreRespected
  /\ UnusedIsIdle
  /\ \A k \in Keys : LaunchReady(k)
  /\ OneServer

\* What a step of the thread of k does to threads and lock ...
ThreadStep(k) ==
  /\ pc[k] # "idle"
  /\ \A j \in Keys \ {k} : pc'[j] = pc[j] /\ raised'[j] = raised[j]
  /\ RaisedAt(k)'
  /\ LockAt(k)'
  /\ \A j \in Keys \ {k} : lock' = j <=> lock = j
  /\ UNCHANGED <<expiring, journal>>

\* ... to the row of k, ...
RowStep(k) ==
  /\ \A j \in Keys \ {k} : ops'[j] = ops[j]
  /\ ops'[k].kind = ops[k].kind
  /\ ops'[k].parent = ops[k].parent
  /\ ops'[k].state = ops[k].state \/ ops'[k].state \in AllowedNext(ops[k].state)
  /\ ops'[k] = ops[k] \/ pc[k] \in Working

\* ... how long it goes on working, and what it does to the server.
WorkStep(k) ==
  /\ pc'[k] \in Working =>
       pc[k] \in Working /\ ops'[k].state \in {ops[k].state, "running"}
  /\ pc'[k] \in Acting => pc[k] \in Acting \/ ~RestoreBlocks(ops[k].kind)
  /\ pids' \subseteq pids \/ (pc[k] = "launch" /\ \E p \in Pids : pids' = pids \union {p})
  /\ draft' \in {draft, "none"}
  /\ pc'[k] = "launch" =>
       /\ pids' = {}
       /\ draft' = "none"
       /\ ops[k].kind \in {"start", "restart"}

Summary(k) == ThreadStep(k) /\ RowStep(k) /\ WorkStep(k)

(***************************************************************************)
(* The forms a step takes.                                                 *)
(***************************************************************************)
LEMMA PointFacts ==
  /\ Acting \subseteq Points
  /\ Acting \subseteq LockedPoints
  /\ Working = Acting \union {"waitLock", "failing"}
  /\ LockedPoints = Acting \union {"complete", "closing", "release"}
  /\ {"idle", "waitLock", "failing", "complete", "closing", "release"}
       \intersect Acting = {}
  /\ {"begin", "announce", "countdown", "elapsed", "saving", "stopping",
       "waitExit", "kill", "waitKill", "apply", "launch", "health", "finish"}
       \subseteq Acting
BY DEF Acting, Points, LockedPoints, Working

\* An exception under the lock, or at the moment the lock is taken.
LEMMA RaiseStep ==
  ASSUME TypeOK, NEW k \in Keys, NEW error \in Errors \ {"none"},
         RaisedAt(k), LockAt(k),
         pc[k] \in Acting \/ (pc[k] = "waitLock" /\ lock = Free),
         Raise(k, error), UNCHANGED worldVars
  PROVE  Summary(k)
<1>1. /\ pc'[k] = "failing" /\ raised'[k] = error
      /\ \A j \in Keys \ {k} : pc'[j] = pc[j] /\ raised'[j] = raised[j]
      /\ lock' = Free /\ ops' = ops
      /\ UNCHANGED <<expiring, journal, pids, draft>>
  BY DEF Raise, Goto, TypeOK, worldVars
<1>2. lock \in {k, Free}
  BY PointFacts DEF RaisedAt, LockAt, InLock
<1>3. ThreadStep(k)
  <2>1. RaisedAt(k)'
    BY <1>1, PointFacts DEF RaisedAt
  <2>2. LockAt(k)'
    BY <1>1, PointFacts, SentinelsAreFresh DEF LockAt, InLock
  <2>3. QED
    BY <1>1, <1>2, <2>1, <2>2, PointFacts, SentinelsAreFresh DEF ThreadStep
<1>4. RowStep(k)
  BY <1>1 DEF RowStep
<1>5. WorkStep(k)
  BY <1>1, PointFacts DEF WorkStep
<1>6. QED
  BY <1>3, <1>4, <1>5 DEF Summary

\* The thread goes on under the lock; ThreadStep for such a step.
LEMMA StayStep ==
  ASSUME TypeOK, NEW k \in Keys, RaisedAt(k), LockAt(k), pc[k] \in Acting,
         NEW point \in Acting \union {"complete", "release"}, Goto(k, point),
         UNCHANGED <<raised, expiring, lock, journal>>
  PROVE  ThreadStep(k) /\ pc'[k] = point
<1>1. pc'[k] = point /\ \A j \in Keys \ {k} : pc'[j] = pc[j]
  BY DEF Goto, TypeOK
<1>2. raised[k] = "none" /\ lock = k
  BY PointFacts DEF RaisedAt, LockAt, InLock
<1>3. RaisedAt(k)'
  BY <1>1, <1>2, PointFacts DEF RaisedAt
<1>4. LockAt(k)'
  BY <1>1, <1>2, PointFacts DEF LockAt, InLock
<1>5. QED
  BY <1>1, <1>3, <1>4, PointFacts DEF ThreadStep

\* The thread goes on under the lock and leaves the table alone.
LEMMA GotoStep ==
  ASSUME TypeOK, NEW k \in Keys, RaisedAt(k), LockAt(k), pc[k] \in Acting,
         NEW point \in Acting \ {"launch"}, Goto(k, point),
         UNCHANGED <<ops, raised, expiring, lock, journal, draft>>,
         pids' \subseteq pids
  PROVE  Summary(k)
<1>1. ThreadStep(k) /\ pc'[k] = point
  BY StayStep
<1>2. RowStep(k)
  BY DEF RowStep
<1>3. WorkStep(k)
  BY <1>1, PointFacts DEF WorkStep
<1>4. QED
  BY <1>1, <1>2, <1>3 DEF Summary

\* A move changes only the row of the thread, along the transition table.
LEMMA MoveRow ==
  ASSUME TypeOK, NEW k \in Keys, NEW state \in States, NEW stage \in Stages,
         NEW error \in Errors, Move(k, state, stage, error), pc[k] \in Working
  PROVE  RowStep(k) /\ ops'[k].state \in {ops[k].state, state}
<1>1. ops \in [Keys -> Operation] /\ ops' = Moved(ops, k, state, stage, error)
  BY DEF TypeOK, Move
<1>2. /\ \A j \in Keys : j # k => ops'[j] = ops[j]
      /\ ops'[k].kind = ops[k].kind
      /\ ops'[k].parent = ops[k].parent
      /\ ops'[k].confirm = ops[k].confirm
      /\ \/ ops'[k].state = ops[k].state
         \/ ops'[k].state = state /\ state \in AllowedNext(ops[k].state)
  BY <1>1, MovedRow
<1>3. QED
  BY <1>2 DEF RowStep

\* The thread moves its row and goes on, or has done with the server.
LEMMA MoveStep ==
  ASSUME TypeOK, NEW k \in Keys, RaisedAt(k), LockAt(k), pc[k] \in Acting,
         NEW state \in States, NEW stage \in Stages, NEW error \in Errors,
         Move(k, state, stage, error),
         NEW point \in (Acting \ {"launch"}) \union {"complete", "release"},
         point \in Acting => state = "running", Goto(k, point),
         UNCHANGED <<raised, expiring, lock, journal, pids, draft>>
  PROVE  Summary(k)
<1>1. ThreadStep(k) /\ pc'[k] = point
  BY StayStep
<1>2. RowStep(k) /\ ops'[k].state \in {ops[k].state, state}
  BY PointFacts, MoveRow
<1>3. WorkStep(k)
  BY <1>1, <1>2, PointFacts DEF WorkStep
<1>4. QED
  BY <1>1, <1>2, <1>3 DEF Summary

\* The thread checks the parent or has closed it.
LEMMA ResolvedStep ==
  ASSUME TypeOK, NEW k \in Keys, RaisedAt(k), LockAt(k),
         pc[k] \in {"complete", "closing"},
         \/ Goto(k, "closing") /\ UNCHANGED raised
         \/ Resolved(k),
         UNCHANGED <<expiring, lock, worldVars>>
  PROVE  ThreadStep(k) /\ WorkStep(k)
<1>1. /\ \A j \in Keys \ {k} : pc'[j] = pc[j] /\ raised'[j] = raised[j]
      /\ \/ pc'[k] = "closing" /\ raised'[k] = raised[k]
         \/ raised[k] = "none" /\ pc'[k] = "release" /\ raised'[k] = "none"
         \/ raised[k] # "none" /\ pc'[k] = "idle" /\ raised'[k] = "none"
      /\ UNCHANGED <<expiring, lock, journal, pids, draft>>
  BY DEF Resolved, Goto, TypeOK, worldVars
<1>2. RaisedAt(k)'
  BY <1>1, PointFacts DEF RaisedAt
<1>3. LockAt(k)'
  BY <1>1, PointFacts DEF LockAt, InLock
<1>4. QED
  BY <1>1, <1>2, <1>3, PointFacts DEF ThreadStep, WorkStep

\* Every step of a thread has these effects, except that closing a parent
\* writes the parent's row.
LEMMA StepSummary ==
  ASSUME TypeOK, NEW k \in Keys, RaisedAt(k), LockAt(k), Step(k)
  PROVE  Summary(k) \/ CloseParent(k)
<1>s. /\ {"running", "succeeded", "failed", "cancelled"} \subseteq States
      /\ {"saving", "saved", "stopping", "cancelled", "force_stopping", "countdown",
          "force_stopped", "stopped", "restarted", "process_running"} \subseteq Stages
  BY DEF States, Stages
<1>e. {"RESTORE_RECOVERY_REQUIRED", "CONFIGURATION_UNAVAILABLE",
       "ALREADY_RUNNING", "SERVER_NOT_RUNNING", "REST_UNAVAILABLE",
       "SERVER_RUNNING", "CONFIG_CONFLICT", "CONFIG_WRITE_FAILED",
       "START_FAILED", "FORCE_STOP_TARGET_CHANGED", "FORCE_STOP_FAILED"}
         \subseteq Errors \ {"none"}
  BY DEF Errors
<1>n. "none" \in Errors
  BY DEF Errors
<1> USE PointFacts
<1>1. CASE AcquireLock(k)
  <2>1. CASE RestoreBlocks(ops[k].kind)
    BY <1>1, <2>1, <1>e, RaiseStep DEF AcquireLock
  <2>2. CASE ~RestoreBlocks(ops[k].kind)
    <3>1. /\ pc[k] = "waitLock" /\ lock = Free /\ pc'[k] = "begin" /\ lock' = k
          /\ \A j \in Keys \ {k} : pc'[j] = pc[j]
          /\ ops' = ops /\ raised' = raised
          /\ UNCHANGED <<expiring, journal, pids, draft>>
      BY <1>1, <2>2 DEF AcquireLock, Goto, TypeOK, worldVars
    <3>2. raised[k] = "none"
      BY <3>1 DEF RaisedAt
    <3>3. RaisedAt(k)' /\ LockAt(k)'
      BY <3>1, <3>2 DEF RaisedAt, LockAt, InLock
    <3>4. ThreadStep(k)
      BY <3>1, <3>3, SentinelsAreFresh DEF ThreadStep
    <3>5. RowStep(k) /\ WorkStep(k)
      BY <2>2, <3>1 DEF RowStep, WorkStep
    <3>6. QED BY <3>4, <3>5 DEF Summary
  <2>3. QED BY <2>1, <2>2
<1>2. CASE ConfigurationFails(k)
  BY <1>2, <1>e, RaiseStep DEF ConfigurationFails
<1>3. CASE BeginStart(k)
  BY <1>3, <1>e, RaiseStep, GotoStep DEF BeginStart, worldVars
<1>4. CASE BeginSave(k)
  BY <1>4, <1>e, <1>n, <1>s, RaiseStep, MoveStep DEF BeginSave, worldVars
<1>5. CASE BeginStop(k)
  <2>1. CASE pids = {}
    BY <1>5, <2>1, <1>e, RaiseStep DEF BeginStop
  <2>2. CASE pids # {}
    <3> DEFINE bound == [ops EXCEPT ![k].target = pids]
    <3>1. /\ bound \in [Keys -> Operation]
          /\ \A j \in Keys : j # k => bound[j] = ops[j]
          /\ bound[k].kind = ops[k].kind
          /\ bound[k].parent = ops[k].parent
          /\ bound[k].confirm = ops[k].confirm
          /\ bound[k].state = ops[k].state
      BY DEF TypeOK, Operation
    <3>2. ops' = Moved(bound, k, "running", "countdown", "none") /\ pc[k] \in Working
      BY <1>5, <2>2 DEF BeginStop
    <3> HIDE DEF bound
    <3>3. /\ RowStep(k)
          /\ ops'[k].state \in {ops[k].state, "running"}
      BY <3>1, <3>2, <1>s, <1>n, MovedRow DEF RowStep
    <3>4. PICK point \in {"announce", "elapsed"} : Goto(k, point)
      BY <1>5, <2>2 DEF BeginStop
    <3>5. ThreadStep(k) /\ pc'[k] = point
      BY <1>5, <2>2, <3>4, StayStep DEF BeginStop, worldVars
    <3>6. WorkStep(k)
      BY <1>5, <2>2, <3>3, <3>5 DEF BeginStop, WorkStep, worldVars
    <3>7. QED BY <3>3, <3>5, <3>6 DEF Summary
  <2>3. QED BY <2>1, <2>2
<1>6. CASE BeginForceStop(k)
  BY <1>6, <1>e, <1>n, <1>s, RaiseStep, MoveStep DEF BeginForceStop, worldVars
<1>7. CASE Announce(k)
  BY <1>7, <1>e, RaiseStep, GotoStep DEF Announce, worldVars
<1>8. CASE CountdownCancelled(k)
  BY <1>8, <1>n, <1>s, MoveStep DEF CountdownCancelled, worldVars
<1>9. CASE CountdownElapsed(k)
  BY <1>9, GotoStep DEF CountdownElapsed, worldVars
<1>10. CASE EnterSaving(k)
  BY <1>10, <1>n, <1>s, MoveStep DEF EnterSaving, worldVars
<1>11. CASE RestSave(k)
  BY <1>11, <1>e, <1>n, <1>s, RaiseStep, MoveStep DEF RestSave, worldVars
<1>12. CASE RestShutdown(k)
  BY <1>12, <1>e, RaiseStep, GotoStep DEF RestShutdown, worldVars
<1>13. CASE TargetExited(k)
  BY <1>13, GotoStep DEF TargetExited, worldVars
<1>14. CASE ShutdownTimeout(k)
  <2> DEFINE opened == [ops EXCEPT ![k].confirm = "open"]
  <2>1. /\ opened \in [Keys -> Operation]
        /\ \A j \in Keys : j # k => opened[j] = ops[j]
        /\ opened[k].kind = ops[k].kind
        /\ opened[k].parent = ops[k].parent
        /\ opened[k].state = ops[k].state
    BY DEF TypeOK, Operation
  <2>2. ops' = Moved(opened, k, "awaiting_force_confirmation", "shutdown_timeout",
                     "SHUTDOWN_TIMEOUT")
    BY <1>14 DEF ShutdownTimeout
  <2> HIDE DEF opened
  <2>3. /\ "awaiting_force_confirmation" \in States
        /\ "shutdown_timeout" \in Stages
        /\ "SHUTDOWN_TIMEOUT" \in Errors
    BY DEF States, Stages, Errors
  <2>4. RowStep(k)
    BY <1>14, <2>1, <2>2, <2>3, MovedRow DEF RowStep, ShutdownTimeout
  <2>5. ThreadStep(k) /\ pc'[k] = "release"
    BY <1>14, StayStep DEF ShutdownTimeout, worldVars
  <2>6. WorkStep(k)
    BY <1>14, <2>5 DEF ShutdownTimeout, WorkStep, worldVars
  <2>7. QED BY <2>4, <2>5, <2>6 DEF Summary
<1>15. CASE Kill(k)
  BY <1>15, GotoStep DEF Kill
<1>16. CASE WaitKill(k)
  BY <1>16, <1>e, RaiseStep, GotoStep DEF WaitKill, worldVars
<1>17. CASE ApplyPending(k)
  <2>1. /\ pc[k] = "apply" /\ pids = {}
        /\ draft' = "none" /\ pids' = pids
        /\ Goto(k, AfterApply(k))
        /\ UNCHANGED <<raised, expiring, lock, journal>>
    BY <1>17 DEF ApplyPending, ApplyRefusal
  <2>2. ThreadStep(k) /\ pc'[k] = AfterApply(k)
    BY <2>1, StayStep DEF AfterApply
  <2>3. ops' = ops \/ Move(k, "running", "config_applied", "none")
    BY <1>17 DEF ApplyPending
  <2>4. "config_applied" \in Stages
    BY DEF Stages
  <2>5. RowStep(k) /\ ops'[k].state \in {ops[k].state, "running"}
    <3>1. CASE ops' = ops
      BY <3>1 DEF RowStep
    <3>2. CASE Move(k, "running", "config_applied", "none")
      BY <3>2, <2>1, <2>4, <1>n, <1>s, MoveRow
    <3>3. QED BY <2>3, <3>1, <3>2
  <2>6. WorkStep(k)
    BY <2>1, <2>2, <2>5 DEF WorkStep, AfterApply
  <2>7. QED BY <2>2, <2>5, <2>6 DEF Summary
<1>18. CASE ApplyFails(k)
  BY <1>18, <1>e, RaiseStep DEF ApplyFails, ApplyRefusal
<1>19. CASE Launch(k)
  <2>1. /\ pc[k] = "launch"
        /\ \E p \in Pids : pids' = pids \union {p}
        /\ Move(k, "running", LaunchStage(k), "none")
        /\ Goto(k, "health")
        /\ UNCHANGED <<raised, expiring, lock, journal, draft>>
    BY <1>19 DEF Launch
  <2>2. ThreadStep(k) /\ pc'[k] = "health"
    BY <2>1, StayStep
  <2>3. LaunchStage(k) \in Stages
    BY DEF LaunchStage, Stages
  <2>4. RowStep(k) /\ ops'[k].state \in {ops[k].state, "running"}
    BY <2>1, <2>3, <1>n, <1>s, MoveRow
  <2>5. WorkStep(k)
    BY <2>1, <2>2, <2>4 DEF WorkStep
  <2>6. QED BY <2>2, <2>4, <2>5 DEF Summary
<1>20. CASE LaunchFails(k)
  BY <1>20, <1>e, RaiseStep DEF LaunchFails
<1>21. CASE HealthCheck(k)
  BY <1>21, <1>e, RaiseStep, GotoStep DEF HealthCheck, worldVars
<1>22. CASE Finish(k)
  <2>1. FinalStage(ops[k].kind) \in Stages
    BY <1>s DEF FinalStage
  <2>2. PICK point \in {"complete", "release"} : Goto(k, point)
    BY <1>22 DEF Finish
  <2>3. /\ pc[k] \in Acting
        /\ Move(k, "succeeded", FinalStage(ops[k].kind), "none")
        /\ UNCHANGED <<raised, expiring, lock, journal, pids, draft>>
    BY <1>22 DEF Finish, worldVars
  <2>4. QED BY <2>1, <2>2, <2>3, <1>n, <1>s, MoveStep
<1>23. CASE Release(k)
  <2>1. /\ pc[k] = "release" /\ pc'[k] = "idle" /\ lock' = Free
        /\ \A j \in Keys \ {k} : pc'[j] = pc[j]
        /\ ops' = ops /\ raised' = raised
        /\ UNCHANGED <<expiring, journal, pids, draft>>
    BY <1>23 DEF Release, Goto, TypeOK, worldVars
  <2>2. raised[k] = "none" /\ lock = k
    BY <2>1 DEF RaisedAt, LockAt, InLock
  <2>3. RaisedAt(k)' /\ LockAt(k)'
    BY <2>1, <2>2, SentinelsAreFresh DEF RaisedAt, LockAt, InLock
  <2>4. ThreadStep(k)
    BY <2>1, <2>2, <2>3, SentinelsAreFresh DEF ThreadStep
  <2>5. RowStep(k) /\ WorkStep(k)
    BY <2>1 DEF RowStep, WorkStep
  <2>6. QED BY <2>4, <2>5 DEF Summary
<1>24. CASE RecordFailure(k)
  <2>1. /\ pc[k] = "failing" /\ pc'[k] = "complete"
        /\ \A j \in Keys \ {k} : pc'[j] = pc[j]
        /\ Move(k, "failed", "failed", raised[k])
        /\ UNCHANGED <<raised, lock, expiring, journal, pids, draft>>
    BY <1>24 DEF RecordFailure, Goto, TypeOK, worldVars
  <2>2. raised[k] \in Errors \ {"none"} /\ "failed" \in Stages
    BY <2>1 DEF RaisedAt, TypeOK, Stages
  <2>3. RaisedAt(k)' /\ LockAt(k)'
    BY <2>1, <2>2 DEF RaisedAt, LockAt, InLock
  <2>4. ThreadStep(k)
    BY <2>1, <2>3 DEF ThreadStep
  <2>5. RowStep(k)
    BY <2>1, <2>2, <1>s, MoveRow
  <2>6. WorkStep(k)
    BY <2>1 DEF WorkStep
  <2>7. QED BY <2>4, <2>5, <2>6 DEF Summary
<1>25. CASE CheckParent(k)
  <2>1. RowStep(k)
    BY <1>25 DEF CheckParent, RowStep
  <2>2. ThreadStep(k) /\ WorkStep(k)
    BY <1>25, ResolvedStep DEF CheckParent
  <2>3. QED BY <2>1, <2>2 DEF Summary
<1>26. CASE CloseParent(k)
  BY <1>26
<1>27. QED
  BY <1>1, <1>2, <1>3, <1>4, <1>5, <1>6, <1>7, <1>8, <1>9, <1>10, <1>11, <1>12,
     <1>13, <1>14, <1>15, <1>16, <1>17, <1>18, <1>19, <1>20, <1>21, <1>22, <1>23,
     <1>24, <1>25, <1>26 DEF Step

(***************************************************************************)
(* Every step of the system preserves the invariant.                       *)
(***************************************************************************)

\* The table after a step of the thread of k: only its own row, while it works,
\* and the row of an operation that has left the server.
Rows(k) ==
  \A j \in Keys :
    /\ ops'[j].kind = ops[j].kind
    /\ ops'[j].parent = ops[j].parent
    /\ \/ ops'[j] = ops[j]
       \/ /\ j = k /\ pc[k] \in Working
          /\ ops'[j].state = ops[j].state \/ ops'[j].state \in AllowedNext(ops[j].state)
       \/ /\ j = ops[k].parent
          /\ ops[j].state \in Left /\ ops'[j].state \in Terminal

LEMMA StepRows ==
  ASSUME Inv, NEW k \in Keys, Step(k)
  PROVE  ThreadStep(k) /\ WorkStep(k) /\ Rows(k)
<1>1. TypeOK /\ RaisedAt(k) /\ LockAt(k)
  BY DEF Inv
<1>2. CASE Summary(k)
  BY <1>2 DEF Summary, RowStep, Rows
<1>3. CASE CloseParent(k)
  <2>1. ThreadStep(k) /\ WorkStep(k)
    BY <1>1, <1>3, ResolvedStep DEF CloseParent
  <2> DEFINE p == ops[k].parent
             outcome == ParentOutcome(k)
  <2>2. /\ p \in Keys \union {NoKey}
        /\ p # NoKey => ops[p].state \in Left
    BY DEF Inv, ParentsLeft, TypeOK, Operation
  <2>3. outcome.state \in Terminal
    BY DEF ParentOutcome, Terminal
  <2>4. ops' = [ops EXCEPT ![p].state = outcome.state, ![p].stage = outcome.stage,
                           ![p].error = outcome.error]
    BY <1>3 DEF CloseParent
  <2>5. ops \in [Keys -> Operation]
    BY <1>1 DEF TypeOK
  <2> HIDE DEF p, outcome
  <2>6. ASSUME NEW j \in Keys
        PROVE  /\ ops'[j].kind = ops[j].kind
               /\ ops'[j].parent = ops[j].parent
               /\ ops'[j] = ops[j] \/ (j = p /\ ops'[j].state = outcome.state)
    BY <2>4, <2>5 DEF Operation
  <2>7. Rows(k)
    BY <2>2, <2>3, <2>6, SentinelsAreFresh DEF Rows, p
  <2>8. QED BY <2>1, <2>7
<1>4. QED
  BY <1>1, <1>2, <1>3, StepSummary

\* Steps that activate no operation keep the active ones few.
LEMMA FewerActive ==
  ASSUME OneActive,
         \A j \in Keys : (Active(j)' => Active(j)) /\ ops'[j].parent = ops[j].parent
  PROVE  OneActive'
BY DEF OneActive

LEMMA StepInv ==
  ASSUME Inv, NEW k \in Keys, Step(k)
  PROVE  Inv'
<1>1. ThreadStep(k) /\ WorkStep(k) /\ Rows(k)
  BY StepRows
<1>2. TypeOK /\ TypeOK'
  BY StepType DEF Inv
<1>3. \A j \in Keys : RaisedAt(j)'
  BY <1>1 DEF Inv, ThreadStep, RaisedAt
<1>4. \A j \in Keys : LockAt(j)'
  BY <1>1 DEF Inv, ThreadStep, LockAt, InLock
<1>5. WorkIsActive'
  BY <1>1 DEF Inv, WorkIsActive, ThreadStep, WorkStep, Rows, Left, Terminal
<1>6. ParentsLeft'
  <2>1. ASSUME NEW j \in Keys, ops[j].state \in Left PROVE ops'[j].state \in Left
    BY <1>1, <2>1 DEF Rows, Left, Terminal, AllowedNext
  <2>2. ASSUME NEW j \in Keys, ops[j].parent # NoKey
        PROVE  ops[j].parent \in Keys /\ ops[ops[j].parent].state \in Left
    BY <1>2, <2>2 DEF Inv, ParentsLeft, TypeOK, Operation
  <2>3. QED BY <1>1, <2>1, <2>2 DEF ParentsLeft, Rows
<1>7. ExpiringLeft'
  <2>1. SUFFICES ASSUME expiring # NoKey PROVE ExpiringLeft'
    BY <1>1 DEF ThreadStep, ExpiringLeft
  <2>2. /\ expiring \in Keys /\ expiring' = expiring
        /\ ops[expiring].state \in Left
        /\ \/ ops[expiring].state = "awaiting_force_confirmation"
           \/ \E c \in Keys : ops[c].parent = expiring
    BY <1>1, <1>2, <2>1 DEF Inv, ExpiringLeft, ThreadStep, TypeOK
  <2>3. pc[expiring] \notin Working
    BY <2>2 DEF Inv, WorkIsActive, Left, Terminal
  <2>4. CASE ops'[expiring] = ops[expiring]
    BY <1>1, <2>2, <2>4 DEF ExpiringLeft, Rows
  <2>5. CASE expiring = ops[k].parent /\ ops'[expiring].state \in Terminal
    BY <1>1, <2>2, <2>5 DEF ExpiringLeft, Rows, Left
  <2>6. QED BY <1>1, <2>2, <2>3, <2>4, <2>5 DEF Rows
<1>8. OneActive'
  <2>1. ASSUME NEW j \in Keys, Active(j)' PROVE Active(j)
    BY <1>1, <2>1 DEF Inv, WorkIsActive, Rows, Active, AllowedNext, Terminal
  <2>2. QED BY <1>1, <2>1, FewerActive DEF Inv, Rows
<1>9. RestoreRespected'
  BY <1>1 DEF Inv, RestoreRespected, RestoreBlocks, ThreadStep, WorkStep, Rows
<1>10. \A j \in Keys : LaunchReady(j)'
  <2>1. LaunchReady(k)'
    BY <1>1 DEF WorkStep, Rows, LaunchReady
  <2>2. ASSUME NEW j \in Keys \ {k} PROVE LaunchReady(j)'
    <3>1. SUFFICES ASSUME pc[j] = "launch" PROVE LaunchReady(j)'
      BY <1>1 DEF ThreadStep, LaunchReady
    <3>2. pc[k] # "launch"
      BY <3>1, PointFacts DEF Inv, RaisedAt, LockAt, InLock
    <3>3. QED
      BY <1>1, <3>1, <3>2 DEF Inv, WorkStep, Rows, LaunchReady
  <2>3. QED BY <2>1, <2>2
<1>11. OneServer'
  BY <1>1 DEF Inv, WorkStep, LaunchReady, OneServer
<1>12. UnusedIsIdle'
  BY <1>1 DEF Inv, UnusedIsIdle, ThreadStep, Rows, AllowedNext, Left, Terminal
<1>13. QED
  BY <1>2, <1>3, <1>4, <1>5, <1>6, <1>7, <1>8, <1>9, <1>10, <1>11, <1>12 DEF Inv

LEMMA ReserveInv ==
  ASSUME Inv, NEW k \in Keys, NEW kind \in Kinds, NEW parent \in Keys \union {NoKey},
         NEW target \in SUBSET Pids, Reserve(k, kind, parent, target),
         expiring = NoKey, ops[k].state = "none", ~RestoreBlocks(kind),
         \A a \in Keys : Active(a) => a = parent,
         parent # NoKey => ops[parent].state \in Left,
         TypeOK'
  PROVE  Inv'
<1>1. /\ pc[k] = "idle" /\ pc'[k] = "waitLock" /\ raised[k] = "none"
      /\ \A j \in Keys \ {k} : pc'[j] = pc[j] /\ ops'[j] = ops[j]
      /\ ops'[k].state = "queued" /\ ops'[k].parent = parent /\ ops'[k].kind = kind
      /\ UNCHANGED <<raised, expiring, lock, pids, journal, draft>>
  BY DEF Reserve, TypeOK, Inv, UnusedIsIdle, RaisedAt, worldVars
<1>2. \A j \in Keys : RaisedAt(j)'
  BY <1>1 DEF Inv, RaisedAt, Acting
<1>3. \A j \in Keys : LockAt(j)'
  BY <1>1 DEF Inv, LockAt, InLock, LockedPoints
<1>4. WorkIsActive'
  BY <1>1 DEF Inv, WorkIsActive
<1>5. ParentsLeft'
  <2>1. ASSUME NEW j \in Keys, ops'[j].parent # NoKey
        PROVE  ops'[j].parent # k /\ ops[ops'[j].parent].state \in Left /\ ops'[j].parent \in Keys
    BY <1>1, <2>1 DEF Inv, ParentsLeft, TypeOK, Operation, Left, Terminal
  <2>2. QED BY <1>1, <2>1 DEF ParentsLeft
<1>6. ExpiringLeft'
  BY <1>1 DEF ExpiringLeft
<1>7. OneActive'
  BY <1>1 DEF OneActive, Active
<1>8. RestoreRespected'
  BY <1>1, PointFacts DEF Inv, RestoreRespected
<1>9. UnusedIsIdle' /\ (\A j \in Keys : LaunchReady(j)') /\ OneServer'
  BY <1>1 DEF Inv, UnusedIsIdle, LaunchReady, OneServer
<1>10. QED
  BY <1>2, <1>3, <1>4, <1>5, <1>6, <1>7, <1>8, <1>9 DEF Inv

LEMMA RequestInv ==
  ASSUME Inv, Request
  PROVE  Inv'
<1>0. TypeOK' /\ TypeOK
  BY RequestType DEF Inv
<1>1. ASSUME NEW k \in Keys, NEW kind \in ApiKinds, Begin(k, kind) PROVE Inv'
  BY <1>0, <1>1, ReserveInv DEF Begin, ApiKinds
<1>2. ASSUME NEW k \in Keys, NEW p \in Keys, ConfirmForceStop(k, p) PROVE Inv'
  <2>1. /\ "force_stop" \in Kinds /\ ~RestoreBlocks("force_stop")
        /\ ops[p].target \in SUBSET Pids /\ ops[p].state \in Left
    BY <1>0, <1>2 DEF Kinds, RestoreBlocks, RestoreBlockedKinds, TypeOK, Operation,
       ConfirmForceStop, Left
  <2>2. \A a \in Keys : Active(a) => a = p
    BY <1>2 DEF ConfirmForceStop
  <2>3. QED
    BY <1>0, <1>2, <2>1, <2>2, ReserveInv DEF ConfirmForceStop
<1>3. ASSUME NEW k \in Keys, NEW p \in Keys, ConfirmTooLate(k, p) PROVE Inv'
  <2>1. /\ UNCHANGED <<ops, pc, raised, lock, pids, journal, draft>>
        /\ expiring' = p /\ ops[p].state = "awaiting_force_confirmation"
    BY <1>3 DEF ConfirmTooLate, worldVars
  <2>2. ExpiringLeft'
    BY <2>1 DEF ExpiringLeft, Left
  <2>3. OneActive' /\ WorkIsActive' /\ ParentsLeft' /\ RestoreRespected' /\ OneServer'
    BY <2>1 DEF Inv, OneActive, Active, WorkIsActive, ParentsLeft, RestoreRespected, OneServer
  <2>4. QED
    BY <1>0, <2>1, <2>2, <2>3 DEF Inv, RaisedAt, LockAt, InLock, UnusedIsIdle, LaunchReady
<1>4. ASSUME NEW k \in Keys, Cancel(k) PROVE Inv'
  <2>1. UNCHANGED <<ops, pc, raised, expiring, lock, pids, journal, draft>>
    BY <1>4 DEF Cancel, worldVars
  <2>2. OneActive' /\ WorkIsActive' /\ ParentsLeft' /\ RestoreRespected' /\ OneServer'
    BY <2>1 DEF Inv, OneActive, Active, WorkIsActive, ParentsLeft, RestoreRespected, OneServer
  <2>3. QED
    BY <1>0, <2>1, <2>2
    DEF Inv, RaisedAt, LockAt, InLock, UnusedIsIdle, LaunchReady, ExpiringLeft
<1>5. QED
  BY <1>1, <1>2, <1>3, <1>4 DEF Request

\* Steps outside the threads that leave the table and the threads alone.
LEMMA WorldInv ==
  ASSUME Inv, TypeOK', UNCHANGED <<ops, pc, raised, expiring>>,
         \A k \in Keys : lock' = k <=> lock = k,
         journal' => journal \/ (lock = Free),
         pids' \subseteq pids \/ (pids = {} /\ OneServer' /\ \A k \in Keys : pc[k] # "launch"),
         draft' = draft \/ lock = Free \/ (draft # "none" /\ UNCHANGED lock)
  PROVE  Inv'
<1>1. \A k \in Keys : pc[k] \in Acting => lock = k
  BY PointFacts DEF Inv, RaisedAt, LockAt, InLock
<1>2. \A k \in Keys : RaisedAt(k)' /\ LockAt(k)'
  BY DEF Inv, RaisedAt, LockAt, InLock
<1>3. OneActive' /\ WorkIsActive' /\ ParentsLeft' /\ ExpiringLeft' /\ UnusedIsIdle'
  BY DEF Inv, OneActive, Active, WorkIsActive, ParentsLeft, ExpiringLeft, UnusedIsIdle
<1>4. RestoreRespected'
  BY <1>1, SentinelsAreFresh DEF Inv, RestoreRespected, TypeOK
<1>5. \A k \in Keys : LaunchReady(k)'
  BY <1>1, PointFacts, SentinelsAreFresh DEF Inv, LaunchReady
<1>6. OneServer'
  BY DEF Inv, OneServer
<1>7. QED
  BY <1>2, <1>3, <1>4, <1>5, <1>6 DEF Inv

LEMMA OtherInv ==
  ASSUME Inv, Other
  PROVE  Inv'
<1>0. TypeOK' /\ TypeOK
  BY OtherType DEF Inv
<1> USE <1>0, SentinelsAreFresh DEF threadVars, worldVars
<1>1. CASE BeginRestore
  BY <1>1, WorldInv DEF BeginRestore
<1>2. CASE ResumeRestore
  BY <1>2, WorldInv DEF ResumeRestore
<1>3. CASE JournalEnds
  BY <1>3, WorldInv DEF JournalEnds
<1>4. CASE EndRestore
  BY <1>4, WorldInv DEF EndRestore
<1>5. CASE SaveDraft
  BY <1>5, WorldInv DEF SaveDraft
<1>6. CASE WatchPending
  BY <1>6, WorldInv DEF WatchPending
<1>7. QED
  BY <1>1, <1>2, <1>3, <1>4, <1>5, <1>6 DEF Other

\* A step that only settles rows or expires a confirmation.
LEMMA SettleInv ==
  ASSUME Inv, TypeOK', UNCHANGED <<pc, raised, lock, pids, journal, draft>>,
         expiring' \in {expiring, NoKey},
         \A j \in Keys :
           /\ ops'[j].kind = ops[j].kind
           /\ ops'[j].parent = ops[j].parent
           /\ \/ ops'[j] = ops[j]
              \/ /\ ops[j].state \in Left
                 /\ \/ ops'[j].state \in Terminal /\ expiring' = NoKey
                    \/ ops'[j].state = ops[j].state /\ ops'[j].confirm = "expired"
  PROVE  Inv'
<1>1. WorkIsActive' /\ UnusedIsIdle'
  BY DEF Inv, WorkIsActive, UnusedIsIdle, Left, Terminal
<1>2. ParentsLeft'
  <2>1. ASSUME NEW j \in Keys, ops[j].state \in Left PROVE ops'[j].state \in Left
    BY <2>1 DEF Left
  <2>2. ASSUME NEW j \in Keys, ops[j].parent # NoKey
        PROVE  ops[j].parent \in Keys /\ ops[ops[j].parent].state \in Left
    BY <2>2 DEF Inv, ParentsLeft, TypeOK, Operation
  <2>3. QED BY <2>1, <2>2 DEF ParentsLeft
<1>3. ExpiringLeft'
  <2>1. SUFFICES ASSUME expiring # NoKey, expiring' = expiring PROVE ExpiringLeft'
    BY DEF ExpiringLeft
  <2>2. expiring \in Keys
    BY <2>1 DEF Inv, TypeOK
  <2>3. QED BY <2>1, <2>2 DEF Inv, ExpiringLeft
<1>4. OneActive'
  <2>1. \A j \in Keys : Active(j)' => Active(j)
    BY DEF Active, Left, Terminal
  <2>2. QED BY <2>1, FewerActive DEF Inv
<1>5. RestoreRespected' /\ OneServer' /\ \A j \in Keys : LaunchReady(j)'
  BY DEF Inv, RestoreRespected, OneServer, LaunchReady
<1>6. \A j \in Keys : RaisedAt(j)' /\ LockAt(j)'
  BY DEF Inv, RaisedAt, LockAt, InLock
<1>7. QED
  BY <1>1, <1>2, <1>3, <1>4, <1>5, <1>6 DEF Inv

LEMMA EnvironmentInv ==
  ASSUME Inv, Environment \/ ExpireParent \/ ExpireRefused
  PROVE  Inv'
<1>0. TypeOK' /\ TypeOK
  BY OtherType DEF Inv
<1> USE <1>0 DEF threadVars, worldVars
<1>1. CASE ExternalEdit
  BY <1>1, WorldInv DEF ExternalEdit
<1>2. ASSUME NEW p \in Pids, ServerExit(p) PROVE Inv'
  BY <1>2, WorldInv DEF ServerExit
<1>3. ASSUME NEW p \in Pids, ManualStart(p) PROVE Inv'
  <2>1. OneServer'
    BY <1>3 DEF ManualStart, OneServer
  <2>2. QED BY <1>3, <2>1, WorldInv DEF ManualStart
<1>4. ASSUME NEW k \in Keys, ConfirmationExpires(k) PROVE Inv'
  <2>1. \A j \in Keys :
          /\ ops'[j].kind = ops[j].kind /\ ops'[j].parent = ops[j].parent
          /\ \/ ops'[j] = ops[j]
             \/ /\ ops[j].state \in Left /\ ops'[j].state = ops[j].state
                /\ ops'[j].confirm = "expired"
    BY <1>4 DEF ConfirmationExpires, TypeOK, Operation, Left
  <2>2. UNCHANGED <<pc, raised, expiring, lock, pids, journal, draft>>
    BY <1>4 DEF ConfirmationExpires
  <2>3. QED BY <2>1, <2>2, SettleInv
<1>5. CASE ExpireParent
  <2>1. expiring # NoKey /\ expiring \in Keys /\ ops[expiring].state \in Left
    BY <1>5 DEF ExpireParent, Inv, ExpiringLeft, TypeOK
  <2>2. \A j \in Keys :
          /\ ops'[j].kind = ops[j].kind /\ ops'[j].parent = ops[j].parent
          /\ \/ ops'[j] = ops[j]
             \/ ops[j].state \in Left /\ ops'[j].state \in Terminal
    BY <1>5, <2>1 DEF ExpireParent, TypeOK, Operation, Terminal
  <2>3. expiring' = NoKey /\ UNCHANGED <<pc, raised, lock, pids, journal, draft>>
    BY <1>5 DEF ExpireParent
  <2>4. QED BY <2>2, <2>3, SettleInv
<1>6. CASE ExpireRefused
  BY <1>6, SettleInv DEF ExpireRefused
<1>7. CASE ConsoleRestart
  <2>1. /\ ops' = Recovered
        /\ \A j \in Keys : pc'[j] = "idle" /\ raised'[j] = "none"
        /\ expiring' = NoKey /\ lock' = Free
        /\ UNCHANGED <<pids, journal, draft>>
    BY <1>7 DEF ConsoleRestart
  <2>2. \A j \in Keys :
          /\ ops'[j].parent = ops[j].parent
          /\ ops'[j].state \notin {"queued", "running", "awaiting_force_confirmation"}
          /\ ops[j].state \in Left => ops'[j].state \in Left
    BY <2>1 DEF Recovered, TypeOK, Operation, Left, Terminal
  <2>3. \A j \in Keys : RaisedAt(j)' /\ LockAt(j)' /\ LaunchReady(j)'
    BY <2>1, PointFacts, SentinelsAreFresh DEF RaisedAt, LockAt, InLock, LaunchReady
  <2>4. OneActive'
    BY <2>2 DEF OneActive, Active
  <2>5. ParentsLeft'
    <3>1. ASSUME NEW j \in Keys, ops[j].parent # NoKey
          PROVE  ops[j].parent \in Keys /\ ops[ops[j].parent].state \in Left
      BY <3>1 DEF Inv, ParentsLeft, TypeOK, Operation
    <3>2. QED BY <2>2, <3>1 DEF ParentsLeft
  <2>6. /\ WorkIsActive' /\ ExpiringLeft' /\ RestoreRespected' /\ UnusedIsIdle'
        /\ OneServer'
    BY <2>1, PointFacts
    DEF Inv, WorkIsActive, ExpiringLeft, RestoreRespected, UnusedIsIdle, OneServer
  <2>7. QED BY <2>3, <2>4, <2>5, <2>6 DEF Inv
<1>8. QED
  BY <1>1, <1>2, <1>3, <1>4, <1>5, <1>6, <1>7 DEF Environment

LEMMA InitInv == Init => Inv
<1> SUFFICES ASSUME Init PROVE Inv
  OBVIOUS
<1>1. TypeOK
  BY InitType
<1>2. \A k \in Keys : ops[k] = NoOperation /\ pc[k] = "idle" /\ raised[k] = "none"
  BY DEF Init
<1>3. \A k \in Keys : RaisedAt(k) /\ LockAt(k) /\ LaunchReady(k)
  BY <1>2, PointFacts, SentinelsAreFresh DEF Init, RaisedAt, LockAt, InLock, LaunchReady
<1>4. OneServer
  BY DEF Init, OneServer
<1>5. /\ WorkIsActive /\ ParentsLeft /\ ExpiringLeft /\ OneActive /\ RestoreRespected
      /\ UnusedIsIdle
  BY <1>2, PointFacts
  DEF Init, NoOperation, WorkIsActive, ParentsLeft, ExpiringLeft, OneActive, Active,
      RestoreRespected, UnusedIsIdle
<1>6. QED
  BY <1>1, <1>3, <1>4, <1>5 DEF Inv

LEMMA NextInv == Inv /\ [Next]_vars => Inv'
<1>1. ASSUME Inv, UNCHANGED vars PROVE Inv'
  <2>1. TypeOK'
    BY <1>1, NextType DEF Inv
  <2>2. QED BY <1>1, <2>1, SettleInv DEF vars
<1>2. QED
  BY <1>1, RequestInv, StepInv, OtherInv, EnvironmentInv DEF Next

LEMMA Invariance == Spec => []Inv
BY InitInv, NextInv, PTL DEF Spec

(***************************************************************************)
(* Theorems                                                                *)
(***************************************************************************)

\* reserve_operation keeps one operation active, or a stop that waits for its
\* confirmation and the force stop bound to it, for any number of requests,
\* threads and restarts of the console.
THEOREM OneActiveAlways == Spec => []OneActive
<1>1. Inv => OneActive
  BY DEF Inv
<1>2. QED
  BY <1>1, Invariance, PTL

\* No row is closed while the thread it belongs to may still act on the server.
THEOREM WorkIsActiveAlways == Spec => []WorkIsActive
<1>1. Inv => WorkIsActive
  BY DEF Inv
<1>2. QED
  BY <1>1, Invariance, PTL

\* The control lock admits one thread and is released on every way out of the
\* locked section.
THEOREM LockIsExclusiveAlways == Spec => []LockIsExclusive
<1>1. Inv => LockIsExclusive
  BY DEF Inv, LockIsExclusive, LockAt
<1>2. QED
  BY <1>1, Invariance, PTL

\* Two servers of the installation never run together, given that nobody starts
\* one by hand between the last check of a launching thread and its launch.
THEOREM OneServerAlways == Spec => []OneServer
<1>1. Inv => OneServer
  BY DEF Inv
<1>2. QED
  BY <1>1, Invariance, PTL

\* A launch happens under the lock, with no restore unfinished and no pending
\* configuration left.
THEOREM LaunchIsSafeAlways == Spec => LaunchIsSafe
<1>1. ASSUME Inv, NEW k \in Keys, pc[k] = "launch"
      PROVE  ~journal /\ draft = "none" /\ lock = k
  <2>1. draft = "none" /\ ops[k].kind \in RestoreBlockedKinds
    BY <1>1 DEF Inv, LaunchReady, RestoreBlockedKinds
  <2>2. lock = k
    BY <1>1, PointFacts DEF Inv, RaisedAt, LockAt, InLock
  <2>3. ~journal
    BY <1>1, <2>1, PointFacts DEF Inv, RestoreRespected
  <2>4. QED BY <2>1, <2>2, <2>3
<1>2. Inv => [\A k \in Keys : pc[k] = "launch" /\ pc'[k] = "health"
                => ~journal /\ draft = "none" /\ lock = k]_vars
  BY <1>1
<1>3. QED
  BY <1>2, Invariance, PTL DEF LaunchIsSafe

\* An operation no force stop was bound to keeps its outcome, whatever expires,
\* is cancelled or crashes afterwards.
THEOREM OutcomeIsFinalAlways == Spec => OutcomeIsFinal
<1> DEFINE Final == \A k \in Keys :
             ops[k].state \in Terminal /\ (\A c \in Keys : ops[c].parent # k)
               => ops'[k].state = ops[k].state
<1>1. ASSUME Inv, Next PROVE Final
  <2> SUFFICES ASSUME NEW j \in Keys, ops[j].state \in Terminal,
                      \A c \in Keys : ops[c].parent # j
               PROVE  ops'[j].state = ops[j].state
    OBVIOUS
  <2> USE DEF threadVars, worldVars
  <2>0. TypeOK /\ ops[j].state \notin {"none", "queued", "running",
                                       "awaiting_force_confirmation"}
    BY <1>1 DEF Inv, Terminal
  <2>1. CASE Request
    <3>1. ASSUME NEW k \in Keys, NEW kind \in ApiKinds, Begin(k, kind)
          PROVE  ops'[j].state = ops[j].state
      BY <2>0, <3>1 DEF Begin, Reserve, TypeOK
    <3>2. ASSUME NEW k \in Keys, NEW p \in Keys,
                 ConfirmForceStop(k, p) \/ ConfirmTooLate(k, p)
          PROVE  ops'[j].state = ops[j].state
      BY <2>0, <3>2 DEF ConfirmForceStop, ConfirmTooLate, Reserve, TypeOK
    <3>3. ASSUME NEW k \in Keys, Cancel(k) PROVE ops'[j].state = ops[j].state
      BY <3>3 DEF Cancel
    <3>4. QED BY <2>1, <3>1, <3>2, <3>3 DEF Request
  <2>2. CASE ExpireParent
    <3>1. expiring # j
      BY <1>1, <2>0, <2>2 DEF ExpireParent, Inv, ExpiringLeft
    <3>2. QED BY <2>0, <2>2, <3>1 DEF ExpireParent, TypeOK, Operation
  <2>3. ASSUME NEW k \in Keys, Step(k) PROVE ops'[j].state = ops[j].state
    BY <1>1, <2>0, <2>3, StepRows DEF Inv, WorkIsActive, Rows
  <2>4. CASE Other \/ ExpireRefused
    BY <2>4 DEF Other, BeginRestore, ResumeRestore, JournalEnds, EndRestore, SaveDraft,
       WatchPending, ExpireRefused
  <2>5. CASE Environment
    <3>1. CASE ConsoleRestart
      BY <2>0, <3>1 DEF ConsoleRestart, Recovered, TypeOK, Operation
    <3>2. ASSUME NEW k \in Keys, ConfirmationExpires(k) PROVE ops'[j].state = ops[j].state
      BY <2>0, <3>2 DEF ConfirmationExpires, TypeOK, Operation
    <3>3. ASSUME NEW p \in Pids, ServerExit(p) \/ ManualStart(p)
          PROVE  ops'[j].state = ops[j].state
      BY <3>3 DEF ServerExit, ManualStart
    <3>4. QED BY <2>5, <3>1, <3>2, <3>3 DEF Environment, ExternalEdit
  <2>6. QED BY <1>1, <2>1, <2>2, <2>3, <2>4, <2>5 DEF Next
<1>2. Inv /\ [Next]_vars =>
        [\A k \in Keys :
           ops[k].state \in Terminal /\ (\A c \in Keys : ops[c].parent # k)
             => ops'[k].state = ops[k].state]_vars
  BY <1>1
<1>3. QED
  BY <1>2, Invariance, PTL DEF Spec, OutcomeIsFinal

(***************************************************************************)
(* Force stops and their parents.                                          *)
(***************************************************************************)

\* Points of a graceful stop, which a force stop never visits.
StopPoints == {"announce", "countdown", "elapsed", "saving", "stopping", "waitExit"}

KindAt(k) ==
  /\ pc[k] \in StopPoints => ops[k].kind # "force_stop"
  /\ pc[k] = "kill" => ops[k].kind = "force_stop"

\* A force stop has the processes of its parent, which is no force stop; nobody
\* asks for a confirmation of a force stop.
Bound(k) ==
  /\ ops[k].parent # NoKey => ops[k].kind = "force_stop"
  /\ ops[k].kind = "force_stop" =>
       /\ ops[k].parent \in Keys
       /\ ops[ops[k].parent].kind # "force_stop"
       /\ ops[k].target = ops[ops[k].parent].target
       /\ ops[k].state # "awaiting_force_confirmation"

\* A force stop that has ended and looked at its parent leaves it terminal.
Closed(k) ==
  ops[k].kind = "force_stop" /\ ops[k].state \in Terminal /\ pc[k] \in {"idle", "release"}
    => ops[ops[k].parent].state \in Terminal

ForceInv == \A k \in Keys : KindAt(k) /\ Bound(k) /\ Closed(k)

\* What a step of the thread of k does to the processes a row names, and by
\* which ways the thread leaves.
ForceEffect(k) ==
  /\ \A j \in Keys : KindAt(j)'
  /\ \A j \in Keys : ops'[j].target = ops[j].target
                       \/ (j = k /\ pc[k] = "begin" /\ ops[k].kind # "force_stop")
  /\ ops'[k].state = "awaiting_force_confirmation" =>
       ops[k].state = "awaiting_force_confirmation" \/ pc[k] \in StopPoints
  /\ pc'[k] \in {"idle", "release"} =>
       \/ pc[k] \in StopPoints \union {"release"}
       \/ ops[k].kind # "force_stop"
       \/ ops'[ops[k].parent].state \in Terminal

\* A step that stays away from the points where a force stop differs.
LEMMA PlainEffect ==
  ASSUME TypeOK, ForceInv, NEW k \in Keys,
         \A j \in Keys : ops'[j].kind = ops[j].kind,
         \A j \in Keys \ {k} : pc'[j] = pc[j],
         \A j \in Keys : ops'[j].target = ops[j].target,
         ops'[k].state \in {ops[k].state, "running", "succeeded", "failed", "cancelled"},
         \/ pc'[k] \notin StopPoints \union {"kill", "idle", "release"}
         \/ /\ pc'[k] \in StopPoints \union {"release"}
            /\ pc[k] \in StopPoints \/ ops[k].kind # "force_stop"
         \/ pc'[k] = "kill" /\ ops[k].kind = "force_stop"
  PROVE  ForceEffect(k)
<1>1. ASSUME NEW j \in Keys PROVE KindAt(j)'
  <2>1. CASE j = k
    BY <2>1 DEF ForceInv, KindAt, StopPoints
  <2>2. CASE j # k
    BY <2>2 DEF ForceInv, KindAt, StopPoints
  <2>3. QED BY <2>1, <2>2
<1>2. QED
  BY <1>1 DEF ForceEffect, StopPoints

\* The row a move writes keeps its kind, its processes and its parent.
LEMMA MoveKeeps ==
  ASSUME TypeOK, NEW k \in Keys, NEW state, NEW stage, NEW error,
         Move(k, state, stage, error)
  PROVE  /\ \A j \in Keys : ops'[j].kind = ops[j].kind /\ ops'[j].target = ops[j].target
         /\ ops'[k].state \in {ops[k].state, state}
BY DEF Move, Moved, TypeOK, Operation

LEMMA RaiseEffect ==
  ASSUME TypeOK, ForceInv, NEW k \in Keys, NEW error, Raise(k, error)
  PROVE  ForceEffect(k)
<1>1. pc'[k] = "failing" /\ ops' = ops /\ \A j \in Keys \ {k} : pc'[j] = pc[j]
  BY DEF Raise, Goto, TypeOK
<1>2. QED
  BY <1>1, PlainEffect DEF StopPoints

LEMMA GotoEffect ==
  ASSUME TypeOK, ForceInv, NEW k \in Keys, NEW point, Goto(k, point),
         \A j \in Keys : ops'[j].kind = ops[j].kind,
         \A j \in Keys : ops'[j].target = ops[j].target,
         ops'[k].state \in {ops[k].state, "running", "succeeded", "failed", "cancelled"},
         \/ point \notin StopPoints \union {"kill", "idle", "release"}
         \/ /\ point \in StopPoints \union {"release"}
            /\ pc[k] \in StopPoints \/ ops[k].kind # "force_stop"
         \/ point = "kill" /\ ops[k].kind = "force_stop"
  PROVE  ForceEffect(k)
<1>1. pc'[k] = point /\ \A j \in Keys \ {k} : pc'[j] = pc[j]
  BY DEF Goto, TypeOK
<1>2. QED
  BY <1>1, PlainEffect

\* The thread has looked at the parent, which is terminal now, or is about to
\* close it.
LEMMA ResolvedEffect ==
  ASSUME TypeOK, ForceInv, NEW k \in Keys,
         \A j \in Keys : ops'[j].kind = ops[j].kind,
         \A j \in Keys : ops'[j].target = ops[j].target,
         ops'[k].state = "awaiting_force_confirmation" =>
           ops[k].state = "awaiting_force_confirmation",
         \/ Goto(k, "closing")
         \/ /\ Resolved(k)
            /\ ops[k].kind = "force_stop" => ops'[ops[k].parent].state \in Terminal
  PROVE  ForceEffect(k)
<1>1. /\ \A j \in Keys \ {k} : pc'[j] = pc[j]
      /\ pc'[k] \in {"closing", "release", "idle"}
  BY DEF Resolved, Goto, TypeOK
<1>2. \A j \in Keys : KindAt(j)'
  BY <1>1 DEF ForceInv, KindAt, StopPoints
<1>3. pc'[k] \in {"idle", "release"} =>
        ops[k].kind # "force_stop" \/ ops'[ops[k].parent].state \in Terminal
  BY DEF Goto, TypeOK
<1>4. QED
  BY <1>2, <1>3 DEF ForceEffect

LEMMA StepEffect ==
  ASSUME Inv, ForceInv, NEW k \in Keys, Step(k)
  PROVE  ForceEffect(k)
<1>0. TypeOK
  BY DEF Inv
<1> USE <1>0
<1>1. CASE AcquireLock(k)
  BY <1>1, RaiseEffect, GotoEffect DEF AcquireLock, StopPoints
<1>2. CASE ConfigurationFails(k)
  BY <1>2, RaiseEffect DEF ConfigurationFails
<1>3. CASE BeginStart(k)
  BY <1>3, RaiseEffect, GotoEffect DEF BeginStart, StopPoints
<1>4. CASE BeginSave(k)
  BY <1>4, RaiseEffect, MoveKeeps, GotoEffect DEF BeginSave, StopPoints
<1>5. CASE BeginStop(k)
  <2>1. CASE pids = {}
    BY <1>5, <2>1, RaiseEffect DEF BeginStop
  <2>2. CASE pids # {}
    <3>1. PICK point \in {"announce", "elapsed"} : Goto(k, point)
      BY <1>5, <2>2 DEF BeginStop
    <3>2. /\ pc[k] = "begin" /\ ops[k].kind \in {"stop", "restart"}
          /\ ops' = Moved([ops EXCEPT ![k].target = pids], k, "running", "countdown", "none")
      BY <1>5, <2>2 DEF BeginStop
    <3>3. /\ \A j \in Keys : ops'[j].kind = ops[j].kind
          /\ \A j \in Keys \ {k} : ops'[j] = ops[j]
          /\ ops'[k].state \in {ops[k].state, "running"}
      BY <3>2 DEF Moved, TypeOK, Operation
    <3>4. pc'[k] = point /\ \A j \in Keys \ {k} : pc'[j] = pc[j]
      BY <3>1 DEF Goto, TypeOK
    <3>5. \A j \in Keys : KindAt(j)'
      BY <3>2, <3>3, <3>4 DEF ForceInv, KindAt
    <3>6. QED
      BY <3>1, <3>2, <3>3, <3>4, <3>5 DEF ForceEffect
  <2>3. QED BY <2>1, <2>2
<1>6. CASE BeginForceStop(k)
  <2>1. CASE pids # {} /\ pids # ops[k].target
    BY <1>6, <2>1, RaiseEffect DEF BeginForceStop
  <2>2. CASE ~(pids # {} /\ pids # ops[k].target)
    <3>1. /\ ops[k].kind = "force_stop"
          /\ Move(k, "running", "force_stopping", "none")
          /\ Goto(k, IF pids = {} THEN "waitKill" ELSE "kill")
      BY <1>6, <2>2 DEF BeginForceStop
    <3>2. PICK point \in {"waitKill", "kill"} : Goto(k, point)
      BY <3>1
    <3>3. QED
      BY <3>1, <3>2, MoveKeeps, GotoEffect DEF StopPoints
  <2>3. QED BY <2>1, <2>2
<1>7. CASE Announce(k)
  BY <1>7, RaiseEffect, GotoEffect DEF Announce, StopPoints
<1>8. CASE CountdownCancelled(k)
  BY <1>8, MoveKeeps, GotoEffect DEF CountdownCancelled, StopPoints
<1>9. CASE CountdownElapsed(k)
  BY <1>9, GotoEffect DEF CountdownElapsed, StopPoints
<1>10. CASE EnterSaving(k)
  BY <1>10, MoveKeeps, GotoEffect DEF EnterSaving, StopPoints
<1>11. CASE RestSave(k)
  BY <1>11, RaiseEffect, MoveKeeps, GotoEffect DEF RestSave, StopPoints
<1>12. CASE RestShutdown(k)
  BY <1>12, RaiseEffect, GotoEffect DEF RestShutdown, StopPoints
<1>13. CASE TargetExited(k)
  BY <1>13, GotoEffect DEF TargetExited, StopPoints
<1>14. CASE ShutdownTimeout(k)
  <2>1. /\ pc[k] = "waitExit" /\ pc'[k] = "release"
        /\ \A j \in Keys \ {k} : pc'[j] = pc[j]
    BY <1>14 DEF ShutdownTimeout, Goto, TypeOK
  <2>2. \A j \in Keys : ops'[j].kind = ops[j].kind /\ ops'[j].target = ops[j].target
    BY <1>14 DEF ShutdownTimeout, Moved, TypeOK, Operation
  <2>3. \A j \in Keys : KindAt(j)'
    BY <2>1, <2>2 DEF ForceInv, KindAt, StopPoints
  <2>4. QED
    BY <2>1, <2>2, <2>3 DEF ForceEffect, StopPoints
<1>15. CASE Kill(k)
  BY <1>15, GotoEffect DEF Kill, StopPoints
<1>16. CASE WaitKill(k)
  BY <1>16, RaiseEffect, GotoEffect DEF WaitKill, StopPoints
<1>17. CASE ApplyPending(k)
  <2>1. PICK point \in {"launch", "finish"} : Goto(k, point)
    BY <1>17 DEF ApplyPending, AfterApply
  <2>2. ops' = ops \/ Move(k, "running", "config_applied", "none")
    BY <1>17 DEF ApplyPending
  <2>3. QED
    BY <2>1, <2>2, MoveKeeps, GotoEffect DEF StopPoints
<1>18. CASE ApplyFails(k)
  BY <1>18, RaiseEffect DEF ApplyFails
<1>19. CASE Launch(k)
  BY <1>19, MoveKeeps, GotoEffect DEF Launch, StopPoints
<1>20. CASE LaunchFails(k)
  BY <1>20, RaiseEffect DEF LaunchFails
<1>21. CASE HealthCheck(k)
  BY <1>21, RaiseEffect, GotoEffect DEF HealthCheck, StopPoints
<1>22. CASE Finish(k)
  <2>1. Move(k, "succeeded", FinalStage(ops[k].kind), "none")
    BY <1>22 DEF Finish
  <2>2. \/ Goto(k, "complete")
        \/ Goto(k, "release") /\ ops[k].kind # "force_stop"
    BY <1>22 DEF Finish
  <2>3. QED
    BY <2>1, <2>2, MoveKeeps, GotoEffect DEF StopPoints
<1>23. CASE Release(k)
  <2>1. /\ pc[k] = "release" /\ pc'[k] = "idle" /\ ops' = ops
        /\ \A j \in Keys \ {k} : pc'[j] = pc[j]
    BY <1>23 DEF Release, Goto, TypeOK
  <2>2. QED
    BY <2>1 DEF ForceInv, KindAt, ForceEffect, StopPoints
<1>24. CASE RecordFailure(k)
  BY <1>24, MoveKeeps, GotoEffect DEF RecordFailure, StopPoints
<1>25. CASE CheckParent(k)
  <2>1. ops' = ops
    BY <1>25 DEF CheckParent
  <2>2. ASSUME ops[k].kind = "force_stop", ~ParentWaits(k)
        PROVE  ops[ops[k].parent].state \in Terminal
    <3>1. ops[k].parent \in Keys /\ ops[k].parent # NoKey
      BY <2>2, SentinelsAreFresh DEF ForceInv, Bound
    <3>2. QED
      BY <2>2, <3>1 DEF Inv, ParentsLeft, ParentWaits, Left
  <2>3. Goto(k, "closing") \/ (Resolved(k) /\ ~ParentWaits(k))
    BY <1>25 DEF CheckParent
  <2>4. QED
    BY <2>1, <2>2, <2>3, ResolvedEffect
<1>26. CASE CloseParent(k)
  <2> DEFINE p == ops[k].parent
             outcome == ParentOutcome(k)
  <2>1. /\ Resolved(k)
        /\ ops' = [ops EXCEPT ![p].state = outcome.state, ![p].stage = outcome.stage,
                              ![p].error = outcome.error]
    BY <1>26 DEF CloseParent
  <2>2. outcome.state \in Terminal
    BY DEF ParentOutcome, Terminal
  <2>3. ops[k].kind = "force_stop" => p \in Keys
    BY DEF ForceInv, Bound
  <2> HIDE DEF p, outcome
  <2>4. /\ \A j \in Keys : ops'[j].kind = ops[j].kind /\ ops'[j].target = ops[j].target
        /\ p \in Keys => ops'[p].state = outcome.state
        /\ ops'[k].state \in {ops[k].state, outcome.state}
    BY <2>1 DEF TypeOK, Operation
  <2>5. QED
    BY <2>1, <2>2, <2>3, <2>4, ResolvedEffect DEF Terminal, p
<1>27. QED
  BY <1>1, <1>2, <1>3, <1>4, <1>5, <1>6, <1>7, <1>8, <1>9, <1>10, <1>11, <1>12,
     <1>13, <1>14, <1>15, <1>16, <1>17, <1>18, <1>19, <1>20, <1>21, <1>22, <1>23,
     <1>24, <1>25, <1>26 DEF Step

LEMMA ForceStep ==
  ASSUME Inv, ForceInv, NEW k \in Keys, Step(k)
  PROVE  ForceInv'
<1>1. ForceEffect(k) /\ ThreadStep(k) /\ Rows(k)
  BY StepEffect, StepRows
<1>2. \A j \in Keys : ops'[j].kind = ops[j].kind /\ ops'[j].parent = ops[j].parent
  BY <1>1 DEF Rows
<1>3. ASSUME NEW j \in Keys, ops[j].kind = "force_stop", j # k
      PROVE  ops'[j] = ops[j]
  <2>1. j # ops[k].parent
    BY <1>3, SentinelsAreFresh DEF ForceInv, Bound
  <2>2. QED BY <1>1, <1>3, <2>1 DEF Rows
<1>4. ASSUME NEW j \in Keys, ops[j].state \in Terminal
      PROVE  ops'[j].state \in Terminal
  <2>1. j = k => pc[k] \notin Working
    BY <1>4 DEF Inv, WorkIsActive, Terminal
  <2>2. QED BY <1>1, <1>4, <2>1 DEF Rows
<1>5. ASSUME NEW j \in Keys PROVE Bound(j)'
  <2>1. SUFFICES ASSUME ops[j].kind = "force_stop"
                 PROVE  /\ ops'[j].target = ops'[ops[j].parent].target
                        /\ ops'[j].state # "awaiting_force_confirmation"
    BY <1>2 DEF ForceInv, Bound
  <2>2. /\ ops[j].parent \in Keys /\ ops[j].parent # NoKey
        /\ ops[ops[j].parent].state \in Left
        /\ ops[j].target = ops[ops[j].parent].target
        /\ ops[j].state # "awaiting_force_confirmation"
    BY <2>1, SentinelsAreFresh DEF ForceInv, Bound, Inv, ParentsLeft
  <2>3. ops'[ops[j].parent].target = ops[ops[j].parent].target
    <3>1. ops[j].parent = k => pc[k] # "begin"
      BY <2>2, PointFacts DEF Inv, WorkIsActive, Left, Terminal
    <3>2. QED BY <1>1, <2>2, <3>1 DEF ForceEffect
  <2>4. ops'[j].target = ops[j].target
    BY <1>1, <2>1 DEF ForceEffect
  <2>5. ops'[j].state # "awaiting_force_confirmation"
    <3>1. CASE j = k
      BY <1>1, <2>1, <2>2, <3>1 DEF ForceEffect, ForceInv, KindAt
    <3>2. CASE j # k
      BY <1>3, <2>1, <2>2, <3>2
    <3>3. QED BY <3>1, <3>2
  <2>6. QED BY <2>2, <2>3, <2>4, <2>5
<1>6. ASSUME NEW j \in Keys PROVE Closed(j)'
  <2>1. SUFFICES ASSUME ops[j].kind = "force_stop", ops'[j].state \in Terminal,
                        pc'[j] \in {"idle", "release"}
                 PROVE  ops'[ops[j].parent].state \in Terminal
    BY <1>2 DEF Closed
  <2>2. ops[j].parent \in Keys
    BY <2>1 DEF ForceInv, Bound
  <2>3. CASE j # k
    <3>1. ops'[j] = ops[j] /\ pc'[j] = pc[j]
      BY <1>1, <1>3, <2>1, <2>3 DEF ThreadStep
    <3>2. ops[ops[j].parent].state \in Terminal
      BY <2>1, <3>1 DEF ForceInv, Closed
    <3>3. QED BY <1>4, <2>2, <3>2
  <2>4. CASE j = k
    <3>1. pc[k] \notin StopPoints
      BY <2>1, <2>4 DEF ForceInv, KindAt
    <3>2. pc[k] = "release" \/ ops'[ops[k].parent].state \in Terminal
      BY <1>1, <2>1, <2>4, <3>1 DEF ForceEffect
    <3>3. ASSUME pc[k] = "release" PROVE ops[k].state \in Terminal
      <4>1. k # ops[k].parent
        BY <2>1, <2>4 DEF ForceInv, Bound
      <4>2. ops'[k] = ops[k]
        BY <1>1, <3>3, <4>1, PointFacts DEF Rows
      <4>3. QED BY <2>1, <2>4, <4>2
    <3>4. ASSUME pc[k] = "release" PROVE ops[ops[k].parent].state \in Terminal
      BY <2>1, <2>4, <3>3, <3>4 DEF ForceInv, Closed
    <3>5. QED BY <1>4, <2>2, <2>4, <3>2, <3>4
  <2>5. QED BY <2>3, <2>4
<1>7. QED
  BY <1>1, <1>5, <1>6 DEF ForceInv, ForceEffect

\* A row is inserted for a key nobody names as parent.
LEMMA ForceReserve ==
  ASSUME Inv, ForceInv, NEW k \in Keys, NEW kind \in Kinds,
         NEW parent \in Keys \union {NoKey}, NEW target \in SUBSET Pids,
         Reserve(k, kind, parent, target), ops[k].state = "none",
         \/ parent = NoKey /\ kind # "force_stop"
         \/ /\ parent \in Keys /\ kind = "force_stop"
            /\ ops[parent].state = "awaiting_force_confirmation"
            /\ ops[parent].target = target
  PROVE  ForceInv'
<1>1. /\ pc'[k] = "waitLock"
      /\ \A j \in Keys \ {k} : pc'[j] = pc[j] /\ ops'[j] = ops[j]
      /\ ops'[k].state = "queued" /\ ops'[k].kind = kind
      /\ ops'[k].parent = parent /\ ops'[k].target = target
  BY DEF Reserve, Inv, TypeOK
<1>2. ASSUME NEW j \in Keys, ops[j].parent # NoKey
      PROVE  ops[j].parent \in Keys \ {k}
  BY <1>2 DEF Inv, TypeOK, Operation, ParentsLeft, Left, Terminal
<1>3. ASSUME NEW j \in Keys PROVE KindAt(j)' /\ Bound(j)' /\ Closed(j)'
  <2>1. CASE j = k
    BY <1>1, <2>1, SentinelsAreFresh
    DEF ForceInv, KindAt, Bound, Closed, StopPoints, Terminal
  <2>2. CASE j # k
    <3>1. KindAt(j)'
      BY <1>1, <2>2 DEF ForceInv, KindAt
    <3>2. ops'[j] = ops[j] /\ pc'[j] = pc[j]
      BY <1>1, <2>2
    <3>3. ops[j].kind = "force_stop" =>
            ops[j].parent \in Keys /\ ops'[ops[j].parent] = ops[ops[j].parent]
      BY <1>1, <1>2, SentinelsAreFresh DEF ForceInv, Bound
    <3>4. Bound(j)' /\ Closed(j)'
      BY <3>2, <3>3 DEF ForceInv, Bound, Closed
    <3>5. QED BY <3>1, <3>4
  <2>3. QED BY <2>1, <2>2
<1>4. QED
  BY <1>3 DEF ForceInv

\* Steps that settle rows of operations that are no force stops.
LEMMA ForceSettle ==
  ASSUME Inv, ForceInv, UNCHANGED pc,
         \A j \in Keys :
           \/ ops'[j] = ops[j]
           \/ /\ ops[j].kind # "force_stop"
              /\ ops'[j].kind = ops[j].kind /\ ops'[j].parent = ops[j].parent
              /\ ops'[j].target = ops[j].target
              /\ ops[j].state \in Terminal => ops'[j].state \in Terminal
  PROVE  ForceInv'
<1>1. ASSUME NEW j \in Keys
      PROVE  /\ ops'[j].kind = ops[j].kind /\ ops'[j].parent = ops[j].parent
             /\ ops'[j].target = ops[j].target
             /\ ops[j].kind = "force_stop" => ops'[j] = ops[j]
             /\ ops[j].state \in Terminal => ops'[j].state \in Terminal
  OBVIOUS
<1>2. ASSUME NEW j \in Keys PROVE KindAt(j)' /\ Bound(j)' /\ Closed(j)'
  BY <1>1 DEF ForceInv, KindAt, Bound, Closed
<1>3. QED
  BY <1>2 DEF ForceInv

LEMMA ForceRestart ==
  ASSUME Inv, ForceInv, ConsoleRestart
  PROVE  ForceInv'
<1>1. ops' = Recovered /\ \A j \in Keys : pc'[j] = "idle"
  BY DEF ConsoleRestart
<1>2. ASSUME NEW j \in Keys
      PROVE  /\ ops'[j].kind = ops[j].kind /\ ops'[j].parent = ops[j].parent
             /\ ops'[j].target = ops[j].target
             /\ ops[j].state \in Left => ops'[j].state \in Terminal
             /\ ops'[j].state # "awaiting_force_confirmation"
  BY <1>1 DEF Recovered, Inv, TypeOK, Operation, Left, Terminal
<1>3. ASSUME NEW j \in Keys, ops[j].kind = "force_stop"
      PROVE  ops[j].parent \in Keys /\ ops[ops[j].parent].state \in Left
  BY <1>3, SentinelsAreFresh DEF ForceInv, Bound, Inv, ParentsLeft
<1>4. ASSUME NEW j \in Keys PROVE KindAt(j)' /\ Bound(j)' /\ Closed(j)'
  BY <1>1, <1>2, <1>3 DEF ForceInv, KindAt, Bound, Closed, StopPoints
<1>5. QED
  BY <1>4 DEF ForceInv

LEMMA ForceNext == Inv /\ ForceInv /\ [Next]_vars => ForceInv'
<1> SUFFICES ASSUME Inv, ForceInv, [Next]_vars PROVE ForceInv'
  OBVIOUS
<1> USE DEF threadVars, worldVars
<1>0. TypeOK
  BY DEF Inv
<1>1. ASSUME NEW k \in Keys, NEW kind \in ApiKinds, Begin(k, kind) PROVE ForceInv'
  BY <1>1, ForceReserve DEF Begin, ApiKinds
<1>2. ASSUME NEW k \in Keys, NEW p \in Keys, ConfirmForceStop(k, p) PROVE ForceInv'
  <2>1. ops[p].target \in SUBSET Pids /\ "force_stop" \in Kinds
    BY <1>0 DEF TypeOK, Operation, Kinds
  <2>2. QED BY <1>2, <2>1, ForceReserve DEF ConfirmForceStop
<1>3. ASSUME UNCHANGED <<ops, pc>> PROVE ForceInv'
  BY <1>3, ForceSettle
<1>4. ASSUME NEW k \in Keys, NEW p \in Keys, ConfirmTooLate(k, p) \/ Cancel(k)
      PROVE  ForceInv'
  BY <1>3, <1>4 DEF ConfirmTooLate, Cancel
<1>5. CASE ExpireParent
  <2>1. expiring \in Keys /\ ops[expiring].kind # "force_stop"
    BY <1>0, <1>5, SentinelsAreFresh
    DEF ExpireParent, Inv, ExpiringLeft, ForceInv, Bound, TypeOK
  <2>2. ops \in [Keys -> Operation]
    BY <1>0 DEF TypeOK
  <2>3. ASSUME NEW j \in Keys
        PROVE  /\ ops'[j].kind = ops[j].kind /\ ops'[j].parent = ops[j].parent
               /\ ops'[j].target = ops[j].target
               /\ ops'[j] = ops[j] \/ (j = expiring /\ ops'[j].state = "failed")
    BY <1>5, <2>1, <2>2 DEF ExpireParent, Operation
  <2>4. QED
    BY <1>5, <2>1, <2>3, ForceSettle DEF ExpireParent, Terminal
<1>6. ASSUME NEW k \in Keys, ConfirmationExpires(k) PROVE ForceInv'
  <2>1. ops[k].kind # "force_stop" /\ ops[k].state \notin Terminal
    BY <1>6 DEF ConfirmationExpires, ForceInv, Bound, Terminal
  <2>2. ASSUME NEW j \in Keys
        PROVE  /\ ops'[j].kind = ops[j].kind /\ ops'[j].parent = ops[j].parent
               /\ ops'[j].target = ops[j].target
               /\ ops'[j] = ops[j] \/ j = k
    BY <1>0, <1>6 DEF ConfirmationExpires, TypeOK, Operation
  <2>3. QED
    BY <1>6, <2>1, <2>2, ForceSettle DEF ConfirmationExpires
<1>7. CASE ExpireRefused
  BY <1>3, <1>7 DEF ExpireRefused
<1>8. ASSUME NEW k \in Keys, Step(k) PROVE ForceInv'
  BY <1>8, ForceStep
<1>9. CASE Other
  BY <1>3, <1>9 DEF Other, BeginRestore, ResumeRestore, JournalEnds, EndRestore,
     SaveDraft, WatchPending
<1>10. CASE ConsoleRestart
  BY <1>10, ForceRestart
<1>11. ASSUME NEW p \in Pids, ExternalEdit \/ ServerExit(p) \/ ManualStart(p)
       PROVE  ForceInv'
  BY <1>3, <1>11 DEF ExternalEdit, ServerExit, ManualStart
<1>12. CASE ExternalEdit
  BY <1>3, <1>12 DEF ExternalEdit
<1>13. CASE UNCHANGED vars
  BY <1>3, <1>13 DEF vars
<1>14. QED
  BY <1>1, <1>2, <1>4, <1>5, <1>6, <1>7, <1>8, <1>9, <1>10, <1>11, <1>12, <1>13
  DEF Next, Request, Environment

LEMMA ForceInvariance == Spec => []ForceInv
<1>1. ASSUME Init PROVE ForceInv
  <2>1. \A k \in Keys :
          pc[k] = "idle" /\ ops[k].kind = "start" /\ ops[k].parent = NoKey
    BY <1>1 DEF Init, NoOperation
  <2>2. QED
    BY <2>1 DEF ForceInv, KindAt, Bound, Closed, StopPoints
<1>2. QED
  BY <1>1, ForceNext, Invariance, PTL DEF Spec

\* A force stop that has ended - succeeded, failed or cut off by a restart of
\* the console - leaves no confirmation open behind it, for any number of
\* requests, late confirmations and crashes.
THEOREM ForceStopClosesParentAlways == Spec => []ForceStopClosesParent
<1>1. ForceInv => ForceStopClosesParent
  BY DEF ForceInv, Closed, ForceStopClosesParent
<1>2. QED
  BY <1>1, ForceInvariance, PTL

\* A force stop ends only processes that the confirmation named, whatever was
\* started or has ended between the confirmation and the kill.
THEOREM ForceStopIsBoundAlways == Spec => ForceStopIsBound
<1> DEFINE Spared == \A k \in Keys : pc[k] = "kill" /\ pc'[k] = "waitKill"
             => pids \ pids' \subseteq ops[ops[k].parent].target
<1>1. ASSUME Inv, ForceInv, Next PROVE Spared
  <2> SUFFICES ASSUME NEW k \in Keys, pc[k] = "kill", pc'[k] = "waitKill"
               PROVE  pids \ pids' \subseteq ops[ops[k].parent].target
    OBVIOUS
  <2>0. TypeOK /\ ops[k].target = ops[ops[k].parent].target
    BY <1>1 DEF Inv, ForceInv, KindAt, Bound
  <2>1. ASSUME NEW j \in Keys, Step(j) PROVE j = k
    BY <1>1, <2>1, StepRows DEF ThreadStep
  <2>2. CASE Step(k)
    <3>1. Kill(k)
      BY <2>2 DEF Step, AcquireLock, ConfigurationFails, BeginStart, BeginSave, BeginStop,
         BeginForceStop, Announce, CountdownCancelled, CountdownElapsed, EnterSaving,
         RestSave, RestShutdown, TargetExited, ShutdownTimeout, WaitKill, ApplyPending,
         ApplyFails, Launch, LaunchFails, HealthCheck, Finish, Release, RecordFailure,
         CheckParent, CloseParent
    <3>2. QED BY <2>0, <3>1 DEF Kill
  <2>3. ASSUME UNCHANGED pc PROVE FALSE
    BY <2>3
  <2>4. ASSUME NEW j \in Keys, pc' = [pc EXCEPT ![j] = "waitLock"] PROVE FALSE
    BY <2>0, <2>4 DEF TypeOK
  <2>5. CASE Request
    BY <2>3, <2>4, <2>5 DEF Request, Begin, ConfirmForceStop, ConfirmTooLate, Cancel, Reserve
  <2>6. CASE ExpireParent \/ ExpireRefused
    BY <2>3, <2>6 DEF ExpireParent, ExpireRefused
  <2>7. CASE Other
    BY <2>3, <2>7 DEF Other, BeginRestore, ResumeRestore, JournalEnds, EndRestore,
       SaveDraft, WatchPending, threadVars
  <2>8. CASE Environment
    BY <2>3, <2>8 DEF Environment, ExternalEdit, ServerExit, ManualStart,
       ConfirmationExpires, ConsoleRestart, threadVars
  <2>9. QED BY <1>1, <2>1, <2>2, <2>5, <2>6, <2>7, <2>8 DEF Next
<1>2. Inv /\ ForceInv /\ [Next]_vars =>
        [\A k \in Keys : pc[k] = "kill" /\ pc'[k] = "waitKill"
           => pids \ pids' \subseteq ops[ops[k].parent].target]_vars
  BY <1>1
<1>3. QED
  BY <1>2, Invariance, ForceInvariance, PTL DEF Spec, ForceStopIsBound
=============================================================================
