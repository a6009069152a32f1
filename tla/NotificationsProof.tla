------------------------- MODULE NotificationsProof -------------------------
(***************************************************************************)
(* Proofs about Notifications, for any callers and any number of notices.  *)
(***************************************************************************)
EXTENDS Notifications, TLAPS

(* The flag says exactly whether the thread that was started last is still there. *)
FlagIsTrue ==
  /\ started <= queued
  /\ \A t \in Threads : dispatcher[t] # "none" => dispatching /\ t = started
  /\ dispatching => started \in Threads /\ dispatcher[started] # "none"
  /\ \A t \in Threads : dispatcher[t] = "sends" => notice[t] \in Notices

(* The variables are typed in two parts: truth values, and all others. *)
Flags == enabled \in BOOLEAN /\ dispatching \in BOOLEAN /\ stranded \in BOOLEAN

Others ==
  /\ caller \in [Callers -> {"idle", "reports"}]
  /\ pending \in Seq(Notices)
  /\ dispatcher \in [Threads -> {"none", "takes", "sends"}]
  /\ notice \in [Threads -> 0..MaxNotices]
  /\ started \in 0..MaxNotices /\ queued \in 0..MaxNotices
  /\ sent \subseteq Notices /\ gone \subseteq Notices
  /\ switches \in 0..MaxChanges /\ refused \in 0..MaxFailures

Covered == pending # <<>> => dispatching \/ stranded

IInv == Flags /\ Others /\ FlagIsTrue /\ Covered

LEMMA InitInv == Init => IInv
  <1> SUFFICES ASSUME Init PROVE IInv
    OBVIOUS
  <1> USE NotificationsAssumption DEF Init
  <1>1. Flags
    BY DEF Flags
  <1>2. Others
    BY SMT DEF Others, NoDispatcher, Threads, Notices
  <1>3. FlagIsTrue
    BY DEF FlagIsTrue, NoDispatcher, Threads
  <1>4. Covered
    BY DEF Covered
  <1> QED BY <1>1, <1>2, <1>3, <1>4 DEF IInv

LEMMA ConfigureInv == IInv /\ Configure => IInv'
  BY NotificationsAssumption, SMT
     DEF Configure, IInv, Flags, Others, FlagIsTrue, Covered, Threads, Notices

LEMMA ReportInv == ASSUME NEW c \in Callers PROVE IInv /\ Report(c) => IInv'
  BY NotificationsAssumption, SMT
     DEF Report, IInv, Flags, Others, FlagIsTrue, Covered, Threads, Notices

LEMMA QueueInv == ASSUME NEW c \in Callers, IInv, Queue(c) PROVE IInv'
  <1> USE NotificationsAssumption DEF IInv, Queue, Put
  <1>1. CASE dispatching
    BY <1>1, SMT DEF Others, Flags, FlagIsTrue, Covered, Threads, Notices
  <1>2. CASE ~dispatching /\ Started
    <2> USE <1>2 DEF Started, NotStarted
    <2>1. Flags'
      BY DEF Flags
    <2>2. Others'
      BY SMT DEF Others, FlagIsTrue, Threads, Notices
    <2>3. FlagIsTrue'
      BY SMT DEF Others, FlagIsTrue, Threads, Notices
    <2>4. Covered'
      BY SMT DEF Covered
    <2> QED BY <2>1, <2>2, <2>3, <2>4
  <1>3. CASE ~dispatching /\ NotStarted
    <2> USE <1>3 DEF Started, NotStarted
    <2>1. Flags'
      BY DEF Flags
    <2>2. Others'
      BY SMT DEF Others, FlagIsTrue, Threads, Notices
    <2>3. FlagIsTrue'
      BY SMT DEF Others, FlagIsTrue, Threads, Notices
    <2>4. Covered'
      BY SMT DEF Covered
    <2> QED BY <2>1, <2>2, <2>3, <2>4
  <1> QED BY <1>1, <1>2, <1>3

LEMMA TakeInv == ASSUME NEW t \in Threads, IInv, Take(t) PROVE IInv'
  <1> USE NotificationsAssumption DEF IInv
  <1>1. CASE pending = <<>>
    <2> USE <1>1 DEF Take
    <2>1. Flags'
      BY DEF Flags
    <2>2. Others'
      BY SMT DEF Others, FlagIsTrue, Threads, Notices
    <2>3. FlagIsTrue'
      BY SMT DEF Others, FlagIsTrue, Threads, Notices
    <2>4. Covered'
      BY DEF Covered
    <2> QED BY <2>1, <2>2, <2>3, <2>4
  <1>2. CASE pending # <<>>
    <2>1. /\ dispatcher[t] = "takes"
          /\ dispatcher' = [dispatcher EXCEPT ![t] = "sends"]
          /\ notice' = [notice EXCEPT ![t] = Head(pending)]
          /\ pending' = Tail(pending)
      BY <1>2 DEF Take
    <2>2. UNCHANGED <<enabled, caller, dispatching, started, queued, sent, gone, stranded, switches, refused>>
      BY <1>2 DEF Take
    <2>3. /\ Head(pending) \in Notices /\ Head(pending) \in 0..MaxNotices
          /\ Tail(pending) \in Seq(Notices)
      <3>1. Head(pending) \in Notices /\ Tail(pending) \in Seq(Notices)
        BY <1>2, SMT DEF Others
      <3> QED BY <3>1, SMT DEF Notices
    <2>4. Flags'
      BY <2>2 DEF Flags
    <2>5. Others'
      BY <2>1, <2>2, <2>3, SMT DEF Others
    <2>6. FlagIsTrue'
      <3>1. dispatching /\ t = started
        BY <2>1 DEF FlagIsTrue
      <3> QED BY <2>1, <2>2, <2>3, <3>1 DEF Others, FlagIsTrue
    <2>7. Covered'
      <3>1. dispatching
        BY <2>1 DEF FlagIsTrue
      <3> QED BY <2>2, <3>1 DEF Covered
    <2> QED BY <2>4, <2>5, <2>6, <2>7
  <1> QED BY <1>1, <1>2

LEMMA SendInv ==
  ASSUME NEW t \in Threads, NEW taken \in BOOLEAN, IInv, Send(t, taken) PROVE IInv'
  <1> USE NotificationsAssumption DEF IInv, Send
  <1>1. Flags'
    BY DEF Flags
  <1>2. Others'
    <2> notice[t] \in Notices
      BY DEF FlagIsTrue
    <2>1. CASE taken
      BY <2>1, SMT DEF Others
    <2>2. CASE ~taken
      BY <2>2, SMT DEF Others
    <2> QED BY <2>1, <2>2
  <1>3. FlagIsTrue'
    BY SMT DEF Others, FlagIsTrue, Threads, Notices
  <1>4. Covered'
    BY SMT DEF Covered
  <1> QED BY <1>1, <1>2, <1>3, <1>4

LEMMA CrashInv == ASSUME IInv, Crash PROVE IInv'
  <1> USE NotificationsAssumption DEF IInv, Crash
  <1>1. Flags'
    BY DEF Flags
  <1>2. Others'
    BY SMT DEF Others, NoDispatcher, Threads, Notices
  <1>3. FlagIsTrue'
    BY SMT DEF FlagIsTrue, NoDispatcher, Threads
  <1>4. Covered'
    BY DEF Covered
  <1> QED BY <1>1, <1>2, <1>3, <1>4

LEMMA StepInv == IInv /\ [Next]_vars => IInv'
  <1> SUFFICES ASSUME IInv, [Next]_vars PROVE IInv'
    OBVIOUS
  <1>1. CASE Configure
    BY <1>1, ConfigureInv
  <1>2. ASSUME NEW c \in Callers, Report(c) \/ Queue(c) PROVE IInv'
    BY <1>2, ReportInv, QueueInv
  <1>3. ASSUME NEW t \in Threads, Dispatch(t) PROVE IInv'
    BY <1>3, TakeInv, SendInv DEF Dispatch
  <1>4. CASE Crash
    BY <1>4, CrashInv
  <1>5. CASE UNCHANGED vars
    BY <1>5 DEF vars, IInv, Flags, Others, FlagIsTrue, Covered
  <1> QED BY <1>1, <1>2, <1>3, <1>4, <1>5 DEF Next

LEMMA InvAlways == Spec => []IInv
  BY InitInv, StepInv, PTL DEF Spec

(* The variables have their types. *)
THEOREM TypeCorrect == Spec => []TypeOK
  <1>1. IInv => TypeOK
    BY DEF IInv, Flags, Others, TypeOK
  <1> QED BY <1>1, InvAlways, PTL

(* Dispatcher threads never overlap (maintenance.py:166-180). *)
THEOREM OneDispatcherAlways == Spec => []OneDispatcher
  <1>1. IInv => OneDispatcher
    BY DEF IInv, FlagIsTrue, OneDispatcher
  <1> QED BY <1>1, InvAlways, PTL

(* No notice is left without a thread (maintenance.py:177). *)
THEOREM NoneWaitsAloneAlways == Spec => []NoneWaitsAlone
  <1>1. IInv => NoneWaitsAlone
    BY DEF IInv, FlagIsTrue, Covered, NoneWaitsAlone
  <1> QED BY <1>1, InvAlways, PTL
=============================================================================
