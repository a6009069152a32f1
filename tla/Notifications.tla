---------------------------- MODULE Notifications ----------------------------
(***************************************************************************)
(* Notices of maintenance events (NotificationService of maintenance.py).  *)
(* The threads that carry out operations queue a notice at each change of  *)
(* an operation; a dispatcher, a thread that exists while there are        *)
(* notices, sends them one after the other.  What is queued is in memory.  *)
(***************************************************************************)
EXTENDS NoticeBounds, Sequences, FiniteSets

CONSTANTS
  Callers      \* threads that report changes of operations

Notices == 1..MaxNotices
Threads == 1..MaxNotices

VARIABLES
  enabled,      \* the settings: switched on, with address and secret
  caller,       \* what each caller does
  pending,      \* _pending
  dispatching,  \* _dispatching
  dispatcher,   \* what each dispatcher thread does
  notice,       \* the notice each dispatcher thread sends
  started,      \* dispatcher threads started so far
  queued,       \* notices queued so far; they are numbered
  sent,         \* notices the receiver has taken
  gone,         \* notices it did not take, that were dropped, or ended with the console
  stranded,     \* the thread for the last notice could not be started
  switches,     \* counts
  refused

vars == <<enabled, caller, pending, dispatching, dispatcher, notice, started, queued, sent, gone,
          stranded, switches, refused>>

NoDispatcher == [t \in Threads |-> "none"]

Init ==
  /\ enabled = FALSE
  /\ caller = [c \in Callers |-> "idle"]
  /\ pending = <<>> /\ dispatching = FALSE
  /\ dispatcher = NoDispatcher /\ notice = [t \in Threads |-> 0]
  /\ started = 0 /\ queued = 0 /\ sent = {} /\ gone = {} /\ stranded = FALSE
  /\ switches = 0 /\ refused = 0

(* The settings are switched off, or on once there are an address and a secret. *)
Configure ==
  /\ switches < MaxChanges /\ switches' = switches + 1
  /\ enabled' = ~enabled
  /\ UNCHANGED <<caller, pending, dispatching, dispatcher, notice, started, queued, sent, gone,
                 stranded, refused>>

(* An operation changes: nothing is queued while notices are off. *)
Report(c) ==
  /\ caller[c] = "idle" /\ enabled /\ queued < MaxNotices
  /\ caller' = [caller EXCEPT ![c] = "reports"]
  /\ UNCHANGED <<enabled, pending, dispatching, dispatcher, notice, started, queued, sent, gone,
                 stranded, switches, refused>>

(* Under the dispatch lock a notice is queued and a dispatcher started when there *)
(* is none.  When the system refuses the thread, the error is logged.             *)
Put(c) ==
  /\ caller[c] = "reports" /\ queued < MaxNotices
  /\ caller' = [caller EXCEPT ![c] = "idle"]
  /\ queued' = queued + 1
  /\ pending' = Append(pending, queued + 1)

Started ==
  /\ started' = started + 1
  /\ dispatcher' = [dispatcher EXCEPT ![started + 1] = "takes"]
  /\ UNCHANGED refused

NotStarted ==
  /\ refused < MaxFailures /\ refused' = refused + 1
  /\ UNCHANGED <<started, dispatcher>>

(* Mutant: the flag is set before the thread is started. *)
QueueFlagFirst(c) ==
  /\ Put(c)
  /\ dispatching' = TRUE
  /\ \/ dispatching /\ stranded' = FALSE /\ UNCHANGED <<started, dispatcher, refused>>
     \/ ~dispatching /\ stranded' = FALSE /\ Started
     \/ ~dispatching /\ stranded' = TRUE /\ NotStarted
  /\ UNCHANGED <<enabled, notice, sent, gone, switches>>

Queue(c) ==
  /\ Put(c)
  /\ \/ dispatching /\ UNCHANGED <<dispatching, stranded, started, dispatcher, refused>>
     \/ ~dispatching /\ dispatching' = TRUE /\ stranded' = FALSE /\ Started
     \/ ~dispatching /\ stranded' = TRUE /\ NotStarted /\ UNCHANGED dispatching
  /\ UNCHANGED <<enabled, notice, sent, gone, switches>>

(* Mutant: the dispatcher finds nothing and says so in two steps. *)
TakeThenEnd(t) ==
  /\ \/ /\ dispatcher[t] = "takes" /\ pending = <<>>
        /\ dispatcher' = [dispatcher EXCEPT ![t] = "ends"]
        /\ UNCHANGED <<dispatching, notice, pending>>
     \/ /\ dispatcher[t] = "ends"
        /\ dispatcher' = [dispatcher EXCEPT ![t] = "none"]
        /\ dispatching' = FALSE
        /\ UNCHANGED <<notice, pending>>
     \/ /\ dispatcher[t] = "takes" /\ pending # <<>>
        /\ dispatcher' = [dispatcher EXCEPT ![t] = "sends"]
        /\ notice' = [notice EXCEPT ![t] = Head(pending)]
        /\ pending' = Tail(pending)
        /\ UNCHANGED dispatching
  /\ UNCHANGED <<enabled, caller, started, queued, sent, gone, stranded, switches, refused>>

(* Under the dispatch lock: the next notice, or the end of the thread. *)
Take(t) ==
  /\ dispatcher[t] = "takes"
  /\ \/ /\ pending = <<>>
        /\ dispatcher' = [dispatcher EXCEPT ![t] = "none"]
        /\ dispatching' = FALSE
        /\ UNCHANGED <<notice, pending>>
     \/ /\ pending # <<>>
        /\ dispatcher' = [dispatcher EXCEPT ![t] = "sends"]
        /\ notice' = [notice EXCEPT ![t] = Head(pending)]
        /\ pending' = Tail(pending)
        /\ UNCHANGED dispatching
  /\ UNCHANGED <<enabled, caller, started, queued, sent, gone, stranded, switches, refused>>

(* The settings are read again; the receiver may refuse or not answer within the  *)
(* time limit, and there is no second attempt.                                    *)
Send(t, taken) ==
  /\ dispatcher[t] = "sends"
  /\ taken => enabled
  /\ sent' = IF taken THEN sent \union {notice[t]} ELSE sent
  /\ gone' = IF taken THEN gone ELSE gone \union {notice[t]}
  /\ dispatcher' = [dispatcher EXCEPT ![t] = "takes"]
  /\ UNCHANGED <<enabled, caller, pending, dispatching, notice, started, queued, stranded, switches,
                 refused>>

(* The console ends and starts anew: what was queued is gone. *)
Crash ==
  /\ refused < MaxFailures /\ refused' = refused + 1
  /\ caller' = [c \in Callers |-> "idle"]
  /\ pending' = <<>> /\ dispatching' = FALSE
  /\ dispatcher' = NoDispatcher
  /\ gone' = 1..queued \ sent
  /\ stranded' = FALSE
  /\ UNCHANGED <<enabled, notice, started, queued, sent, switches>>

Dispatch(t) == Take(t) \/ \E taken \in BOOLEAN : Send(t, taken)

Next ==
  \/ Configure
  \/ \E c \in Callers : Report(c) \/ Queue(c)
  \/ \E t \in Threads : Dispatch(t)
  \/ Crash

(* A dispatcher thread runs until it ends. *)
Fairness == \A t \in Threads : WF_vars(Dispatch(t))

Spec == Init /\ [][Next]_vars /\ Fairness

-----------------------------------------------------------------------------
(* Properties. *)

(* The variables have their types. *)
TypeOK ==
  /\ enabled \in BOOLEAN
  /\ caller \in [Callers -> {"idle", "reports"}]
  /\ pending \in Seq(Notices) /\ dispatching \in BOOLEAN
  /\ dispatcher \in [Threads -> {"none", "takes", "sends"}]
  /\ notice \in [Threads -> 0..MaxNotices]
  /\ started \in 0..MaxNotices /\ queued \in 0..MaxNotices
  /\ sent \subseteq Notices /\ gone \subseteq Notices /\ stranded \in BOOLEAN
  /\ switches \in 0..MaxChanges /\ refused \in 0..MaxFailures

(* One thread sends at a time, so that notices leave in the order in which they *)
(* were queued.                                                                 *)
OneDispatcher ==
  \A t, u \in Threads : dispatcher[t] # "none" /\ dispatcher[u] # "none" => t = u

(* While there are notices there is a thread that will take them, except while  *)
(* the system refuses new threads.                                              *)
NoneWaitsAlone ==
  pending # <<>> => stranded \/ \E t \in Threads : dispatcher[t] # "none"

(* Every notice that is queued is sent or given up in the end: none is left in  *)
(* the queue without a dispatcher, whatever the moment at which the last one    *)
(* ended (maintenance.py:170), except while the system refuses new threads.     *)
NoticesAreHandled ==
  \A n \in Notices : []<>(n <= queued => n \in sent \union gone \/ stranded)
=============================================================================
