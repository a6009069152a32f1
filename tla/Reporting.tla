----------------------------- MODULE Reporting -----------------------------
(***************************************************************************)
(* What a console reports of its server: the three workers - audit log,     *)
(* notices of maintenance, monitor - and the roster of pals, a page.  They   *)
(* share nothing but the database and run at their own pace, and no step of  *)
(* one enables or disables a step of another; so a behaviour follows one of *)
(* them, any one, while the others rest.                                    *)
(***************************************************************************)
EXTENDS NoticeBounds, Sequences

CONSTANTS
  MaxLines, MaxRotations, MaxCuts, Callers, Players, Pages, None,
  Pals, Filters, DefaultFilter, Listings, PageSize, MaxSnapshots

ASSUME ReportingAssumption == MaxLines \in Nat /\ MaxRotations \in Nat /\ MaxCuts \in Nat

VARIABLES
  worker,  \* the one that is followed
  file, cursor, rows, poll, todo, written, removed, torn, swapped, rotations, cuts,
  enabled, caller, pending, dispatching, dispatcher, notice, started, queued, sent, gone,
  stranded, switches, refused,
  online, working, step, live, shown, behind, changes, raised,
  published, known, filter, items, total, asked, loadingMore, failed, shows, mixed

Log == INSTANCE AuditLog
Notes == INSTANCE Notifications
Live == INSTANCE Monitor
Roster == INSTANCE PalRoster

(* No cursor is not a cursor. *)
ASSUME NoneIsNoCursor == None \notin Log!Cursors

(* A query gives a list without repetitions; a page of one has at least one entry. *)
ASSUME RosterAssumption ==
  /\ DefaultFilter \in Filters
  /\ \A l \in Listings : Roster!IsList(l)
  /\ PageSize \in Nat \ {0} /\ MaxSnapshots \in Nat

logVars == <<file, cursor, rows, poll, todo, written, removed, torn, swapped, rotations, cuts>>
noticesVars == <<enabled, caller, pending, dispatching, dispatcher, notice, started, queued, sent,
                 gone, stranded, switches, refused>>
monitorVars == <<online, working, step, live, shown, behind, changes, raised>>
rosterVars == <<published, known, filter, items, total, asked, loadingMore, failed, shows, mixed>>
vars == <<worker, logVars, noticesVars, monitorVars, rosterVars>>

Init ==
  /\ worker \in {"log", "notices", "monitor", "roster"}
  /\ Log!Init /\ Notes!Init /\ Live!Init /\ Roster!Init

LogStep ==
  worker = "log" /\ Log!Next /\ UNCHANGED <<worker, noticesVars, monitorVars, rosterVars>>
NoticesStep ==
  worker = "notices" /\ Notes!Next /\ UNCHANGED <<worker, logVars, monitorVars, rosterVars>>
MonitorStep ==
  worker = "monitor" /\ Live!Next /\ UNCHANGED <<worker, logVars, noticesVars, rosterVars>>
RosterStep ==
  worker = "roster" /\ Roster!Next /\ UNCHANGED <<worker, logVars, noticesVars, monitorVars>>

Next == LogStep \/ NoticesStep \/ MonitorStep \/ RosterStep

Fairness ==
  /\ WF_vars(LogStep /\ Log!Poll)
  /\ \A t \in Notes!Threads : WF_vars(NoticesStep /\ Notes!Dispatch(t))
  /\ WF_vars(MonitorStep /\ Live!Cycle)
  /\ \A p \in Pages : WF_vars(MonitorStep /\ Live!Follow(p))

Spec == Init /\ [][Next]_vars /\ Fairness

-----------------------------------------------------------------------------
(* Properties: those of the parts. *)

(* The variables have their types. *)
TypeOK == Log!TypeOK /\ Notes!TypeOK /\ Live!TypeOK /\ Roster!TypeOK

(* No line of the log is in the audit table twice. *)
RecordedOnce == Log!RecordedOnce

(* Every line of the log arrives in the audit table, unless it cannot. *)
LinesArrive == Log!LinesArrive

(* Every notice is sent or given up. *)
NoticesAreHandled == Notes!NoticesAreHandled

(* The pals on display are the first pages of one list of one snapshot. *)
RosterIsWhole == Roster!RosterIsWhole

(* Every open page comes to show what the server answers. *)
PagesFollow == Live!PagesFollow
=============================================================================
