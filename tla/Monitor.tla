------------------------------ MODULE Monitor ------------------------------
(***************************************************************************)
(* The thread that asks the server how it is, and the event streams that   *)
(* show the answers on the pages (MonitorCoordinator of monitoring.py).     *)
(*                                                                         *)
(* A cycle collects values one after the other, each under the lock, then   *)
(* raises the sequence number the streams wait for.  A stream that has not  *)
(* seen the latest number is behind.  The value info, collected like that   *)
(* of the players, is left out.                                             *)
(* What the server answers stands for the state it is in: the set of its    *)
(* players.                                                                 *)
(***************************************************************************)
EXTENDS Naturals

CONSTANTS
  Players,
  Pages,
  MaxChanges,   \* changes of the players and of what works
  MaxFailures,  \* cycles ended by an unexpected error, and ends of the console
  None          \* no answer yet; a page without a stream

VARIABLES
  online,   \* the players of the server
  working,  \* what works
  step,     \* where the thread is in a cycle
  live,     \* state: the values
  shown,    \* what each page shows
  behind,   \* the pages whose sequence number is not the latest
  changes,  \* counts
  raised

vars == <<online, working, step, live, shown, behind, changes, raised>>

Values == {"players", "metrics", "settings"}
Parts == {"config", "rest", "rcon", "process"}
LiveValues == [data : (SUBSET Players) \union {None}, stale : BOOLEAN]
Uncollected == [v \in Values |-> [data |-> None, stale |-> TRUE]]
Open == {p \in Pages : shown[p] # None}

Init ==
  /\ online = {} /\ working = Parts
  /\ step = "waits"
  /\ live = Uncollected
  /\ shown = [p \in Pages |-> None] /\ behind = {}
  /\ changes = 0 /\ raised = 0

(* Players come and go; a part begins or ceases to work, or to be enabled. *)
Change ==
  /\ changes < MaxChanges /\ changes' = changes + 1
  /\ \/ online' \in SUBSET Players /\ UNCHANGED working
     \/ working' \in SUBSET Parts /\ UNCHANGED online
  /\ UNCHANGED <<step, live, shown, behind, raised>>

-----------------------------------------------------------------------------
(* A cycle: collect_once. *)

(* A configuration that cannot be read makes every value stale. *)
Load ==
  /\ step = "waits"
  /\ IF "config" \in working
     THEN /\ step' = "players"
          /\ UNCHANGED live
     ELSE /\ step' = "publish"
          /\ live' = [v \in Values |-> [live[v] EXCEPT !.stale = TRUE]]
  /\ UNCHANGED <<online, working, shown, behind, changes, raised>>

(* RCON stands in for the players; the metrics are one value made of the *)
(* answer of the server and of the measures of its processes.            *)
Answers(v) ==
  \/ "rest" \in working /\ (v = "metrics" => "process" \in working)
  \/ "rcon" \in working /\ v = "players"

After == [players |-> "observe", metrics |-> "settings", settings |-> "close"]

(* A value that cannot be collected keeps its last data and becomes stale. *)
Collect(v) ==
  /\ step = v
  /\ step' = After[v]
  /\ live' = [live EXCEPT ![v] = IF Answers(v) THEN [data |-> online, stale |-> FALSE]
                                               ELSE [@ EXCEPT !.stale = TRUE]]
  /\ UNCHANGED <<online, working, shown, behind, changes, raised>>

(* The audit log compares the players with those it saw last. *)
Observe ==
  /\ step = "observe" /\ step' = "metrics"
  /\ UNCHANGED <<online, working, live, shown, behind, changes, raised>>

(* The connection to the server is given up, which may fail like the rest. *)
CloseSource ==
  /\ step = "close" /\ step' = "publish"
  /\ UNCHANGED <<online, working, live, shown, behind, changes, raised>>

Publish ==
  /\ step = "publish" /\ step' = "waits"
  /\ behind' = Open
  /\ UNCHANGED <<online, working, live, shown, changes, raised>>

(* Mutant: an unexpected error ends the thread. *)
FailsForGood ==
  /\ step \notin {"publish", "ended"} /\ raised < MaxFailures
  /\ raised' = raised + 1
  /\ step' = "ended"
  /\ UNCHANGED <<online, working, live, shown, behind, changes>>

(* The configuration, an answer, the audit table, a process or a connection raises an *)
(* error nobody expects: the cycle ends unpublished, another follows after a delay. *)
Fails ==
  /\ step # "publish" /\ raised < MaxFailures
  /\ raised' = raised + 1
  /\ step' = "waits"
  /\ UNCHANGED <<online, working, live, shown, behind, changes>>

-----------------------------------------------------------------------------
(* The stream of a page. *)

Show(p) ==
  /\ shown' = [shown EXCEPT ![p] = live]
  /\ behind' = behind \ {p}
  /\ UNCHANGED <<online, working, step, live, changes, raised>>

Connect(p) == p \notin Open /\ Show(p)

(* A new number wakes the stream. *)
Follow(p) == p \in behind /\ Show(p)

(* Nothing new for 15 s: the page is sent what there is. *)
Refresh(p) == p \in Open \ behind /\ Show(p)

Disconnect(p) ==
  /\ p \in Open
  /\ shown' = [shown EXCEPT ![p] = None]
  /\ behind' = behind \ {p}
  /\ UNCHANGED <<online, working, step, live, changes, raised>>

(* The console ends and starts anew. *)
Restart ==
  /\ raised < MaxFailures /\ raised' = raised + 1
  /\ step' = "waits" /\ live' = Uncollected
  /\ shown' = [p \in Pages |-> None] /\ behind' = {}
  /\ UNCHANGED <<online, working, changes>>

Cycle == Load \/ (\E v \in Values : Collect(v)) \/ Observe \/ CloseSource \/ Publish

Next ==
  \/ Change \/ Cycle \/ Fails \/ Restart
  \/ \E p \in Pages : Connect(p) \/ Follow(p) \/ Refresh(p) \/ Disconnect(p)

(* The thread runs for as long as the console does, and a stream that is woken runs. *)
Fairness == WF_vars(Cycle) /\ \A p \in Pages : WF_vars(Follow(p))

Spec == Init /\ [][Next]_vars /\ Fairness

-----------------------------------------------------------------------------
(* Properties. *)

(* The variables have their types. *)
TypeOK ==
  /\ online \subseteq Players /\ working \subseteq Parts
  /\ step \in Values \union {"waits", "observe", "close", "publish"}
  /\ live \in [Values -> LiveValues]
  /\ shown \in [Pages -> [Values -> LiveValues] \union {None}]
  /\ behind \subseteq Open
  /\ changes \in 0..MaxChanges /\ raised \in 0..MaxFailures

Collectable(v) == "config" \in working /\ Answers(v)

(* Every open page comes to show, of each value, what the server answers now, *)
(* or that the value is stale when nothing answers, whatever cycles ended by  *)
(* an error before and whenever the page was opened (monitoring.py:713, 759). *)
PagesFollow ==
  \A p \in Pages : []<>(
    p \in Open => \A v \in Values :
      IF Collectable(v) THEN shown[p][v] = [data |-> online, stale |-> FALSE]
                        ELSE shown[p][v].stale)
=============================================================================
