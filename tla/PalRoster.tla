----------------------------- MODULE PalRoster -----------------------------
(***************************************************************************)
(* The roster of pals: a page that shows a long list of the current         *)
(* snapshot piece by piece (PalRoster.tsx, query_pal_roster).               *)
(*                                                                         *)
(* A request names the snapshot the page knows and is refused when another  *)
(* one is current; the page then asks for the status, and a status with      *)
(* another snapshot mounts the roster anew.  "Load more" asks for the page    *)
(* behind the pals on display and adds it to them.  A request supersedes the *)
(* one before it, whose answer is ignored.                                   *)
(*                                                                         *)
(* What a query selects and in which order is data: a list without           *)
(* repetitions for each filter, since every ORDER BY ends with the id.       *)
(***************************************************************************)
EXTENDS Naturals, Sequences, FiniteSets

CONSTANTS
  Pals,
  Filters,        \* what the user can filter and sort by
  DefaultFilter,
  Listings,       \* the lists a query may give
  PageSize,
  MaxSnapshots    \* snapshots published while the page is open

(* A list without repetitions. *)
IsList(l) == l \in Seq(Pals) /\ \A i, j \in DOMAIN l : l[i] = l[j] => i = j

VARIABLES
  published,    \* the caches in the order they were published; the last one is current
  known,        \* snapshotId: the snapshot of the page's status; 0 is none
  filter,
  items, total, \* what is on display, and how many there are to load
  asked,        \* the request under way, the latest one
  loadingMore,  \* "load more" is disabled
  failed,       \* error: the last request failed
  shows,        \* history: the snapshot, the filter and the number of pages on display
  mixed         \* history: a page was added to the pals of another filter

vars == <<published, known, filter, items, total, asked, loadingMore, failed, shows, mixed>>

-----------------------------------------------------------------------------
(* The console. *)

(* A snapshot has, for each filter, the list of the pals it selects. *)
Contents == [Filters -> Listings]

Current == Len(published)

(* Page n of a list. *)
PageOf(l, n) == {l[i] : i \in {j \in DOMAIN l : (n - 1) * PageSize < j /\ j <= n * PageSize}}

Publish ==
  /\ Current < MaxSnapshots
  /\ \E c \in Contents : published' = Append(published, c)
  /\ UNCHANGED <<known, filter, items, total, asked, loadingMore, failed, shows, mixed>>

(* The answer is that of the current cache, whatever was asked for. *)
Answered == [asked EXCEPT !.at = "answered", !.from = Current]

(* SNAPSHOT_REPLACED: the snapshot that is asked for is not current. *)
Refused == [asked EXCEPT !.at = "refused"]

(* Mutant: every request is answered. *)
ServeAny ==
  /\ asked.at = "sent"
  /\ asked' = Answered
  /\ UNCHANGED <<published, known, filter, items, total, loadingMore, failed, shows, mixed>>

Serve ==
  /\ asked.at = "sent"
  /\ asked' = IF asked.snapshot = Current THEN Answered ELSE Refused
  /\ UNCHANGED <<published, known, filter, items, total, loadingMore, failed, shows, mixed>>

-----------------------------------------------------------------------------
(* The page. *)

Nothing == [snapshot |-> 0, filter |-> DefaultFilter, pages |-> 0]

(* Without a snapshot nothing is asked. *)
Request(s, f, n, append) ==
  [snapshot |-> s, filter |-> f, page |-> n, append |-> append,
   from |-> 0, at |-> IF s = 0 THEN "idle" ELSE "sent"]

Init ==
  /\ published = <<>> /\ known = 0
  /\ filter = DefaultFilter
  /\ items = {} /\ total = 0
  /\ asked = Request(0, DefaultFilter, 1, FALSE)
  /\ loadingMore = FALSE /\ failed = FALSE
  /\ shows = Nothing /\ mixed = FALSE

(* A status arrives, soon or late: after a refusal, a visit of the page, a reparse.  The *)
(* roster's key is the snapshot, so that another one mounts it anew, without filters.  *)
Hear(s) ==
  /\ s # known
  /\ known' = s /\ filter' = DefaultFilter
  /\ items' = {} /\ total' = 0
  /\ asked' = Request(s, DefaultFilter, 1, FALSE)
  /\ loadingMore' = FALSE /\ failed' = FALSE
  /\ shows' = Nothing /\ mixed' = FALSE
  /\ UNCHANGED published

(* loadPage: a request under way is superseded.  The page keeps what it shows. *)
LoadPage(f, n, append) ==
  /\ asked' = Request(known, f, n, append)
  /\ loadingMore' = (loadingMore \/ append) /\ failed' = FALSE
  /\ UNCHANGED <<published, known, items, total, shows, mixed>>

(* applyFilters: the filter may be the one that is applied already; it is loaded anew. *)
ChooseFilter(f) == filter' = f /\ LoadPage(f, 1, FALSE)

TryAgain == failed /\ LoadPage(filter, 1, FALSE) /\ UNCHANGED filter

(* "Load more" can be pressed while a first page is loading. *)
LoadMore ==
  /\ Cardinality(items) < total /\ ~loadingMore
  /\ LoadPage(filter, Cardinality(items) \div PageSize + 1, TRUE)
  /\ UNCHANGED filter

(* mergePalRosterPage: pals that are on display already are not added again. *)
Merged(rows) == IF asked.append THEN items \union rows ELSE rows

Show ==
  LET list == published[asked.from][asked.filter] IN
  /\ items' = Merged(PageOf(list, asked.page))
  /\ total' = Len(list)
  /\ mixed' = (asked.append /\ (mixed \/ shows.filter # asked.filter))
  /\ shows' = IF mixed' THEN shows
              ELSE [snapshot |-> asked.from, filter |-> asked.filter,
                    pages |-> IF asked.append THEN shows.pages + 1 ELSE 1]

(* An answer of another snapshot than the one asked for is dropped. *)
Receive ==
  /\ asked.at = "answered"
  /\ IF asked.from = asked.snapshot THEN Show ELSE UNCHANGED <<items, total, shows, mixed>>
  /\ asked' = [asked EXCEPT !.at = "idle"]
  /\ loadingMore' = FALSE
  /\ UNCHANGED <<published, known, filter, failed>>

(* The request fails, or the one for the status after a refusal. *)
Fails ==
  /\ asked.at # "idle"
  /\ asked' = [asked EXCEPT !.at = "idle"]
  /\ loadingMore' = FALSE /\ failed' = TRUE
  /\ UNCHANGED <<published, known, filter, items, total, shows, mixed>>

Next ==
  \/ Publish \/ Serve
  \/ \E s \in 1..Current : Hear(s)
  \/ \E f \in Filters : ChooseFilter(f)
  \/ TryAgain \/ LoadMore \/ Receive \/ Fails

Spec == Init /\ [][Next]_vars

-----------------------------------------------------------------------------
(* Properties. *)

Requests ==
  [snapshot : Nat, filter : Filters, page : Nat \ {0}, append : BOOLEAN, from : Nat,
   at : {"idle", "sent", "answered", "refused"}]

(* The variables have their types. *)
TypeOK ==
  /\ published \in Seq(Contents) /\ Current <= MaxSnapshots
  /\ known \in 0..Current
  /\ filter \in Filters
  /\ items \subseteq Pals /\ IsFiniteSet(items) /\ total \in Nat
  /\ asked \in Requests /\ asked.snapshot \in 0..Current /\ asked.from \in 0..Current
  /\ loadingMore \in BOOLEAN /\ failed \in BOOLEAN /\ mixed \in BOOLEAN
  /\ shows \in [snapshot : 0..Current, filter : Filters, pages : Nat]

(* The first k pages of a list. *)
FirstPages(l, k) == {l[i] : i \in {j \in DOMAIN l : j <= k * PageSize}}

(* What is on display are the first pages of one list of one snapshot, none left out,    *)
(* with the length of that list, however many snapshots are published, statuses and       *)
(* answers late and requests superseded; and once the page rests it is the list of the     *)
(* snapshot and the filter it names.  Excepted are pals that "load more" added to those  *)
(* of another filter, while its first page was loading or after it had failed             *)
(* (PalRoster.tsx:354).                                                                   *)
RosterIsWhole ==
  /\ ~mixed /\ shows.pages > 0 =>
       LET list == published[shows.snapshot][shows.filter] IN
       items = FirstPages(list, shows.pages) /\ total = Len(list)
  /\ asked.at = "idle" /\ ~failed /\ ~mixed /\ known # 0 =>
       shows.pages > 0 /\ shows.snapshot = known /\ shows.filter = filter
=============================================================================
