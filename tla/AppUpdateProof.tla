--------------------------- MODULE AppUpdateProof ---------------------------
(***************************************************************************)
(* The update of the application, proved for any consoles, any number of   *)
(* updates and any bound on the events: while parts move no console runs,  *)
(* and whatever fails, what stands afterwards is one whole package with    *)
(* the one before it kept.                                                 *)
(***************************************************************************)
EXTENDS AppUpdate, TLAPS

(***************************************************************************)
(* The parts of the inductive invariant.                                   *)
(***************************************************************************)

\* Consoles that may serve requests, and may write what an update moves.
Serving == {"running", "held", "leaving"}

\* Steps of prepare() between taking the lock and handing it over.
Preparing == {"locked", "alone", "checked", "fetched", "staged"}

\* Points of an installer behind its check that no console is left.
Clear == {"saving", "staging"} \union Moving

\* Points of an installer at which the lock is its own.
Held == {"waiting", "entering", "checking", "installed"} \union Clear

\* Points of an installer that has moved nothing.
BeforeTheMoves == {"none", "new", "waiting", "entering", "checking", "saving", "staging"}

\* Points of an installer whose package is in place as a whole.
InPlace == {"installed", "launching", "health"}

\* Points that only apply-downloaded-update.ps1 has, not a run by hand.
OfHelper == {"new", "waiting", "entering", "launching", "health", "failing", "restoring", "reporting"}

\* Nothing was started under this number.
Unused(u) == upd[u].by = Nobody

\* Nobody moves parts.
Quiet == \A u \in Ids : ~MovesParts(u)

\* The owner an installer writes into the lock.
Kind(u) == IF upd[u].by = Manual THEN "manual" ELSE "helper"

\* Updates are numbered as they begin, and the lock is never ahead of them.
InOrder ==
  /\ \A u \in Ids : Unused(u) => upd[u] = NoUpdate /\ \A v \in Ids : v > u => Unused(v)
  /\ lock # NoLock => ~Unused(lock.id) /\ \A v \in Ids : v > lock.id => Unused(v)

\* A console reports on updates of its own, and a start of it renews the
\* report.
Reported ==
  \A c \in Consoles :
    /\ progress[c].id # 0 => upd[progress[c].id].by = c
    /\ progress[c].state \in Active => progress[c].id # 0
    /\ progress[c].state \in Active /\ upd[progress[c].id].installer \in {"launching", "health"} => fresh[c]

\* Who works on an update, by its prepare step and its installer.
Roles ==
  \A u \in Ids :
    /\ upd[u].by = Manual => upd[u].prepare = "none" /\ upd[u].installer \notin OfHelper
    /\ upd[u].hosted => upd[u].by \in Consoles /\ console[upd[u].by] \in Serving
    /\ upd[u].prepare \notin {"none", "done"} => upd[u].hosted
    /\ upd[u].prepare = "releasing" => ~InstallerAlive(u)
    /\ upd[u].prepare \in Preparing => lock = [id |-> u, phase |-> "prepare"] /\ upd[u].installer = "none"

\* Behind its look at the lock an installer owns it.
LockIsHeld ==
  \A u \in Ids : upd[u].installer \in Held => lock = [id |-> u, phase |-> Kind(u)]

\* Behind its check of the processes no console serves.
NobodyServes ==
  \A u \in Ids : upd[u].installer \in Clear => \A c \in Consoles : console[c] \notin Serving

\* An installer that moved nothing left no file of its own anywhere.
Unmoved ==
  \A u \in Ids : upd[u].installer \in BeforeTheMoves =>
    /\ upd[u].step = 0 /\ backups[u] = Empty
    /\ \A p \in Parts : installed[p] # u /\ \A v \in Ids : backups[v][p] # u

\* The installation that taking back the moves of u would give.
Restored(u) ==
  [p \in Parts |-> IF p <= (upd[u].step + 1) \div 2 THEN backups[u][p] ELSE installed[p]]

\* Half way, the parts moved are those of u and its backup has the others.
HalfMoved ==
  \A u \in Ids : MovesParts(u) =>
    /\ \A p \in Parts :
        /\ p <= upd[u].step \div 2 => installed[p] = u
        /\ upd[u].step = 2 * p - 1 => installed[p] = Missing
        /\ 2 * p > upd[u].step + 1 => backups[u][p] = Missing
    /\ \A p \in Parts : Restored(u)[p] # u

\* These parts are one installation, and the others keep what they replaced.
Stands(old, others) ==
  /\ old \in Whole
  /\ \A v \in others : /\ backups[v] # Empty => v <= old[Program]
                       /\ old[Program] = v => backups[v] \in Whole

\* Unless it is torn, what stands or would be put back is whole.
Safe ==
  "torn" \notin disturbed =>
    /\ Quiet => Stands(installed, Ids)
    /\ \A u \in Ids : MovesParts(u) => Stands(Restored(u), Ids \ {u})

\* Where a package was moved in as a whole, its program came with all its
\* parts.
Fresh(old) == \A v \in Ids : upd[v].installer \in InPlace /\ old[Program] = v => old = WholeOf(v)

\* The package in place is whole for an installer that launches it.
NewIsWhole ==
  /\ Quiet => Fresh(installed)
  /\ \A u \in Ids : MovesParts(u) => Fresh(Restored(u))

(***************************************************************************)
(* What the helpers of the actions do to each field.                       *)
(***************************************************************************)

\* The prepare step of one update changes, nothing else of any update.
LEMMA PrepareIs ==
  ASSUME TypeOK, NEW u \in Ids, NEW s \in PrepareSteps, Prepare(u, s)
  PROVE  /\ upd' \in [Ids -> Updates]
         /\ \A v \in Ids : v # u => upd'[v] = upd[v]
         /\ upd'[u].by = upd[u].by /\ upd'[u].hosted = upd[u].hosted
         /\ upd'[u].prepare = s /\ upd'[u].installer = upd[u].installer
         /\ upd'[u].step = upd[u].step /\ upd'[u].pruner = upd[u].pruner
  BY DEF TypeOK, Prepare, Updates

\* The installer of one update changes, nothing else of any update.
LEMMA InstallerIs ==
  ASSUME TypeOK, NEW u \in Ids, NEW s \in InstallerSteps, Installer(u, s)
  PROVE  /\ upd' \in [Ids -> Updates]
         /\ \A v \in Ids : v # u => upd'[v] = upd[v]
         /\ upd'[u].by = upd[u].by /\ upd'[u].hosted = upd[u].hosted
         /\ upd'[u].prepare = upd[u].prepare /\ upd'[u].installer = s
         /\ upd'[u].step = upd[u].step /\ upd'[u].pruner = upd[u].pruner
  BY DEF TypeOK, Installer, Updates

\* _set_progress renews the report of one console.
LEMMA PublishIs ==
  ASSUME TypeOK, NEW c \in Consoles, NEW s \in ProgressStates, NEW u \in 0..MaxUpdates, Publish(c, s, u)
  PROVE  /\ progress' \in [Consoles -> [state : ProgressStates, id : 0..MaxUpdates]]
         /\ fresh' \in [Consoles -> BOOLEAN]
         /\ \A d \in Consoles : d # c => progress'[d] = progress[d] /\ fresh'[d] = fresh[d]
         /\ progress'[c] = [state |-> s, id |-> u] /\ fresh'[c] = TRUE
  BY DEF TypeOK, Publish

\* An event counts and may disturb.
LEMMA EventIs ==
  ASSUME TypeOK, NEW w, w \subseteq Disturbances, Event(w)
  PROVE  disturbed' \in SUBSET Disturbances /\ events' \in 0..MaxEvents /\ disturbed \subseteq disturbed'
  BY BoundsAreNat DEF TypeOK, Event

\* Anything else neither counts nor disturbs.
LEMMA NoEventIs ==
  ASSUME TypeOK, NoEvent
  PROVE  disturbed' \in SUBSET Disturbances /\ events' \in 0..MaxEvents /\ disturbed' = disturbed
  BY DEF TypeOK, NoEvent

\* The end of a console ends the threads in it and nothing else.
LEMMA EndOfIs ==
  ASSUME TypeOK, NEW c \in Consoles, EndOf(c)
  PROVE  /\ upd' \in [Ids -> Updates] /\ console' \in [Consoles -> ConsoleStates] /\ loser' \in [Consoles -> BOOLEAN]
         /\ console'[c] = "off" /\ \A d \in Consoles : d # c => console'[d] = console[d]
         /\ \A v \in Ids :
              /\ upd'[v].by = upd[v].by
              /\ upd'[v].installer = upd[v].installer
              /\ upd'[v].step = upd[v].step /\ upd'[v].pruner = upd[v].pruner
              /\ upd[v].by = c /\ upd[v].hosted => ~upd'[v].hosted /\ upd'[v].prepare = "done"
              /\ ~(upd[v].by = c /\ upd[v].hosted) => upd'[v] = upd[v]
  BY DEF TypeOK, EndOf, Updates, ConsoleStates, PrepareSteps

(***************************************************************************)
(* The core: types, numbering, reports and the lock.                       *)
(***************************************************************************)

\* Types, numbering, reports and the lock; no files.
Core == TypeOK /\ InOrder /\ Reported /\ Roles /\ LockIsHeld /\ NobodyServes

\* The step says nothing, or reports the update to its console.
Tells(u) == \/ UNCHANGED <<progress, fresh>>
            \/ \E s \in ProgressStates : Publish(upd[u].by, s, u)

\* A step of prepare() that leaves the lock and the consoles alone.
Prepares(u, s) ==
  /\ upd[u].prepare \notin {"none", "done"}
  /\ Prepare(u, s) /\ UNCHANGED <<lock, console>> /\ Tells(u)

\* A helper belongs to a console.
LEMMA HelperIsOfConsole ==
  ASSUME Core, NEW u \in Ids, upd[u].installer \in OfHelper
  PROVE  upd[u].by \in Consoles
  BY DEF Core, TypeOK, InOrder, Roles, OfHelper, Unused, NoUpdate, Updates

\* prepare() runs in a console that serves.
LEMMA PreparerIsOfConsole ==
  ASSUME Core, NEW u \in Ids, upd[u].prepare \notin {"none", "done"}
  PROVE  upd[u].by \in Consoles /\ upd[u].hosted /\ console[upd[u].by] \in Serving
  BY DEF Core, Roles

\* What a report does to the reports.
LEMMA TellsIs ==
  ASSUME TypeOK, NEW u \in Ids, upd[u].by \in Consoles, Tells(u)
  PROVE  /\ progress' \in [Consoles -> [state : ProgressStates, id : 0..MaxUpdates]]
         /\ fresh' \in [Consoles -> BOOLEAN]
         /\ \A c \in Consoles : c # upd[u].by => progress'[c] = progress[c] /\ fresh'[c] = fresh[c]
         /\ \/ progress'[upd[u].by] = progress[upd[u].by] /\ fresh'[upd[u].by] = fresh[upd[u].by]
            \/ progress'[upd[u].by].id = u /\ fresh'[upd[u].by] = TRUE
<1> DEFINE c == upd[u].by
<1>1. CASE UNCHANGED <<progress, fresh>>
  BY <1>1 DEF TypeOK
<1>2. ASSUME NEW s \in ProgressStates, Publish(c, s, u)
      PROVE  /\ progress' \in [Consoles -> [state : ProgressStates, id : 0..MaxUpdates]]
             /\ fresh' \in [Consoles -> BOOLEAN]
             /\ \A d \in Consoles : d # c => progress'[d] = progress[d] /\ fresh'[d] = fresh[d]
             /\ progress'[c].id = u /\ fresh'[c] = TRUE
  <2>1. u \in 0..MaxUpdates
    BY BoundsAreNat DEF Ids
  <2> HIDE DEF c
  <2>2. c \in Consoles
    BY DEF c
  <2>3. progress'[c] = [state |-> s, id |-> u]
    BY <1>2, <2>1, <2>2, PublishIs
  <2>4. /\ progress' \in [Consoles -> [state : ProgressStates, id : 0..MaxUpdates]]
        /\ fresh' \in [Consoles -> BOOLEAN]
        /\ \A d \in Consoles : d # c => progress'[d] = progress[d] /\ fresh'[d] = fresh[d]
        /\ fresh'[c] = TRUE
    BY <1>2, <2>1, <2>2, PublishIs
  <2>5. progress'[c].id = u
    BY <2>3
  <2> QED
    BY <2>4, <2>5
<1> QED
  BY <1>1, <1>2 DEF Tells

\* A step of prepare() keeps the core.
LEMMA PreparesKeeps ==
  ASSUME Core, NEW u \in Ids, NEW s \in PrepareSteps \ {"none"}, Prepares(u, s),
         s \in Preparing => upd[u].prepare \in Preparing,
         s = "releasing" => ~InstallerAlive(u)
  PROVE  /\ upd' \in [Ids -> Updates]
         /\ (InOrder /\ Reported /\ Roles /\ LockIsHeld /\ NobodyServes)'
<1>1. /\ upd[u].by \in Consoles /\ upd[u].hosted
      /\ TypeOK /\ InOrder /\ Reported /\ Roles /\ LockIsHeld /\ NobodyServes
  BY PreparerIsOfConsole DEF Prepares, Core
<1>2. /\ upd' \in [Ids -> Updates]
      /\ \A v \in Ids : v # u => upd'[v] = upd[v]
      /\ upd'[u].by = upd[u].by /\ upd'[u].hosted = upd[u].hosted
      /\ upd'[u].prepare = s /\ upd'[u].installer = upd[u].installer
      /\ upd'[u].step = upd[u].step /\ upd'[u].pruner = upd[u].pruner
  BY <1>1, PrepareIs DEF Prepares
<1>3. lock' = lock /\ console' = console
  BY DEF Prepares
<1>4. /\ \A c \in Consoles : c # upd[u].by => progress'[c] = progress[c] /\ fresh'[c] = fresh[c]
      /\ \/ progress'[upd[u].by] = progress[upd[u].by] /\ fresh'[upd[u].by] = fresh[upd[u].by]
         \/ progress'[upd[u].by].id = u /\ fresh'[upd[u].by] = TRUE
  BY <1>1, TellsIs DEF Prepares
<1>5. upd[u].by # Nobody /\ upd[u].by # Manual /\ u # 0
  BY <1>1, SentinelsAreFresh DEF Ids
<1>6. InOrder'
  BY <1>1, <1>2, <1>3, <1>5 DEF InOrder, Unused, Ids, TypeOK, Locks
<1>7. Reported'
  <2> SUFFICES ASSUME NEW d \in Consoles
               PROVE  /\ progress'[d].id # 0 => upd'[progress'[d].id].by = d
                      /\ progress'[d].state \in Active => progress'[d].id # 0
                      /\ progress'[d].state \in Active
                         /\ upd'[progress'[d].id].installer \in {"launching", "health"} => fresh'[d]
    BY DEF Reported
  <2>1. progress[d].id \in 0..MaxUpdates /\ \A v \in Ids : upd'[v].by = upd[v].by /\ upd'[v].installer = upd[v].installer
    BY <1>1, <1>2 DEF TypeOK
  <2>2. CASE progress'[d] = progress[d] /\ fresh'[d] = fresh[d]
    <3>1. CASE progress[d].id = 0
      BY <3>1, <2>2, <1>1 DEF Reported
    <3>2. CASE progress[d].id \in Ids
      BY <3>2, <2>2, <2>1, <1>1 DEF Reported
    <3> QED
      BY <2>1, <3>1, <3>2, BoundsAreNat DEF Ids
  <2>3. CASE d = upd[u].by /\ progress'[d].id = u /\ fresh'[d] = TRUE
    BY <2>3, <2>1, <1>5
  <2> QED
    BY <1>4, <2>2, <2>3
<1>8. Roles'
  BY <1>1, <1>2, <1>3, <1>5 DEF Roles, InstallerAlive, Prepares
<1>9. LockIsHeld'
  BY <1>1, <1>2, <1>3 DEF LockIsHeld, Kind
<1>10. NobodyServes'
  BY <1>1, <1>2, <1>3 DEF NobodyServes
<1> QED
  BY <1>2, <1>6, <1>7, <1>8, <1>9, <1>10

\* The lock stays, is given back by its owner, or goes from prepare() to the
\* helper.
Gives(u, s) ==
  \/ lock' = lock /\ (s \in Held => upd[u].installer \in Held)
  \/ lock' = NoLock /\ (lock = NoLock \/ lock.id = u) /\ s \notin Held
  \/ /\ lock' = [id |-> u, phase |-> "helper"] /\ Owns(u)
     /\ upd[u].installer = "new" /\ s = "waiting"

\* The installer of one update goes on to s, and no console begins to serve.
Proceeds(u, s) ==
  /\ InstallerAlive(u)
  /\ upd' \in [Ids -> Updates]
  /\ \A v \in Ids : v # u => upd'[v] = upd[v]
  /\ upd'[u].by = upd[u].by /\ upd'[u].hosted = upd[u].hosted
  /\ upd'[u].prepare = upd[u].prepare /\ upd'[u].installer = s
  /\ \A c \in Consoles : console'[c] \in Serving => console[c] \in Serving /\ console'[c] = console[c]
  /\ \A c \in Consoles : console[c] \in Serving => console'[c] = console[c]
  /\ UNCHANGED <<progress, fresh>> \/ (upd[u].by \in Consoles /\ Tells(u))

\* An installer that goes on keeps the core but for the types.
LEMMA ProceedsKeeps ==
  ASSUME Core, NEW u \in Ids, NEW s \in InstallerSteps \ {"none"}, Proceeds(u, s), Gives(u, s),
         s \in Clear => upd[u].installer \in Clear \/ \A c \in Consoles : console[c] \notin Serving,
         s \in OfHelper => upd[u].by # Manual,
         s \in {"launching", "health"} =>
           upd[u].installer \in {"launching", "health"} \/ fresh'[upd[u].by] = TRUE
  PROVE  (InOrder /\ Reported /\ Roles /\ LockIsHeld /\ NobodyServes)'
<1>1. /\ TypeOK /\ InOrder /\ Reported /\ Roles /\ LockIsHeld /\ NobodyServes
  BY DEF Core
<1>2. /\ upd' \in [Ids -> Updates]
      /\ \A v \in Ids : v # u => upd'[v] = upd[v]
      /\ upd'[u].by = upd[u].by /\ upd'[u].hosted = upd[u].hosted
      /\ upd'[u].prepare = upd[u].prepare /\ upd'[u].installer = s
      /\ InstallerAlive(u)
  BY DEF Proceeds
<1>3. /\ \A c \in Consoles : console'[c] \in Serving => console[c] \in Serving /\ console'[c] = console[c]
      /\ \A c \in Consoles : console[c] \in Serving => console'[c] = console[c]
  BY DEF Proceeds
<1>4. /\ upd[u].by # Nobody /\ u # 0
      /\ upd[u].prepare \notin Preparing /\ upd[u].prepare # "releasing"
      /\ s \notin {"none"}
  BY <1>1, <1>2 DEF InOrder, Roles, Unused, NoUpdate, InstallerAlive, Ids
<1>5. /\ \A c \in Consoles : c # upd[u].by => progress'[c] = progress[c] /\ fresh'[c] = fresh[c]
      /\ upd[u].by \in Consoles =>
           \/ progress'[upd[u].by] = progress[upd[u].by] /\ fresh'[upd[u].by] = fresh[upd[u].by]
           \/ progress'[upd[u].by].id = u /\ fresh'[upd[u].by] = TRUE
  <2>1. CASE UNCHANGED <<progress, fresh>>
    BY <2>1
  <2>2. CASE upd[u].by \in Consoles /\ Tells(u)
    BY <1>1, <2>2, TellsIs
  <2> QED
    BY <2>1, <2>2 DEF Proceeds
<1>6. \A v \in Ids : v # u /\ lock # NoLock /\ lock.id = v => lock' = lock
  BY SentinelsAreFresh DEF Gives, Owns
<1>7. InOrder'
  <2>1. \A v \in Ids : Unused(v)' <=> Unused(v)
    BY <1>2, <1>4 DEF Unused
  <2>2. \A v \in Ids : Unused(v) => v # u /\ upd'[v] = upd[v]
    BY <1>2, <1>4 DEF Unused
  <2>3. lock' # NoLock => lock # NoLock /\ lock'.id = lock.id
    BY DEF Gives, Owns
  <2>4. lock # NoLock => lock.id \in Ids
    BY <1>1 DEF TypeOK, Locks
  <2> QED
    BY <1>1, <2>1, <2>2, <2>3, <2>4 DEF InOrder
<1>8. Reported'
  <2> SUFFICES ASSUME NEW d \in Consoles
               PROVE  /\ progress'[d].id # 0 => upd'[progress'[d].id].by = d
                      /\ progress'[d].state \in Active => progress'[d].id # 0
                      /\ progress'[d].state \in Active
                         /\ upd'[progress'[d].id].installer \in {"launching", "health"} => fresh'[d]
    BY DEF Reported
  <2>1. progress[d].id \in 0..MaxUpdates
    BY <1>1 DEF TypeOK
  <2>2. CASE progress'[d] = progress[d] /\ fresh'[d] = fresh[d]
    <3>1. CASE progress[d].id = 0
      BY <3>1, <2>2, <1>1 DEF Reported
    <3>2. CASE progress[d].id \in Ids /\ progress[d].id # u
      BY <3>2, <2>2, <1>2, <1>1 DEF Reported
    <3>3. CASE progress[d].id = u
      <4>1. upd[u].by = d
        BY <3>3, <1>1, <1>4 DEF Reported
      <4> QED
        BY <3>3, <4>1, <2>2, <1>2, <1>1, <1>4 DEF Reported
    <3> QED
      BY <2>1, <3>1, <3>2, <3>3, BoundsAreNat DEF Ids
  <2>3. CASE d = upd[u].by /\ progress'[d].id = u /\ fresh'[d] = TRUE
    BY <2>3, <1>2, <1>4
  <2> QED
    BY <1>5, <2>2, <2>3
<1>9. Roles'
  <2> SUFFICES ASSUME NEW v \in Ids
               PROVE  /\ upd'[v].by = Manual => upd'[v].prepare = "none" /\ upd'[v].installer \notin OfHelper
                      /\ upd'[v].hosted => upd'[v].by \in Consoles /\ console'[upd'[v].by] \in Serving
                      /\ upd'[v].prepare \notin {"none", "done"} => upd'[v].hosted
                      /\ upd'[v].prepare = "releasing" => ~InstallerAlive(v)'
                      /\ upd'[v].prepare \in Preparing => lock' = [id |-> v, phase |-> "prepare"] /\ upd'[v].installer = "none"
    BY DEF Roles
  <2>1. CASE v = u
    BY <2>1, <1>1, <1>2, <1>3, <1>4 DEF Roles
  <2>2. CASE v # u
    <3>1. upd'[v] = upd[v]
      BY <2>2, <1>2
    <3>2. upd[v].prepare \in Preparing => lock' = lock
      BY <2>2, <1>1, <1>6, SentinelsAreFresh DEF Roles, Locks, Phases
    <3> QED
      BY <3>1, <3>2, <1>1, <1>3 DEF Roles, InstallerAlive
  <2> QED
    BY <2>1, <2>2
<1>10. LockIsHeld'
  <2> SUFFICES ASSUME NEW v \in Ids, upd'[v].installer \in Held
               PROVE  lock' = [id |-> v, phase |-> Kind(v)']
    BY DEF LockIsHeld
  <2>1. CASE v # u
    <3>1. upd'[v] = upd[v] /\ lock = [id |-> v, phase |-> Kind(v)]
      BY <2>1, <1>1, <1>2 DEF LockIsHeld
    <3>2. lock \in Locks
      BY <3>1 DEF Locks, Phases, Kind
    <3>3. lock' = lock
      BY <2>1, <3>1, <3>2, <1>6, SentinelsAreFresh
    <3> QED
      BY <3>1, <3>3 DEF Kind
  <2>2. CASE v = u
    BY <2>2, <1>1, <1>2 DEF LockIsHeld, Gives, Kind, OfHelper, Roles
  <2> QED
    BY <2>1, <2>2
<1>11. NobodyServes'
  BY <1>1, <1>2, <1>3 DEF NobodyServes
<1> QED
  BY <1>7, <1>8, <1>9, <1>10, <1>11

(***************************************************************************)
(* The files.                                                              *)
(***************************************************************************)

\* What the invariant says of the files.
Files == Unmoved /\ HalfMoved /\ Safe /\ NewIsWhole

\* No way leads back before the moves, into or out of them, or into place.
Onward(f, s) ==
  /\ s \in BeforeTheMoves => f \in BeforeTheMoves
  /\ s \in Moving <=> f \in Moving
  /\ s \in InPlace => f \in InPlace

\* A step that leaves the files alone.
Calm ==
  /\ UNCHANGED fileVars /\ disturbed \subseteq disturbed'
  /\ \A u \in Ids : upd'[u].step = upd[u].step /\ Onward(upd[u].installer, upd'[u].installer)

\* Such a step keeps what is said of the files.
LEMMA CalmKeeps ==
  ASSUME Files, Calm
  PROVE  Files'
<1>1. /\ installed' = installed /\ backups' = backups
      /\ "torn" \notin disturbed' => "torn" \notin disturbed
      /\ \A u \in Ids : upd'[u].step = upd[u].step
      /\ \A u \in Ids : upd'[u].installer \in BeforeTheMoves => upd[u].installer \in BeforeTheMoves
      /\ \A u \in Ids : upd'[u].installer \in InPlace => upd[u].installer \in InPlace
      /\ \A u \in Ids : MovesParts(u)' <=> MovesParts(u)
  BY DEF Calm, Onward, MovesParts, fileVars
<1>2. Quiet' <=> Quiet
  BY <1>1 DEF Quiet
<1>3. \A u \in Ids : Restored(u)' = Restored(u)
  BY <1>1 DEF Restored
<1>4. Unmoved'
  BY <1>1 DEF Files, Unmoved
<1>5. HalfMoved'
  BY <1>1, <1>3 DEF Files, HalfMoved
<1>6. Safe'
  <2>1. \A old, others : others \subseteq Ids /\ Stands(old, others) =>
             /\ old \in Whole
             /\ \A v \in others : /\ backups'[v] # Empty => v <= old[Program]
                                  /\ old[Program] = v => backups'[v] \in Whole
    BY <1>1 DEF Stands
  <2>2. Quiet' /\ "torn" \notin disturbed' => Stands(installed, Ids)'
    BY <1>1, <1>2, <2>1 DEF Files, Safe, Stands
  <2>3. \A u \in Ids : MovesParts(u)' /\ "torn" \notin disturbed' => Stands(Restored(u), Ids \ {u})'
    BY <1>1, <1>3, <2>1 DEF Files, Safe, Stands
  <2> QED
    BY <2>2, <2>3 DEF Safe
<1>7. NewIsWhole'
  <2>1. Quiet' => Fresh(installed)'
    BY <1>1, <1>2 DEF Files, NewIsWhole, Fresh
  <2>2. \A u \in Ids : MovesParts(u)' => Fresh(Restored(u))'
    BY <1>1, <1>3 DEF Files, NewIsWhole, Fresh
  <2> QED
    BY <2>1, <2>2 DEF NewIsWhole
<1> QED
  BY <1>4, <1>5, <1>6, <1>7 DEF Files

\* Who moves parts is alone.
LEMMA OneMoves ==
  ASSUME LockIsHeld, NEW u \in Ids, upd[u].installer \in Held, NEW v \in Ids, upd[v].installer \in Held
  PROVE  v = u
  BY DEF LockIsHeld

\* Without a lock nobody moves parts.
LEMMA NobodyMovesWithoutLock ==
  ASSUME TypeOK, LockIsHeld, lock = NoLock
  PROVE  Quiet
  BY SentinelsAreFresh DEF LockIsHeld, Quiet, MovesParts, Held, Clear, Locks, Kind, Phases

\* The moves begin with everything in place.
LEMMA StageKeeps ==
  ASSUME Core, Files, NEW u \in Ids, upd[u].installer = "staging",
         UNCHANGED fileVars, disturbed' = disturbed, Installer(u, "moving")
  PROVE  Files'
<1>1. /\ upd' \in [Ids -> Updates]
      /\ \A v \in Ids : v # u => upd'[v] = upd[v]
      /\ upd'[u].installer = "moving" /\ upd'[u].step = upd[u].step
      /\ installed' = installed /\ backups' = backups
  BY InstallerIs DEF Core, InstallerSteps, Moving, fileVars
<1>2. \A v \in Ids : ~MovesParts(v)
  BY OneMoves DEF Core, MovesParts, Held, Clear, Moving
<1>3. upd[u].step = 0 /\ backups[u] = Empty /\ \A p \in Parts : installed[p] # u
  BY DEF Files, Unmoved, BeforeTheMoves
<1>4. \A v \in Ids : MovesParts(v)' => v = u
  BY <1>1, <1>2 DEF MovesParts
<1>5. MovesParts(u)'
  BY <1>1 DEF MovesParts, Moving
<1>6. Restored(u)' = installed
  <2>1. installed = [p \in Parts |-> installed[p]]
    BY DEF Core, TypeOK, Installs
  <2>2. \A p \in Parts : ~(p <= (0 + 1) \div 2)
    BY DEF Parts
  <2> QED
    BY <1>1, <1>3, <2>1, <2>2 DEF Restored
<1>7. Unmoved'
  BY <1>1 DEF Files, Unmoved, BeforeTheMoves
<1>8. HalfMoved'
  <2>1. \A p \in Parts :
        /\ p <= upd'[u].step \div 2 => installed'[p] = u
        /\ upd'[u].step = 2 * p - 1 => installed'[p] = Missing
        /\ 2 * p > upd'[u].step + 1 => backups'[u][p] = Missing
        /\ Restored(u)'[p] # u
    BY <1>1, <1>3, <1>6 DEF Parts, Empty
  <2> QED
    BY <1>4, <2>1 DEF HalfMoved
<1>9. Safe'
  <2>1. "torn" \notin disturbed => Stands(installed, Ids)
    BY <1>2 DEF Files, Safe, Quiet
  <2>2. "torn" \notin disturbed' => Stands(Restored(u), Ids \ {u})'
    BY <1>1, <1>6, <2>1 DEF Stands
  <2> QED
    BY <1>4, <1>5, <2>2 DEF Safe, Quiet
<1>10. NewIsWhole'
  <2>1. Fresh(installed)
    BY <1>2 DEF Files, NewIsWhole, Quiet
  <2>2. Fresh(Restored(u))'
    BY <1>1, <1>6, <2>1 DEF Fresh, InPlace
  <2> QED
    BY <1>4, <1>5, <2>2 DEF NewIsWhole, Quiet
<1> QED
  BY <1>7, <1>8, <1>9, <1>10 DEF Files

\* Arithmetic of the moves: two to a part, in order.
LEMMA HalvesAreNumbers ==
  ASSUME NEW k \in 0..8
  PROVE  \E j \in 0..4 : /\ k = 2 * j \/ k = 2 * j + 1
                         /\ k \div 2 = j /\ (k % 2 = 0 <=> k = 2 * j)
                         /\ (k + 1) \div 2 = IF k = 2 * j THEN j ELSE j + 1
                         /\ k > 0 => PartAt(k - 1) = (IF k = 2 * j THEN j ELSE j + 1)
                         /\ PartAt(k) = j + 1
  BY DEF PartAt

\* A step that only moves files of u, with Restored(u) unchanged.
Shifts(u) ==
  /\ \A v \in Ids : v # u => upd'[v] = upd[v] /\ backups'[v] = backups[v]
  /\ upd'[u].installer = upd[u].installer
  /\ disturbed' = disturbed
  /\ Restored(u)' = Restored(u)

\* Such a step keeps what is said of the files.
LEMMA ShiftsKeeps ==
  ASSUME Core, Files, NEW u \in Ids, MovesParts(u), Shifts(u),
         \A p \in Parts : /\ installed'[p] \in {u, Missing, installed[p], backups[u][p]}
                          /\ backups'[u][p] \in {Missing, installed[p], backups[u][p]},
         \A p \in Parts :
           /\ p <= upd'[u].step \div 2 => installed'[p] = u
           /\ upd'[u].step = 2 * p - 1 => installed'[p] = Missing
           /\ 2 * p > upd'[u].step + 1 => backups'[u][p] = Missing
  PROVE  Files'
<1>1. /\ \A v \in Ids : v # u => upd'[v] = upd[v] /\ backups'[v] = backups[v]
      /\ upd'[u].installer = upd[u].installer
      /\ disturbed' = disturbed
      /\ Restored(u)' = Restored(u)
  BY DEF Shifts
<1>2. /\ \A v \in Ids : MovesParts(v) => v = u
      /\ \A v \in Ids : MovesParts(v)' => v = u
      /\ MovesParts(u)'
  BY <1>1, OneMoves DEF Core, MovesParts, Held, Clear
<1>3. Unmoved'
  <2> SUFFICES ASSUME NEW v \in Ids, upd'[v].installer \in BeforeTheMoves
               PROVE  /\ upd'[v].step = 0 /\ backups'[v] = Empty
                      /\ \A p \in Parts : installed'[p] # v /\ \A w \in Ids : backups'[w][p] # v
    BY DEF Unmoved, Empty
  <2>1. v # u
    BY <1>1 DEF MovesParts, Moving, BeforeTheMoves
  <2>2. /\ upd[v].installer \in BeforeTheMoves
        /\ upd[v].step = 0 /\ backups[v] = Empty
        /\ \A p \in Parts : installed[p] # v /\ \A w \in Ids : backups[w][p] # v
    BY <2>1, <1>1 DEF Files, Unmoved
  <2>3. v # Missing
    BY SentinelsAreFresh DEF Versions, Ids
  <2>4. \A p \in Parts : installed'[p] # v
    BY <2>1, <2>2, <2>3
  <2>5. \A p \in Parts, w \in Ids : backups'[w][p] # v
    BY <1>1, <2>1, <2>2, <2>3
  <2> QED
    BY <1>1, <2>1, <2>2, <2>4, <2>5
<1>4. HalfMoved'
  BY <1>1, <1>2 DEF HalfMoved, Files
<1>5. Safe'
  BY <1>1, <1>2 DEF Safe, Files, Quiet, Stands
<1>6. NewIsWhole'
  BY <1>1, <1>2 DEF NewIsWhole, Files, Quiet, Fresh
<1> QED
  BY <1>3, <1>4, <1>5, <1>6 DEF Files

\* Moving a part out or in keeps what is said of the files.
LEMMA MovePartKeeps ==
  ASSUME Core, Files, NEW u \in Ids, MovePart(u)
  PROVE  Files' /\ upd' \in [Ids -> Updates] /\ installed' \in Installs /\ backups' \in [Ids -> Installs]
<1> DEFINE k == upd[u].step
<1>1. /\ upd \in [Ids -> Updates] /\ installed \in Installs /\ backups \in [Ids -> Installs]
      /\ k \in 0..7 /\ MovesParts(u)
  BY DEF Core, TypeOK, Updates, MovePart, MovesParts, Moving
<1>2. /\ upd' \in [Ids -> Updates]
      /\ \A v \in Ids : v # u => upd'[v] = upd[v]
      /\ upd'[u].installer = upd[u].installer /\ upd'[u].step = k + 1
      /\ disturbed' = disturbed
  BY <1>1 DEF MovePart, Updates, NoEvent
<1>3. PICK j \in 0..4 : /\ k = 2 * j \/ k = 2 * j + 1
                        /\ k \div 2 = j /\ (k % 2 = 0 <=> k = 2 * j)
                        /\ (k + 1) \div 2 = (IF k = 2 * j THEN j ELSE j + 1)
                        /\ PartAt(k) = j + 1
  BY <1>1, HalvesAreNumbers
<1>4. j \in 0..3 /\ j + 1 \in Parts
  BY <1>1, <1>3 DEF Parts
<1>5. /\ \A p \in Parts : p <= j => installed[p] = u
      /\ k = 2 * j + 1 => installed[j + 1] = Missing
      /\ \A p \in Parts : 2 * p > k + 1 => backups[u][p] = Missing
  <2>1. \A p \in Parts : /\ p <= k \div 2 => installed[p] = u
                         /\ k = 2 * p - 1 => installed[p] = Missing
                         /\ 2 * p > k + 1 => backups[u][p] = Missing
    BY <1>1 DEF Files, HalfMoved
  <2> HIDE DEF k
  <2>2. k = 2 * j + 1 => k = 2 * (j + 1) - 1
    BY <1>4
  <2> QED
    BY <1>3, <1>4, <2>1, <2>2
<1>6. u \in Versions
  BY DEF Ids, Versions
<1>7. CASE k = 2 * j
  <2>1. /\ backups' = [backups EXCEPT ![u][j + 1] = installed[j + 1]]
        /\ installed' = [installed EXCEPT ![j + 1] = Missing]
    BY <1>3, <1>7 DEF MovePart
  <2>2. /\ \A v \in Ids : v # u => backups'[v] = backups[v]
        /\ \A p \in Parts : p # j + 1 => installed'[p] = installed[p] /\ backups'[u][p] = backups[u][p]
        /\ installed'[j + 1] = Missing /\ backups'[u][j + 1] = installed[j + 1]
        /\ installed' \in Installs /\ backups' \in [Ids -> Installs]
    BY <2>1, <1>1, <1>4 DEF Installs
  <2>3. (upd'[u].step + 1) \div 2 = j + 1 /\ upd'[u].step \div 2 = j
    BY <1>2, <1>4, <1>7
  <2>4. Restored(u)' = Restored(u)
    BY <2>2, <2>3, <1>3, <1>4, <1>7 DEF Restored, Parts
  <2>5. Shifts(u)
    BY <1>2, <2>2, <2>4 DEF Shifts
  <2>6. \A p \in Parts : /\ installed'[p] \in {u, Missing, installed[p], backups[u][p]}
                         /\ backups'[u][p] \in {Missing, installed[p], backups[u][p]}
    BY <2>2
  <2>7. \A p \in Parts :
           /\ p <= upd'[u].step \div 2 => installed'[p] = u
           /\ upd'[u].step = 2 * p - 1 => installed'[p] = Missing
           /\ 2 * p > upd'[u].step + 1 => backups'[u][p] = Missing
    BY <2>2, <2>3, <1>2, <1>4, <1>5, <1>7 DEF Parts
  <2> QED
    BY <1>1, <1>2, <2>2, <2>5, <2>6, <2>7, ShiftsKeeps
<1>8. CASE k = 2 * j + 1
  <2>1. /\ backups' = backups
        /\ installed' = [installed EXCEPT ![j + 1] = u]
    BY <1>3, <1>8 DEF MovePart
  <2>2. /\ \A p \in Parts : p # j + 1 => installed'[p] = installed[p]
        /\ installed'[j + 1] = u
        /\ installed' \in Installs /\ backups' \in [Ids -> Installs]
    BY <2>1, <1>1, <1>4, <1>6 DEF Installs
  <2>3. (upd'[u].step + 1) \div 2 = j + 1 /\ upd'[u].step \div 2 = j + 1
    BY <1>2, <1>4, <1>8
  <2>4. Restored(u)' = Restored(u)
    BY <2>1, <2>2, <2>3, <1>3, <1>4, <1>8 DEF Restored, Parts
  <2>5. Shifts(u)
    BY <1>2, <2>1, <2>4 DEF Shifts
  <2>6. \A p \in Parts : /\ installed'[p] \in {u, Missing, installed[p], backups[u][p]}
                         /\ backups'[u][p] \in {Missing, installed[p], backups[u][p]}
    BY <2>1, <2>2
  <2>7. \A p \in Parts :
           /\ p <= upd'[u].step \div 2 => installed'[p] = u
           /\ upd'[u].step = 2 * p - 1 => installed'[p] = Missing
           /\ 2 * p > upd'[u].step + 1 => backups'[u][p] = Missing
    BY <2>1, <2>2, <2>3, <1>2, <1>4, <1>5, <1>8 DEF Parts
  <2> QED
    BY <1>1, <1>2, <2>2, <2>5, <2>6, <2>7, ShiftsKeeps
<1> QED
  BY <1>3, <1>7, <1>8

\* Taking a move back keeps what is said of the files.
LEMMA RollBackKeeps ==
  ASSUME Core, Files, NEW u \in Ids, RollBack(u)
  PROVE  Files' /\ upd' \in [Ids -> Updates] /\ installed' \in Installs /\ backups' \in [Ids -> Installs]
<1> DEFINE k == upd[u].step
<1>1. /\ upd \in [Ids -> Updates] /\ installed \in Installs /\ backups \in [Ids -> Installs]
      /\ k \in 1..8 /\ MovesParts(u)
  BY DEF Core, TypeOK, Updates, RollBack, MovesParts, Moving
<1>2. PICK j \in 0..4 : /\ k = 2 * j \/ k = 2 * j + 1
                        /\ k \div 2 = j /\ (k % 2 = 0 <=> k = 2 * j)
                        /\ (k + 1) \div 2 = (IF k = 2 * j THEN j ELSE j + 1)
                        /\ PartAt(k - 1) = (IF k = 2 * j THEN j ELSE j + 1)
  BY <1>1, HalvesAreNumbers
<1> DEFINE i == PartAt(k - 1)
<1>3. /\ i \in Parts /\ (k + 1) \div 2 = i
      /\ (IF k % 2 = 0 THEN k - 2 ELSE k - 1) = 2 * (i - 1)
  <2>1. CASE k = 2 * j
    <3>1. i = j /\ k % 2 = 0 /\ (k + 1) \div 2 = j
      BY <1>2, <2>1
    <3> HIDE DEF i, k
    <3> QED
      BY <1>1, <2>1, <3>1 DEF Parts
  <2>2. CASE k = 2 * j + 1
    <3>1. i = j + 1 /\ k % 2 # 0 /\ (k + 1) \div 2 = j + 1
      BY <1>2, <2>2
    <3> HIDE DEF i, k
    <3> QED
      BY <1>1, <2>2, <3>1 DEF Parts
  <2> QED
    BY <1>2, <2>1, <2>2
<1>4. /\ installed' = [installed EXCEPT ![i] = backups[u][i]]
      /\ backups' = [backups EXCEPT ![u][i] = Missing]
      /\ upd' = [upd EXCEPT ![u].step = IF k % 2 = 0 THEN k - 2 ELSE k - 1]
      /\ disturbed' = disturbed
  BY DEF RollBack, NoEvent
<1> HIDE DEF i
<1>5. /\ upd' \in [Ids -> Updates]
      /\ \A v \in Ids : v # u => upd'[v] = upd[v]
      /\ upd'[u].installer = upd[u].installer /\ upd'[u].step = 2 * (i - 1)
  <2>1. 2 * (i - 1) \in 0..8
    BY <1>3 DEF Parts
  <2>2. upd' = [upd EXCEPT ![u].step = 2 * (i - 1)]
    BY <1>3, <1>4
  <2> QED
    BY <1>1, <2>1, <2>2 DEF Updates
<1>6. /\ \A p \in Parts : 2 * p > k + 1 => backups[u][p] = Missing
      /\ \A p \in Parts : p < i => installed[p] = u
  BY <1>1, <1>2, <1>3 DEF Files, HalfMoved, Parts
<1>7. /\ \A v \in Ids : v # u => backups'[v] = backups[v]
      /\ \A p \in Parts : p # i => installed'[p] = installed[p] /\ backups'[u][p] = backups[u][p]
      /\ installed'[i] = backups[u][i] /\ backups'[u][i] = Missing
      /\ installed' \in Installs /\ backups' \in [Ids -> Installs]
  BY <1>1, <1>3, <1>4 DEF Installs
<1>8. (upd'[u].step + 1) \div 2 = i - 1 /\ upd'[u].step \div 2 = i - 1
  BY <1>3, <1>5 DEF Parts
<1>9. Restored(u)' = Restored(u)
  BY <1>3, <1>7, <1>8 DEF Restored, Parts
<1>10. Shifts(u)
  BY <1>4, <1>5, <1>7, <1>9 DEF Shifts
<1>11. \A p \in Parts : /\ installed'[p] \in {u, Missing, installed[p], backups[u][p]}
                        /\ backups'[u][p] \in {Missing, installed[p], backups[u][p]}
  BY <1>7
<1>12. \A p \in Parts :
           /\ p <= upd'[u].step \div 2 => installed'[p] = u
           /\ upd'[u].step = 2 * p - 1 => installed'[p] = Missing
           /\ 2 * p > upd'[u].step + 1 => backups'[u][p] = Missing
  BY <1>1, <1>2, <1>3, <1>5, <1>6, <1>7, <1>8 DEF Parts
<1> QED
  BY <1>1, <1>5, <1>7, <1>10, <1>11, <1>12, ShiftsKeeps

\* A whole backup is not an empty one.
LEMMA WholeIsSomething ==
  ASSUME NEW v \in Ids, backups[v] \in Whole
  PROVE  backups[v] # Empty
<1>1. Program \in Parts /\ Program \notin {Helper, Script} /\ Empty[Program] = Missing
  BY DEF Program, Helper, Script, Parts, Empty
<1>2. Older[Program] \in Versions /\ \A w \in Versions : WholeOf(w)[Program] \in Versions
  BY <1>1, BoundsAreNat DEF Older, WholeOf, Versions
<1> QED
  BY <1>1, <1>2, SentinelsAreFresh DEF Whole

\* After the last move the package is in place as a whole.
LEMMA EndMovesKeeps ==
  ASSUME Core, Files, NEW u \in Ids, EndMoves(u)
  PROVE  Files'
<1>1. /\ TypeOK /\ InOrder /\ LockIsHeld /\ Unmoved /\ HalfMoved /\ Safe /\ NewIsWhole
      /\ MovesParts(u) /\ upd[u].step = 8
  BY DEF Core, Files, EndMoves, MovesParts, Moving
<1>2. /\ \A v \in Ids : v # u => upd'[v] = upd[v]
      /\ upd'[u].installer = "installed" /\ upd'[u].step = 8
      /\ installed' = installed /\ backups' = backups /\ disturbed' = disturbed
  BY <1>1 DEF EndMoves, NoEvent, fileVars, TypeOK, Updates
<1>3. /\ \A v \in Ids : MovesParts(v) => v = u
      /\ \A v \in Ids : ~MovesParts(v)'
  BY <1>1, <1>2, OneMoves DEF MovesParts, Held, Clear, Moving
<1>4. \A p \in Parts : installed[p] = u
  BY <1>1 DEF HalfMoved, Parts
<1>5. installed = WholeOf(u) /\ Restored(u) = backups[u]
  <2>1. installed = [p \in Parts |-> installed[p]] /\ backups[u] = [p \in Parts |-> backups[u][p]]
    BY <1>1 DEF TypeOK, Installs
  <2>2. \A p \in Parts : p <= (8 + 1) \div 2
    BY DEF Parts
  <2> QED
    BY <1>1, <1>4, <2>1, <2>2 DEF WholeOf, Restored
<1>6. Program \in Parts /\ u \in Versions
  BY DEF Program, Parts, Versions, Ids
<1>7. Unmoved'
  BY <1>1, <1>2 DEF Unmoved, BeforeTheMoves
<1>8. HalfMoved'
  BY <1>3 DEF HalfMoved
<1>9. Safe'
  <2>1. \A v \in Ids : backups[v] # Empty => v <= u
    <3>1. lock # NoLock /\ lock.id = u
      BY <1>1, SentinelsAreFresh DEF LockIsHeld, MovesParts, Held, Clear, Locks, Phases, Kind
    <3>2. \A v \in Ids : v > u => backups[v] = Empty
      BY <1>1, <3>1 DEF InOrder, Unmoved, NoUpdate, BeforeTheMoves, Unused
    <3> QED
      BY <3>2 DEF Ids
  <2>2. "torn" \notin disturbed => backups[u] \in Whole
    BY <1>1, <1>5 DEF Safe, Stands
  <2>3. "torn" \notin disturbed => Stands(installed, Ids)
    BY <1>5, <1>6, <2>1, <2>2 DEF Stands, WholeOf, Whole
  <2> QED
    BY <1>2, <1>3, <2>3 DEF Safe, Quiet, Stands
<1>10. NewIsWhole'
  <2>1. Fresh(installed)'
    BY <1>2, <1>5, <1>6 DEF Fresh, WholeOf
  <2> QED
    BY <1>3, <2>1 DEF NewIsWhole
<1> QED
  BY <1>7, <1>8, <1>9, <1>10 DEF Files

\* The moves of u end where they stand: nothing is moved, or it is known to
\* be torn.
LEMMA StopKeeps ==
  ASSUME Core, Files, NEW u \in Ids, MovesParts(u), UNCHANGED fileVars,
         NEW s \in InstallerSteps, Installer(u, s), s \notin BeforeTheMoves \union Moving \union InPlace,
         disturbed \subseteq disturbed',
         upd[u].step = 0 \/ "torn" \in disturbed'
  PROVE  Files'
<1>1. /\ TypeOK /\ LockIsHeld /\ Unmoved /\ HalfMoved /\ Safe /\ NewIsWhole
  BY DEF Core, Files
<1>2. /\ \A v \in Ids : v # u => upd'[v] = upd[v]
      /\ upd'[u].installer = s /\ upd'[u].step = upd[u].step
      /\ installed' = installed /\ backups' = backups
      /\ upd[u].step \in 0..8
  BY <1>1, InstallerIs DEF fileVars, TypeOK, Updates
<1>3. /\ \A v \in Ids : MovesParts(v) => v = u
      /\ \A v \in Ids : ~MovesParts(v)'
  BY <1>1, <1>2, OneMoves DEF MovesParts, Held, Clear, Moving
<1>4. upd[u].step = 0 => Restored(u) = installed /\ backups[u] = Empty /\ \A p \in Parts : installed[p] # u
  <2>1. \A p \in Parts : ~(p <= (0 + 1) \div 2) /\ 2 * p > 0 + 1
    BY DEF Parts
  <2>2. installed = [p \in Parts |-> installed[p]] /\ backups[u] = [p \in Parts |-> backups[u][p]]
    BY <1>1 DEF TypeOK, Installs
  <2>3. upd[u].step = 0 => Restored(u) = installed
    BY <2>1, <2>2 DEF Restored
  <2>4. upd[u].step = 0 => \A p \in Parts : backups[u][p] = Missing
    BY <1>1, <2>1 DEF HalfMoved
  <2> QED
    BY <1>1, <2>2, <2>3, <2>4 DEF HalfMoved, Empty
<1>5. upd[u].step # 0 => installed[Program] \in {u, Missing}
  <2>1. upd[u].step \in 2..8 => 1 <= upd[u].step \div 2
    OBVIOUS
  <2>2. upd[u].step \in 2..8 => installed[Program] = u
    BY <1>1, <2>1 DEF HalfMoved, Program, Parts
  <2>3. upd[u].step = 1 => installed[Program] = Missing
    BY <1>1 DEF HalfMoved, Program, Parts
  <2> QED
    BY <1>2, <2>2, <2>3
<1>6. Unmoved'
  BY <1>1, <1>2 DEF Unmoved
<1>7. HalfMoved'
  BY <1>3 DEF HalfMoved
<1>8. Safe'
  <2>1. "torn" \notin disturbed' => Stands(installed, Ids)
    BY <1>1, <1>4 DEF Safe, Stands, Program, Parts
  <2> QED
    BY <1>2, <1>3, <2>1 DEF Safe, Stands
<1>9. NewIsWhole'
  <2> SUFFICES ASSUME NEW v \in Ids, upd'[v].installer \in InPlace, installed[Program] = v
               PROVE  installed = WholeOf(v)
    BY <1>2, <1>3 DEF NewIsWhole, Fresh
  <2>1. v # u /\ v # Missing
    BY <1>2, SentinelsAreFresh DEF Versions, Ids
  <2>2. upd[u].step = 0
    BY <1>5, <2>1
  <2> QED
    BY <1>1, <1>2, <1>4, <2>1, <2>2 DEF NewIsWhole, Fresh
<1> QED
  BY <1>6, <1>7, <1>8, <1>9 DEF Files

\* Pruning spares the backup of the installation that stands.
LEMMA PruneKeeps ==
  ASSUME Core, Files, Quiet, backups' \in {backups, Pruned}, installed' = installed, disturbed' = disturbed,
         \A v \in Ids : Onward(upd[v].installer, upd'[v].installer) /\ upd'[v].step = upd[v].step
  PROVE  Files' /\ backups' \in [Ids -> Installs]
<1>1. /\ TypeOK /\ Unmoved /\ HalfMoved /\ Safe /\ NewIsWhole
      /\ backups \in [Ids -> Installs]
  BY DEF Core, Files, TypeOK
<1>2. /\ \A v \in Ids : upd'[v].installer \in BeforeTheMoves => upd[v].installer \in BeforeTheMoves
      /\ \A v \in Ids : upd'[v].installer \in InPlace => upd[v].installer \in InPlace
      /\ \A v \in Ids : upd'[v].step = upd[v].step
      /\ \A v \in Ids : ~MovesParts(v) /\ ~MovesParts(v)'
  BY DEF Quiet, Onward, MovesParts
<1>3. /\ backups' \in [Ids -> Installs]
      /\ \A v \in Ids : backups'[v] \in {backups[v], Empty}
      /\ \A v \in Ids : Newest(v) => backups'[v] = backups[v]
  BY <1>1 DEF Pruned, Empty, Installs
<1>4. Unmoved'
  <2>1. \A v \in Ids, p \in Parts : v # Empty[p]
    BY SentinelsAreFresh DEF Empty, Versions, Ids
  <2> QED
    BY <1>1, <1>2, <1>3, <2>1 DEF Unmoved
<1>5. HalfMoved'
  BY <1>2 DEF HalfMoved
<1>6. Safe'
  <2> SUFFICES ASSUME "torn" \notin disturbed
               PROVE  Stands(installed, Ids)'
    BY <1>2 DEF Safe
  <2>1. Stands(installed, Ids)
    BY <1>1, <1>2 DEF Safe
  <2>2. \A v \in Ids : backups'[v] # Empty => v <= installed[Program]
    BY <1>3, <2>1 DEF Stands
  <2>3. ASSUME NEW v \in Ids, installed[Program] = v
        PROVE  backups'[v] \in Whole
    <3>1. backups[v] \in Whole /\ backups[v] # Empty
      BY <2>1, <2>3, WholeIsSomething DEF Stands
    <3>2. \A w \in Ids : w \in Groups => backups[w] # Empty
      BY DEF Groups, Empty
    <3>3. v \in Groups
      <4>1. backups[v] = [p \in Parts |-> backups[v][p]]
        BY <1>1 DEF Installs
      <4> QED
        BY <3>1, <4>1 DEF Groups, Empty
    <3>4. Newest(v)
      BY <2>1, <2>3, <3>2, <3>3 DEF Newest, Stands, Groups
    <3> QED
      BY <1>3, <3>1, <3>4
  <2> QED
    BY <2>1, <2>2, <2>3 DEF Stands
<1>7. NewIsWhole'
  BY <1>1, <1>2 DEF NewIsWhole, Fresh
<1> QED
  BY <1>3, <1>4, <1>5, <1>6, <1>7 DEF Files

(***************************************************************************)
(* The steps in general.                                                   *)
(***************************************************************************)

\* What is left alone or only counted.
Records ==
  /\ disturbed \subseteq disturbed' /\ disturbed' \subseteq Disturbances
  /\ events' \in 0..MaxEvents

\* An event records itself.
LEMMA EventRecords ==
  ASSUME TypeOK, NEW w \in SUBSET Disturbances, Event(w)
  PROVE  Records
  BY EventIs DEF Records

\* Anything else records nothing.
LEMMA NoEventRecords ==
  ASSUME TypeOK, NoEvent
  PROVE  Records
  BY NoEventIs DEF Records

\* A step of prepare() that leaves the lock alone keeps core and files.
LEMMA PrepareStepKeeps ==
  ASSUME Core, Files, NEW u \in Ids, NEW s \in PrepareSteps \ {"none"}, Prepares(u, s),
         s \in Preparing => upd[u].prepare \in Preparing,
         s = "releasing" => ~InstallerAlive(u),
         UNCHANGED <<loser, fileVars>>, Records
  PROVE  Core' /\ Files'
<1>1. TypeOK /\ upd[u].by \in Consoles
  BY PreparerIsOfConsole DEF Core, Prepares
<1>2. /\ upd' \in [Ids -> Updates]
      /\ (InOrder /\ Reported /\ Roles /\ LockIsHeld /\ NobodyServes)'
  BY PreparesKeeps
<1>3. TypeOK'
  BY <1>1, <1>2, TellsIs DEF TypeOK, Prepares, Records, fileVars
<1>4. Calm
  <2>1. /\ \A v \in Ids : v # u => upd'[v] = upd[v]
        /\ upd'[u].installer = upd[u].installer /\ upd'[u].step = upd[u].step
    BY <1>1, PrepareIs DEF Prepares
  <2> QED
    BY <2>1 DEF Calm, Onward, Records
<1> QED
  BY <1>2, <1>3, <1>4, CalmKeeps DEF Core

\* The installer of u goes on to s without moving files.
Runs(u, s) ==
  /\ Installer(u, s)
  /\ InstallerAlive(u)
  /\ console' \in [Consoles -> ConsoleStates]
  /\ \A c \in Consoles : console'[c] \in Serving => console[c] \in Serving /\ console'[c] = console[c]
  /\ \A c \in Consoles : console[c] \in Serving => console'[c] = console[c]
  /\ UNCHANGED <<progress, fresh>> \/ (upd[u].by \in Consoles /\ Tells(u))
  /\ UNCHANGED loser
  /\ Records

\* Such a step keeps the core.
LEMMA RunsKeeps ==
  ASSUME Core, NEW u \in Ids, NEW s \in InstallerSteps \ {"none"}, Runs(u, s), Gives(u, s),
         s \in Clear => upd[u].installer \in Clear \/ \A c \in Consoles : console[c] \notin Serving,
         s \in OfHelper => upd[u].by # Manual,
         s \in {"launching", "health"} =>
           upd[u].installer \in {"launching", "health"} \/ fresh'[upd[u].by] = TRUE,
         installed' \in Installs, backups' \in [Ids -> Installs]
  PROVE  Core'
<1>1. TypeOK
  BY DEF Core
<1>2. Proceeds(u, s)
  BY <1>1, InstallerIs DEF Runs, Proceeds
<1>3. (InOrder /\ Reported /\ Roles /\ LockIsHeld /\ NobodyServes)'
  BY <1>2, ProceedsKeeps
<1>4. lock' \in Locks \union {NoLock}
  BY <1>1 DEF Gives, TypeOK, Locks, Phases
<1>5. progress' \in [Consoles -> [state : ProgressStates, id : 0..MaxUpdates]] /\ fresh' \in [Consoles -> BOOLEAN]
  BY <1>1, TellsIs DEF Runs, TypeOK
<1>6. TypeOK'
  BY <1>1, <1>2, <1>4, <1>5 DEF TypeOK, Runs, Records, Proceeds
<1> QED
  BY <1>3, <1>6 DEF Core

\* Such a step keeps what is said of the files.
LEMMA RunsCalmly ==
  ASSUME Core, Files, NEW u \in Ids, NEW s \in InstallerSteps, Runs(u, s), Onward(upd[u].installer, s), UNCHANGED fileVars
  PROVE  Files'
<1>1. /\ \A v \in Ids : v # u => upd'[v] = upd[v]
      /\ upd'[u].installer = s /\ upd'[u].step = upd[u].step
  BY InstallerIs DEF Core, Runs
<1>2. Calm
  BY <1>1 DEF Calm, Onward, Runs, Records
<1> QED
  BY <1>2, CalmKeeps

\* A report to the console of the update is what Tells allows.
LEMMA TellsDuringPreparation ==
  ASSUME Core, NEW u \in Ids, NEW s \in ProgressStates, Publish(upd[u].by, s, u)
  PROVE  Tells(u)
  BY DEF Tells

(***************************************************************************)
(* prepare().                                                              *)
(***************************************************************************)
LEMMA LookForOthersKeeps ==
  ASSUME Core, Files, NEW u \in Ids, LookForOthers(u)
  PROVE  Core' /\ Files'
<1>1. Records /\ TypeOK
  BY NoEventRecords DEF LookForOthers, Core
<1>2. PICK s \in {"failing", "alone"} : Prepares(u, s)
  BY DEF LookForOthers, Prepares, Tells, ProgressStates
<1> QED
  BY <1>1, <1>2, PrepareStepKeeps DEF LookForOthers, Preparing, PrepareSteps

\* Stage keeps core and files of the invariant.
LEMMA StageKeepsCore ==
  ASSUME Core, Files, NEW u \in Ids, NEW from \in Preparing, NEW to \in Preparing, Stage(u, from, to)
  PROVE  Core' /\ Files'
<1>1. Records /\ TypeOK
  BY EventRecords, NoEventRecords DEF Stage, Core
<1>2. PICK s \in {"failing", to} : Prepares(u, s)
  BY DEF Stage, Prepares, Tells, ProgressStates, Preparing
<1> QED
  BY <1>1, <1>2, PrepareStepKeeps DEF Stage, Preparing, PrepareSteps

\* StartHelper keeps core and files of the invariant.
LEMMA StartHelperKeeps ==
  ASSUME Core, Files, NEW u \in Ids, StartHelper(u)
  PROVE  Core' /\ Files'
<1>1. Records /\ TypeOK
  BY DEF StartHelper, Core, TypeOK, Records, Disturbances
<1>2. CASE Prepare(u, "failing") /\ UNCHANGED <<progress, fresh>>
  <2>1. Prepares(u, "failing")
    BY <1>2 DEF StartHelper, Prepares, Tells
  <2> QED
    BY <1>1, <2>1, PrepareStepKeeps DEF StartHelper, Preparing, PrepareSteps
<1>3. CASE /\ upd' = [upd EXCEPT ![u].prepare = "handing", ![u].installer = "new"]
           /\ Publish(upd[u].by, "preparing", u)
  <2>1. /\ InOrder /\ Reported /\ Roles /\ LockIsHeld /\ NobodyServes
        /\ upd[u].by \in Consoles /\ upd[u].hosted /\ console[upd[u].by] \in Serving
        /\ upd[u].installer = "none" /\ u # 0
    BY PreparerIsOfConsole DEF Core, Roles, StartHelper, Preparing, Ids
  <2>2. /\ upd' \in [Ids -> Updates]
        /\ \A v \in Ids : v # u => upd'[v] = upd[v]
        /\ upd'[u].by = upd[u].by /\ upd'[u].hosted = upd[u].hosted
        /\ upd'[u].prepare = "handing" /\ upd'[u].installer = "new"
        /\ upd'[u].step = upd[u].step
    BY <1>1, <1>3 DEF TypeOK, Updates, PrepareSteps, InstallerSteps
  <2>3. Tells(u)
    BY <1>3 DEF Tells, ProgressStates
  <2>4. TypeOK'
    BY <1>1, <2>1, <2>2, <2>3, TellsIs DEF TypeOK, Records, StartHelper, fileVars
  <2>5. InOrder'
    BY <1>1, <2>1, <2>2, SentinelsAreFresh DEF InOrder, StartHelper, Unused, TypeOK, Locks
  <2>6. Reported'
    <3> SUFFICES ASSUME NEW d \in Consoles
                 PROVE  /\ progress'[d].id # 0 => upd'[progress'[d].id].by = d
                        /\ progress'[d].state \in Active => progress'[d].id # 0
                        /\ progress'[d].state \in Active
                           /\ upd'[progress'[d].id].installer \in {"launching", "health"} => fresh'[d]
      BY DEF Reported
    <3>1. progress[d].id \in 0..MaxUpdates /\ progress[d].id # 0 => progress[d].id \in Ids
      BY BoundsAreNat DEF Ids
    <3>2. progress[d].id \in 0..MaxUpdates
      BY <1>1 DEF TypeOK
    <3>3. \/ progress'[d] = progress[d] /\ fresh'[d] = fresh[d]
          \/ d = upd[u].by /\ progress'[d].id = u /\ fresh'[d] = TRUE
      BY <1>1, <2>1, <2>3, TellsIs
    <3>4. \A v \in Ids : upd'[v].by = upd[v].by /\ (upd'[v].installer \in {"launching", "health"} => upd[v].installer \in {"launching", "health"})
      BY <2>1, <2>2
    <3>5. CASE progress'[d] = progress[d] /\ fresh'[d] = fresh[d]
      BY <2>1, <3>1, <3>2, <3>4, <3>5 DEF Reported
    <3>6. CASE d = upd[u].by /\ progress'[d].id = u /\ fresh'[d] = TRUE
      BY <2>1, <2>2, <3>6
    <3> QED
      BY <3>3, <3>5, <3>6
  <2>7. Roles'
    BY <2>1, <2>2, SentinelsAreFresh DEF Roles, StartHelper, Preparing, InstallerAlive
  <2>8. LockIsHeld' /\ NobodyServes'
    BY <2>1, <2>2 DEF LockIsHeld, NobodyServes, Kind, StartHelper, Held, Clear, Moving
  <2>9. Calm
    BY <1>1, <2>1, <2>2 DEF Calm, Onward, Records, StartHelper, BeforeTheMoves, Moving, InPlace
  <2> QED
    BY <2>4, <2>5, <2>6, <2>7, <2>8, <2>9, CalmKeeps DEF Core
<1> QED
  BY <1>2, <1>3 DEF StartHelper

\* SeeHandoff keeps core and files of the invariant.
LEMMA SeeHandoffKeeps ==
  ASSUME Core, Files, NEW u \in Ids, SeeHandoff(u)
  PROVE  Core' /\ Files'
<1>1. Records /\ TypeOK
  BY NoEventRecords DEF SeeHandoff, Core
<1>2. Prepares(u, "handed")
  BY DEF SeeHandoff, Prepares, Tells, ProgressStates
<1> QED
  BY <1>1, <1>2, PrepareStepKeeps DEF SeeHandoff, Preparing, PrepareSteps

\* MissHandoff keeps core and files of the invariant.
LEMMA MissHandoffKeeps ==
  ASSUME Core, Files, NEW u \in Ids, MissHandoff(u)
  PROVE  Core' /\ Files'
<1>1. Records /\ TypeOK
  BY EventRecords, NoEventRecords DEF MissHandoff, Core
<1>2. Prepares(u, "failing") /\ UNCHANGED <<loser, fileVars>>
  BY DEF MissHandoff, Prepares, Tells, progressVars
<1> QED
  BY <1>1, <1>2, PrepareStepKeeps DEF Preparing, PrepareSteps

\* ReportFailure keeps core and files of the invariant.
LEMMA ReportFailureKeeps ==
  ASSUME Core, Files, NEW u \in Ids, ReportFailure(u)
  PROVE  Core' /\ Files'
<1>1. Records /\ TypeOK
  BY NoEventRecords DEF ReportFailure, Core
<1>2. Prepares(u, "killing")
  BY DEF ReportFailure, Prepares, Tells, ProgressStates
<1> QED
  BY <1>1, <1>2, PrepareStepKeeps DEF ReportFailure, Preparing, PrepareSteps

\* ScheduleShutdown keeps core and files of the invariant.
LEMMA ScheduleShutdownKeeps ==
  ASSUME Core, Files, NEW u \in Ids, ScheduleShutdown(u)
  PROVE  Core' /\ Files'
<1>1. Records /\ TypeOK
  BY EventRecords, NoEventRecords DEF ScheduleShutdown, Core
<1>2. CASE console' = console
  <2>1. Prepares(u, "done") /\ UNCHANGED <<loser, fileVars>>
    BY <1>2 DEF ScheduleShutdown, Prepares, Tells, progressVars
  <2> QED
    BY <1>1, <2>1, PrepareStepKeeps DEF Preparing, PrepareSteps
<1>3. ASSUME NEW how \in {"held", "leaving"}, console' = [console EXCEPT ![upd[u].by] = how]
      PROVE  Core' /\ Files'
  <2>1. /\ InOrder /\ Reported /\ Roles /\ LockIsHeld /\ NobodyServes
        /\ upd[u].by \in Consoles /\ upd[u].hosted /\ console[upd[u].by] \in Serving
    BY PreparerIsOfConsole DEF Core, ScheduleShutdown
  <2>2. /\ upd' \in [Ids -> Updates]
        /\ \A v \in Ids : v # u => upd'[v] = upd[v]
        /\ upd'[u].by = upd[u].by /\ upd'[u].hosted = upd[u].hosted
        /\ upd'[u].prepare = "done" /\ upd'[u].installer = upd[u].installer
        /\ upd'[u].step = upd[u].step
    BY <1>1, PrepareIs DEF ScheduleShutdown, PrepareSteps
  <2>3. /\ console' \in [Consoles -> ConsoleStates]
        /\ \A c \in Consoles : console'[c] \in Serving <=> console[c] \in Serving
    BY <1>1, <1>3, <2>1 DEF TypeOK, ConsoleStates, Serving
  <2>4. TypeOK'
    BY <1>1, <2>2, <2>3 DEF TypeOK, Records, ScheduleShutdown, fileVars, progressVars
  <2>5. InOrder'
    <3>1. \A v \in Ids : Unused(v) => v # u
      BY <2>1, SentinelsAreFresh DEF Unused
    <3>2. \A v \in Ids : (Unused(v)' <=> Unused(v)) /\ (Unused(v) => upd'[v] = upd[v])
      BY <2>2, <3>1 DEF Unused
    <3>3. lock' = lock /\ (lock # NoLock => lock.id \in Ids)
      BY <1>1 DEF ScheduleShutdown, TypeOK, Locks
    <3> QED
      BY <2>1, <3>2, <3>3 DEF InOrder
  <2>6. Reported'
    <3>1. \A v \in Ids : upd'[v].by = upd[v].by /\ upd'[v].installer = upd[v].installer
      BY <2>2
    <3>2. \A d \in Consoles : progress[d].id # 0 => progress[d].id \in Ids
      BY <1>1, BoundsAreNat DEF TypeOK, Ids
    <3>3. progress' = progress /\ fresh' = fresh
      BY DEF ScheduleShutdown, progressVars
    <3> QED
      BY <2>1, <3>1, <3>2, <3>3 DEF Reported, Active
  <2>7. Roles'
    <3>1. lock' = lock
      BY DEF ScheduleShutdown
    <3> QED
      BY <2>1, <2>2, <2>3, <3>1, SentinelsAreFresh DEF Roles, Preparing, InstallerAlive
  <2>8. LockIsHeld' /\ NobodyServes'
    BY <2>1, <2>2, <2>3 DEF LockIsHeld, NobodyServes, Kind, ScheduleShutdown
  <2>9. Calm
    BY <1>1, <2>1, <2>2 DEF Calm, Onward, Records, ScheduleShutdown
  <2> QED
    BY <2>4, <2>5, <2>6, <2>7, <2>8, <2>9, CalmKeeps DEF Core
<1> QED
  BY <1>2, <1>3 DEF ScheduleShutdown
LEMMA TerminateHelperKeeps ==
  ASSUME Core, Files, NEW u \in Ids, TerminateHelper(u)
  PROVE  Core' /\ Files'
<1>1. Records /\ TypeOK
  BY EventRecords, NoEventRecords DEF TerminateHelper, Core
<1>2. CASE Prepare(u, "done")
  <2>1. Prepares(u, "done") /\ UNCHANGED <<loser, fileVars>>
    BY <1>2 DEF TerminateHelper, Prepares, Tells, progressVars
  <2> QED
    BY <1>1, <2>1, PrepareStepKeeps DEF Preparing, PrepareSteps
<1>3. CASE upd' = [upd EXCEPT ![u].prepare = "releasing",
                              ![u].installer = IF InstallerAlive(u) THEN "dead" ELSE @]
  <2>1. /\ InOrder /\ Reported /\ Roles /\ LockIsHeld /\ NobodyServes
        /\ upd[u].by \in Consoles /\ upd[u].hosted /\ console[upd[u].by] \in Serving
        /\ upd[u].installer \notin Clear
    BY PreparerIsOfConsole DEF Core, TerminateHelper, NobodyServes
  <2>2. /\ upd' \in [Ids -> Updates]
        /\ \A v \in Ids : v # u => upd'[v] = upd[v]
        /\ upd'[u].by = upd[u].by /\ upd'[u].hosted = upd[u].hosted
        /\ upd'[u].prepare = "releasing"
        /\ upd'[u].installer = IF InstallerAlive(u) THEN "dead" ELSE upd[u].installer
        /\ upd'[u].step = upd[u].step
    BY <1>1, <1>3 DEF TypeOK, Updates, PrepareSteps, InstallerSteps
  <2>3. upd'[u].installer \in {"none", "done", "dead"} /\ (upd'[u].installer = upd[u].installer \/ upd'[u].installer = "dead")
    BY <2>2 DEF InstallerAlive
  <2>4. lock' = lock /\ console' = console /\ progress' = progress /\ fresh' = fresh /\ loser' = loser
    BY DEF TerminateHelper, progressVars
  <2>5. TypeOK'
    BY <1>1, <2>2, <2>4 DEF TypeOK, Records, TerminateHelper, fileVars
  <2>6. InOrder'
    <3>1. \A v \in Ids : Unused(v) => v # u
      BY <2>1, SentinelsAreFresh DEF Unused
    <3>2. \A v \in Ids : (Unused(v)' <=> Unused(v)) /\ (Unused(v) => upd'[v] = upd[v])
      BY <2>2, <3>1 DEF Unused
    <3>3. lock' = lock /\ (lock # NoLock => lock.id \in Ids)
      BY <1>1, <2>4 DEF TypeOK, Locks
    <3> QED
      BY <2>1, <3>2, <3>3 DEF InOrder
  <2>7. Reported'
    <3>1. \A v \in Ids : upd'[v].by = upd[v].by /\ (upd'[v].installer \in {"launching", "health"} => upd[v].installer \in {"launching", "health"})
      BY <2>2, <2>3
    <3>2. \A d \in Consoles : progress[d].id # 0 => progress[d].id \in Ids
      BY <1>1, BoundsAreNat DEF TypeOK, Ids
    <3> QED
      BY <2>1, <2>4, <3>1, <3>2 DEF Reported, Active
  <2>8. Roles'
    BY <2>1, <2>2, <2>3, <2>4, SentinelsAreFresh DEF Roles, Preparing, InstallerAlive, OfHelper
  <2>9. LockIsHeld' /\ NobodyServes'
    BY <2>1, <2>2, <2>3, <2>4 DEF LockIsHeld, NobodyServes, Kind, Held, Clear, Moving
  <2>10. Calm
    BY <1>1, <2>1, <2>2, <2>3 DEF Calm, Onward, Records, TerminateHelper, Clear, Moving, BeforeTheMoves, InPlace
  <2> QED
    BY <2>5, <2>6, <2>7, <2>8, <2>9, <2>10, CalmKeeps DEF Core
<1> QED
  BY <1>2, <1>3 DEF TerminateHelper

\* ReleaseOwnLock keeps core and files of the invariant.
LEMMA ReleaseOwnLockKeeps ==
  ASSUME Core, Files, NEW u \in Ids, ReleaseOwnLock(u)
  PROVE  Core' /\ Files'
<1>1. Records /\ TypeOK
  BY NoEventRecords DEF ReleaseOwnLock, Core
<1>2. /\ InOrder /\ Reported /\ Roles /\ LockIsHeld /\ NobodyServes
      /\ upd[u].by \in Consoles /\ ~InstallerAlive(u)
  BY PreparerIsOfConsole DEF Core, ReleaseOwnLock, Roles
<1>3. /\ upd' \in [Ids -> Updates]
      /\ \A v \in Ids : v # u => upd'[v] = upd[v]
      /\ upd'[u].by = upd[u].by /\ upd'[u].hosted = upd[u].hosted
      /\ upd'[u].prepare = "done" /\ upd'[u].installer = upd[u].installer
      /\ upd'[u].step = upd[u].step
  BY <1>1, PrepareIs DEF ReleaseOwnLock, PrepareSteps
<1>4. console' = console /\ progress' = progress /\ fresh' = fresh /\ loser' = loser
  BY DEF ReleaseOwnLock, progressVars
<1>5. /\ lock' \in {lock, NoLock}
      /\ \A v \in Ids : v # u /\ lock # NoLock /\ lock.id = v => lock' = lock
  BY DEF ReleaseOwnLock, SetLock, Owns
<1>6. TypeOK'
  BY <1>1, <1>3, <1>4, <1>5 DEF TypeOK, Records, ReleaseOwnLock, fileVars
<1>7. InOrder'
  <2>1. \A v \in Ids : Unused(v) => v # u
    BY <1>2, SentinelsAreFresh DEF Unused
  <2>2. \A v \in Ids : (Unused(v)' <=> Unused(v)) /\ (Unused(v) => upd'[v] = upd[v])
    BY <1>3, <2>1 DEF Unused
  <2>3. lock # NoLock => lock.id \in Ids
    BY <1>1 DEF TypeOK, Locks
  <2> QED
    BY <1>2, <1>5, <2>2, <2>3 DEF InOrder
<1>8. Reported'
  <2>1. \A v \in Ids : upd'[v].by = upd[v].by /\ upd'[v].installer = upd[v].installer
    BY <1>3
  <2>2. \A d \in Consoles : progress[d].id # 0 => progress[d].id \in Ids
    BY <1>1, BoundsAreNat DEF TypeOK, Ids
  <2> QED
    BY <1>2, <1>4, <2>1, <2>2 DEF Reported, Active
<1>9. Roles'
  <2>1. \A v \in Ids : v # u /\ upd[v].prepare \in Preparing => lock' = lock
    BY <1>2, <1>5, SentinelsAreFresh DEF Roles, Locks, Phases
  <2> QED
    BY <1>2, <1>3, <1>4, <2>1, SentinelsAreFresh DEF Roles, Preparing, InstallerAlive
<1>10. LockIsHeld'
  <2> SUFFICES ASSUME NEW v \in Ids, upd'[v].installer \in Held
               PROVE  lock' = [id |-> v, phase |-> Kind(v)']
    BY DEF LockIsHeld
  <2>1. v # u
    BY <1>2, <1>3 DEF InstallerAlive, Held, Clear, Moving
  <2>2. upd'[v] = upd[v] /\ lock = [id |-> v, phase |-> Kind(v)]
    BY <2>1, <1>2, <1>3 DEF LockIsHeld
  <2>3. lock \in Locks
    BY <2>2 DEF Locks, Phases, Kind
  <2> QED
    BY <1>5, <2>1, <2>2, <2>3, SentinelsAreFresh DEF Kind
<1>11. NobodyServes'
  BY <1>2, <1>3, <1>4 DEF NobodyServes
<1>12. Calm
  BY <1>1, <1>3 DEF Calm, Onward, Records, ReleaseOwnLock
<1> QED
  BY <1>6, <1>7, <1>8, <1>9, <1>10, <1>11, <1>12, CalmKeeps DEF Core

(***************************************************************************)
(* The consoles, and the begin of an update.                               *)
(***************************************************************************)

\* Who works under the lock makes it an update in progress.
LEMMA WorkIsInProgress ==
  ASSUME Core, NEW u \in Ids, upd[u].installer \in Held \/ upd[u].prepare \in Preparing
  PROVE  InProgress /\ lock.id = u
<1>1. TypeOK /\ Roles /\ LockIsHeld
  BY DEF Core
<1>2. CASE upd[u].installer \in Held
  <2>1. lock = [id |-> u, phase |-> Kind(u)] /\ lock \in Locks /\ lock.phase # "prepare"
    BY <1>1, <1>2 DEF LockIsHeld, Locks, Phases, Kind
  <2> QED
    BY <2>1, <1>2, SentinelsAreFresh DEF InProgress, OwnerAlive, InstallerAlive, Held, Clear, Moving
<1>3. CASE upd[u].prepare \in Preparing
  <2>1. lock = [id |-> u, phase |-> "prepare"] /\ lock \in Locks /\ upd[u].hosted
    BY <1>1, <1>3 DEF Roles, Locks, Phases, Preparing
  <2> QED
    BY <2>1, SentinelsAreFresh DEF InProgress, OwnerAlive
<1> QED
  BY <1>2, <1>3

\* Steps that change no update and leave the lock to those who work under it.
LEMMA ConsoleMoveKeeps ==
  ASSUME Core, Files, upd' = upd, lock' \in {lock, Reclaimed},
         console' \in [Consoles -> ConsoleStates], loser' \in [Consoles -> BOOLEAN],
         progress' \in [Consoles -> [state : ProgressStates, id : 0..MaxUpdates]],
         fresh' \in [Consoles -> BOOLEAN],
         \A c \in Consoles : console[c] \in Serving => console'[c] \in Serving,
         \A c \in Consoles : console'[c] \in Serving => console[c] \in Serving \/ ~InProgress,
         Reported', UNCHANGED fileVars, Records
  PROVE  Core' /\ Files'
<1>1. /\ TypeOK /\ InOrder /\ Roles /\ LockIsHeld /\ NobodyServes
  BY DEF Core
<1>2. \A u \in Ids : upd[u].installer \in Held \/ upd[u].prepare \in Preparing => lock' = lock
  BY WorkIsInProgress DEF Reclaimed
<1>3. lock' \in {lock, NoLock}
  BY DEF Reclaimed
<1>4. TypeOK'
  BY <1>1, <1>3 DEF TypeOK, Records, fileVars
<1>5. InOrder'
  BY <1>1, <1>3 DEF InOrder, Unused
<1>6. Roles'
  BY <1>1, <1>2 DEF Roles, InstallerAlive
<1>7. LockIsHeld'
  BY <1>1, <1>2 DEF LockIsHeld, Kind
<1>8. NobodyServes'
  <2>1. \A u \in Ids : upd[u].installer \in Clear => InProgress
    BY WorkIsInProgress DEF Held
  <2> QED
    BY <1>1, <2>1 DEF NobodyServes
<1>9. Calm
  BY DEF Calm, Onward, Records
<1> QED
  BY <1>4, <1>5, <1>6, <1>7, <1>8, <1>9, CalmKeeps DEF Core

\* With the reports the same and renewed by nobody, they stay true.
LEMMA ReportedStays ==
  ASSUME Reported, UNCHANGED <<upd, progress, fresh>>
  PROVE  Reported'
  BY DEF Reported, Active

\* Launch keeps core and files of the invariant.
LEMMA LaunchKeeps ==
  ASSUME Core, Files, NEW c \in Consoles, Launch(c)
  PROVE  Core' /\ Files'
<1>1. Records /\ TypeOK /\ Reported'
  BY EventRecords, ReportedStays DEF Launch, Core, Disturbances, lockVars, progressVars
<1>2. console' \in [Consoles -> ConsoleStates] /\ console' = [console EXCEPT ![c] = "starting"]
  BY <1>1 DEF TypeOK, Launch, Start, ConsoleStates
<1> QED
  BY <1>1, <1>2, ConsoleMoveKeeps DEF Launch, Present, lockVars, progressVars, Serving, TypeOK

\* Gate keeps core and files of the invariant.
LEMMA GateKeeps ==
  ASSUME Core, Files, NEW c \in Consoles, Gate(c)
  PROVE  Core' /\ Files'
<1>1. Records /\ TypeOK /\ Reported'
  BY NoEventRecords, ReportedStays DEF Gate, Core, progressVars
<1>2. console' \in [Consoles -> ConsoleStates]
  BY <1>1 DEF TypeOK, Gate, ConsoleStates
<1> QED
  BY <1>1, <1>2, ConsoleMoveKeeps DEF Gate, SetLock, progressVars, Serving, TypeOK

\* ClosesTab keeps core and files of the invariant.
LEMMA ClosesTabKeeps ==
  ASSUME Core, Files, NEW c \in Consoles, ClosesTab(c)
  PROVE  Core' /\ Files'
<1>1. Records /\ TypeOK /\ Reported'
  BY NoEventRecords, ReportedStays DEF ClosesTab, Core, progressVars, lockVars
<1>2. console' \in [Consoles -> ConsoleStates]
  BY <1>1 DEF TypeOK, ClosesTab, ConsoleStates
<1> QED
  BY <1>1, <1>2, ConsoleMoveKeeps DEF ClosesTab, lockVars, progressVars, Serving, TypeOK

\* GrowsOld keeps core and files of the invariant.
LEMMA GrowsOldKeeps ==
  ASSUME Core, Files, NEW c \in Consoles, GrowsOld(c)
  PROVE  Core' /\ Files'
<1>1. Records /\ TypeOK /\ Reported
  BY NoEventRecords DEF GrowsOld, Core
<1>2. fresh' \in [Consoles -> BOOLEAN] /\ \A d \in Consoles : d # c => fresh'[d] = fresh[d]
  BY <1>1 DEF TypeOK, GrowsOld
<1>3. upd' = upd /\ lock' = lock /\ progress' = progress
  BY DEF GrowsOld, lockVars
<1>4. Reported'
  BY <1>1, <1>2, <1>3 DEF Reported, GrowsOld
<1> QED
  BY <1>1, <1>2, <1>3, <1>4, ConsoleMoveKeeps DEF GrowsOld, TypeOK

\* ReadProgress keeps core and files of the invariant.
LEMMA ReadProgressKeeps ==
  ASSUME Core, Files, NEW c \in Consoles, ReadProgress(c)
  PROVE  Core' /\ Files'
<1>1. Records /\ TypeOK /\ Reported
  BY NoEventRecords DEF ReadProgress, Core
<1>2. progress[c].id \in 0..MaxUpdates
  BY <1>1 DEF TypeOK
<1>3. /\ progress' \in [Consoles -> [state : ProgressStates, id : 0..MaxUpdates]]
      /\ fresh' \in [Consoles -> BOOLEAN] /\ Reported'
  <2>1. CASE UNCHANGED <<progress, fresh>>
    BY <2>1, <1>1, ReportedStays DEF ReadProgress, TypeOK
  <2>2. CASE Publish(c, "failed", progress[c].id)
    <3>1. /\ progress' \in [Consoles -> [state : ProgressStates, id : 0..MaxUpdates]]
          /\ fresh' \in [Consoles -> BOOLEAN]
          /\ \A d \in Consoles : d # c => progress'[d] = progress[d] /\ fresh'[d] = fresh[d]
          /\ progress'[c] = [state |-> "failed", id |-> progress[c].id]
      BY <1>1, <1>2, <2>2, PublishIs DEF ProgressStates
    <3>2. progress'[c].id = progress[c].id /\ progress'[c].state \notin Active
      BY <3>1 DEF Active
    <3> QED
      BY <1>1, <3>1, <3>2 DEF Reported, ReadProgress
  <2> QED
    BY <2>1, <2>2 DEF ReadProgress
<1> QED
  BY <1>1, <1>3, ConsoleMoveKeeps DEF ReadProgress, SetLock, TypeOK

\* MeetsLock keeps core and files of the invariant.
LEMMA MeetsLockKeeps ==
  ASSUME Core, Files, NEW c \in Consoles, MeetsLock(c)
  PROVE  Core' /\ Files'
<1>1. Records /\ TypeOK /\ Reported'
  BY EventRecords, ReportedStays DEF MeetsLock, Core, lockVars
<1> QED
  BY <1>1, ConsoleMoveKeeps DEF MeetsLock, lockVars, TypeOK

\* ReportsLoss keeps core and files of the invariant.
LEMMA ReportsLossKeeps ==
  ASSUME Core, Files, NEW c \in Consoles, ReportsLoss(c)
  PROVE  Core' /\ Files'
<1>1. Records /\ TypeOK /\ Reported
  BY NoEventRecords DEF ReportsLoss, Core
<1>2. /\ progress' \in [Consoles -> [state : ProgressStates, id : 0..MaxUpdates]]
      /\ fresh' \in [Consoles -> BOOLEAN]
      /\ \A d \in Consoles : d # c => progress'[d] = progress[d] /\ fresh'[d] = fresh[d]
      /\ progress'[c] = [state |-> "failed", id |-> 0]
  <2>1. 0 \in 0..MaxUpdates
    BY BoundsAreNat
  <2> QED
    BY <1>1, <2>1, PublishIs DEF ReportsLoss, ProgressStates
<1>3. progress'[c].id = 0 /\ progress'[c].state \notin Active
  BY <1>2 DEF Active
<1>4. Reported'
  BY <1>1, <1>2, <1>3 DEF Reported, ReportsLoss, lockVars
<1> QED
  BY <1>1, <1>2, <1>4, ConsoleMoveKeeps DEF ReportsLoss, lockVars, TypeOK

\* EndOf keeps core and files of the invariant.
LEMMA EndOfKeeps ==
  ASSUME Core, Files, NEW c \in Consoles, EndOf(c), Records
  PROVE  Core' /\ Files'
<1>1. /\ TypeOK /\ InOrder /\ Reported /\ Roles /\ LockIsHeld /\ NobodyServes
  BY DEF Core
<1>2. /\ upd' \in [Ids -> Updates] /\ console' \in [Consoles -> ConsoleStates] /\ loser' \in [Consoles -> BOOLEAN]
      /\ console'[c] = "off" /\ \A d \in Consoles : d # c => console'[d] = console[d]
      /\ \A v \in Ids :
           /\ upd'[v].by = upd[v].by
           /\ upd'[v].installer = upd[v].installer
           /\ upd'[v].step = upd[v].step
           /\ upd[v].by = c /\ upd[v].hosted => ~upd'[v].hosted /\ upd'[v].prepare = "done"
           /\ ~(upd[v].by = c /\ upd[v].hosted) => upd'[v] = upd[v]
  BY <1>1, EndOfIs
<1>3. lock' = lock /\ progress' = progress /\ fresh' = fresh /\ installed' = installed /\ backups' = backups
  BY DEF EndOf, fileVars
<1>4. TypeOK'
  BY <1>1, <1>2, <1>3 DEF TypeOK, Records
<1>5. InOrder'
  <2>1. \A v \in Ids : (Unused(v)' <=> Unused(v)) /\ (Unused(v) => upd'[v] = upd[v])
    BY <1>2, SentinelsAreFresh DEF Unused
  <2>2. lock # NoLock => lock.id \in Ids
    BY <1>1 DEF TypeOK, Locks
  <2> QED
    BY <1>1, <1>3, <2>1, <2>2 DEF InOrder
<1>6. Reported'
  <2>1. \A d \in Consoles : progress[d].id # 0 => progress[d].id \in Ids
    BY <1>1, BoundsAreNat DEF TypeOK, Ids
  <2> QED
    BY <1>1, <1>2, <1>3, <2>1 DEF Reported, Active
<1>7. Roles'
  BY <1>1, <1>2, <1>3, SentinelsAreFresh DEF Roles, InstallerAlive, Preparing
<1>8. LockIsHeld'
  BY <1>1, <1>2, <1>3 DEF LockIsHeld, Kind
<1>9. NobodyServes'
  BY <1>1, <1>2 DEF NobodyServes, Serving
<1>10. Calm
  BY <1>2, <1>3 DEF Calm, Onward, Records, fileVars
<1> QED
  BY <1>4, <1>5, <1>6, <1>7, <1>8, <1>9, <1>10, CalmKeeps DEF Core

\* Leaving, dying and being refused end a console.
LEMMA ExitsKeep ==
  ASSUME Core, Files, NEW c \in Consoles, RefusedExits(c) \/ Dies(c) \/ Leaves(c)
  PROVE  Core' /\ Files'
<1>1. Records /\ EndOf(c)
  BY EventRecords, NoEventRecords DEF RefusedExits, Dies, Leaves, Core, Disturbances
<1> QED
  BY <1>1, EndOfKeeps

\* A new update u, by a console or by hand.
New(u, by, step, s, kind) ==
  /\ NextId(u) /\ ~InProgress
  /\ lock' = [id |-> u, phase |-> kind]
  /\ upd' \in [Ids -> Updates]
  /\ \A v \in Ids : v # u => upd'[v] = upd[v]
  /\ upd'[u].by = by /\ upd'[u].prepare = step /\ upd'[u].installer = s /\ upd'[u].step = 0
  /\ UNCHANGED <<console, progress, fresh, loser, installed, backups>>
  /\ Records

\* A new update keeps core and files.
LEMMA NewKeeps ==
  ASSUME Core, Files, NEW u \in Ids, NEW by, NEW step, NEW s, NEW kind, New(u, by, step, s, kind),
         \/ /\ by \in Consoles /\ step = "locked" /\ s = "none" /\ kind = "prepare"
            /\ upd'[u].hosted /\ console[by] \in Serving
         \/ /\ by = Manual /\ step = "none" /\ s = "checking" /\ kind = "manual" /\ ~upd'[u].hosted
  PROVE  Core' /\ Files'
<1>1. /\ TypeOK /\ InOrder /\ Reported /\ Roles /\ LockIsHeld /\ NobodyServes
  BY DEF Core
<1>2. /\ lock' = [id |-> u, phase |-> kind]
      /\ upd' \in [Ids -> Updates]
      /\ \A v \in Ids : v # u => upd'[v] = upd[v]
      /\ upd'[u].by = by /\ upd'[u].prepare = step /\ upd'[u].installer = s /\ upd'[u].step = 0
      /\ console' = console /\ progress' = progress /\ fresh' = fresh
  BY DEF New
<1>3. /\ Unused(u) /\ by # Nobody /\ u # 0
      /\ \A v \in Ids : v < u => ~Unused(v)
      /\ \A v \in Ids : v > u => Unused(v)
      /\ upd[u].installer = "none" /\ upd[u].prepare = "none" /\ upd[u].step = 0
  BY <1>1, SentinelsAreFresh DEF New, NextId, Unused, InOrder, NoUpdate, Ids
<1>4. \A v \in Ids : upd[v].installer \notin Held /\ upd[v].prepare \notin Preparing
  BY WorkIsInProgress DEF New
<1>5. TypeOK'
  <2>1. lock' \in Locks
    BY <1>2 DEF Locks, Phases
  <2> QED
    BY <1>1, <1>2, <2>1 DEF TypeOK, Records, New
<1>6. InOrder'
  <2>1. \A v \in Ids : v # u => (Unused(v)' <=> Unused(v))
    BY <1>2 DEF Unused
  <2>2. ~Unused(u)'
    BY <1>2, <1>3 DEF Unused
  <2>3. \A v \in Ids : Unused(v)' => upd'[v] = NoUpdate /\ v > u
    BY <1>1, <1>2, <1>3, <2>1, <2>2 DEF InOrder, Ids
  <2>4. \A v \in Ids : v > u => Unused(v)'
    BY <1>3, <2>1 DEF Ids
  <2>5. \A v, w \in Ids : v > u /\ w > v => w > u
    BY DEF Ids
  <2> QED
    BY <1>2, <2>2, <2>3, <2>4, <2>5 DEF InOrder
<1>7. Reported'
  <2> SUFFICES ASSUME NEW d \in Consoles
               PROVE  /\ progress[d].id # 0 => upd'[progress[d].id].by = d
                      /\ progress[d].state \in Active => progress[d].id # 0
                      /\ progress[d].state \in Active
                         /\ upd'[progress[d].id].installer \in {"launching", "health"} => fresh[d]
    BY <1>2 DEF Reported
  <2>1. progress[d].id # 0 => progress[d].id \in Ids /\ progress[d].id # u
    BY <1>1, <1>3, BoundsAreNat, SentinelsAreFresh DEF TypeOK, Ids, Reported, Unused
  <2> QED
    BY <1>1, <1>2, <2>1 DEF Reported
<1>8. Roles'
  <2>1. \A v \in Ids : v # u => (InstallerAlive(v)' <=> InstallerAlive(v))
    BY <1>2 DEF InstallerAlive
  <2> SUFFICES ASSUME NEW v \in Ids
               PROVE  /\ upd'[v].by = Manual => upd'[v].prepare = "none" /\ upd'[v].installer \notin OfHelper
                      /\ upd'[v].hosted => upd'[v].by \in Consoles /\ console'[upd'[v].by] \in Serving
                      /\ upd'[v].prepare \notin {"none", "done"} => upd'[v].hosted
                      /\ upd'[v].prepare = "releasing" => ~InstallerAlive(v)'
                      /\ upd'[v].prepare \in Preparing => lock' = [id |-> v, phase |-> "prepare"] /\ upd'[v].installer = "none"
    BY DEF Roles
  <2>2. CASE v = u
    BY <1>2, <2>2, SentinelsAreFresh DEF Preparing, OfHelper
  <2>3. CASE v # u
    BY <1>1, <1>2, <1>4, <2>1, <2>3 DEF Roles
  <2> QED
    BY <2>2, <2>3
<1>9. LockIsHeld'
  <2> SUFFICES ASSUME NEW v \in Ids, upd'[v].installer \in Held
               PROVE  lock' = [id |-> v, phase |-> Kind(v)']
    BY DEF LockIsHeld
  <2>1. v = u
    BY <1>2, <1>4
  <2>2. by = Manual /\ kind = "manual"
    BY <1>2, <2>1 DEF Held, Clear, Moving
  <2> QED
    BY <1>2, <2>1, <2>2 DEF Kind
<1>10. NobodyServes'
  BY <1>1, <1>2 DEF NobodyServes, Clear, Moving
<1>11. Calm
  BY <1>2, <1>3 DEF Calm, Onward, Records, New, fileVars, BeforeTheMoves, Moving, InPlace
<1> QED
  BY <1>5, <1>6, <1>7, <1>8, <1>9, <1>10, <1>11, CalmKeeps DEF Core

\* Begin keeps core and files of the invariant.
LEMMA BeginKeeps ==
  ASSUME Core, Files, NEW u \in Ids, NEW c \in Consoles, Begin(c, u)
  PROVE  Core' /\ Files'
<1>1. Records /\ TypeOK
  BY NoEventRecords DEF Begin, Core
<1>2. /\ upd' \in [Ids -> Updates]
      /\ \A v \in Ids : v # u => upd'[v] = upd[v]
      /\ upd'[u].by = c /\ upd'[u].hosted /\ upd'[u].prepare = "locked"
      /\ upd'[u].installer = "none" /\ upd'[u].step = 0
  <2>1. NoUpdate \in Updates /\ NoUpdate.installer = "none" /\ NoUpdate.step = 0
    BY DEF NoUpdate, Updates, PrepareSteps, InstallerSteps, PrunerSteps
  <2>2. upd' = [upd EXCEPT ![u] = [NoUpdate EXCEPT !.by = c, !.hosted = TRUE, !.prepare = "locked"]]
    BY DEF Begin
  <2> QED
    BY <1>1, <2>1, <2>2 DEF TypeOK, Updates, PrepareSteps
<1>3. New(u, c, "locked", "none", "prepare")
  BY <1>1, <1>2 DEF New, Begin, SetLock, progressVars, fileVars
<1> QED
  BY <1>2, <1>3, NewKeeps DEF Begin, Serving

\* BeginManual keeps core and files of the invariant.
LEMMA BeginManualKeeps ==
  ASSUME Core, Files, NEW u \in Ids, BeginManual(u)
  PROVE  Core' /\ Files'
<1>1. Records /\ TypeOK
  BY DEF BeginManual, Core, TypeOK, Records, Disturbances
<1>2. /\ upd' \in [Ids -> Updates]
      /\ \A v \in Ids : v # u => upd'[v] = upd[v]
      /\ upd'[u].by = Manual /\ ~upd'[u].hosted /\ upd'[u].prepare = "none"
      /\ upd'[u].installer = "checking" /\ upd'[u].step = 0
  <2>1. /\ NoUpdate \in Updates /\ NoUpdate.step = 0
        /\ ~NoUpdate.hosted /\ NoUpdate.prepare = "none"
    BY DEF NoUpdate, Updates, PrepareSteps, InstallerSteps, PrunerSteps
  <2>2. upd' = [upd EXCEPT ![u] = [NoUpdate EXCEPT !.by = Manual, !.installer = "checking"]]
    BY DEF BeginManual
  <2> QED
    BY <1>1, <2>1, <2>2 DEF TypeOK, Updates, InstallerSteps
<1>3. New(u, Manual, "none", "checking", "manual")
  BY <1>1, <1>2 DEF New, BeginManual, InProgress, SetLock, progressVars, fileVars
<1> QED
  BY <1>2, <1>3, NewKeeps

(***************************************************************************)
(* The installer.                                                          *)
(***************************************************************************)

\* An installer that goes on keeps the core.
LEMMA ProceedsKeepsCore ==
  ASSUME Core, NEW u \in Ids, NEW s \in InstallerSteps \ {"none"}, Proceeds(u, s), Gives(u, s),
         s \in Clear => upd[u].installer \in Clear \/ \A c \in Consoles : console[c] \notin Serving,
         s \in OfHelper => upd[u].by # Manual,
         s \in {"launching", "health"} =>
           upd[u].installer \in {"launching", "health"} \/ fresh'[upd[u].by] = TRUE,
         console' \in [Consoles -> ConsoleStates], loser' = loser, Records,
         installed' \in Installs, backups' \in [Ids -> Installs]
  PROVE  Core'
<1>1. TypeOK
  BY DEF Core
<1>3. (InOrder /\ Reported /\ Roles /\ LockIsHeld /\ NobodyServes)'
  BY ProceedsKeeps
<1>4. lock' \in Locks \union {NoLock}
  BY <1>1 DEF Gives, TypeOK, Locks, Phases
<1>5. progress' \in [Consoles -> [state : ProgressStates, id : 0..MaxUpdates]] /\ fresh' \in [Consoles -> BOOLEAN]
  BY <1>1, TellsIs DEF Proceeds, TypeOK
<1>6. TypeOK'
  BY <1>1, <1>4, <1>5 DEF TypeOK, Records, Proceeds
<1> QED
  BY <1>3, <1>6 DEF Core

\* An error by hand ends the run, one in a helper is reported.
LEMMA AfterErrorIs ==
  ASSUME NEW u \in Ids
  PROVE  AfterError(u) \in {"finishing", "failing"} /\ (AfterError(u) = "failing" => upd[u].by # Manual)
  BY DEF AfterError

\* TakeLock keeps core and files of the invariant.
LEMMA TakeLockKeeps ==
  ASSUME Core, Files, NEW u \in Ids, TakeLock(u)
  PROVE  Core' /\ Files'
<1>1. TypeOK /\ Records /\ upd[u].by \in Consoles /\ upd[u].by # Manual
  BY NoEventRecords, HelperIsOfConsole, SentinelsAreFresh DEF TakeLock, Core, OfHelper
<1>2. PICK s \in {"waiting", "failing"} :
         /\ Runs(u, s) /\ Gives(u, s)
  <2>1. InstallerAlive(u)
    BY DEF TakeLock, InstallerAlive
  <2>2. CASE Owns(u)
    BY <1>1, <2>1, <2>2 DEF TakeLock, Runs, Gives, SetLock, Tells, ProgressStates, TypeOK
  <2>3. CASE ~Owns(u)
    BY <1>1, <2>1, <2>3 DEF TakeLock, Runs, Gives, Tells, ProgressStates, TypeOK, Held, Clear, Moving
  <2> QED
    BY <2>2, <2>3
<1>3. UNCHANGED fileVars /\ installed' \in Installs /\ backups' \in [Ids -> Installs]
  BY <1>1 DEF TakeLock, TypeOK, fileVars
<1>4. Onward(upd[u].installer, s)
  BY DEF TakeLock, Onward, BeforeTheMoves, Moving, InPlace
<1>5. s \in InstallerSteps \ {"none"} /\ s \notin Clear
  BY DEF InstallerSteps, Clear, Moving
<1> QED
  BY <1>1, <1>2, <1>3, <1>4, <1>5, RunsKeeps, RunsCalmly

\* The next point needs no right that this one did not have.
Follows(f, s) ==
  /\ s \in InstallerSteps \ {"none"}
  /\ s \in Held => f \in Held
  /\ s \in {"launching", "health"} => f \in {"launching", "health"}
  /\ Onward(f, s)

\* A step of an installer that leaves the lock and the files alone keeps
\* both.
LEMMA PlainKeeps ==
  ASSUME Core, Files, NEW u \in Ids, NEW s, Follows(upd[u].installer, s), Installer(u, s), InstallerAlive(u),
         UNCHANGED <<lock, loser, fileVars>>, Records,
         UNCHANGED <<progress, fresh>> \/ (upd[u].by \in Consoles /\ Tells(u)),
         console' \in [Consoles -> ConsoleStates],
         \A c \in Consoles : console'[c] \in Serving => console[c] \in Serving /\ console'[c] = console[c],
         \A c \in Consoles : console[c] \in Serving => console'[c] = console[c],
         s \in Clear => upd[u].installer \in Clear \/ \A c \in Consoles : console[c] \notin Serving,
         s \in OfHelper => upd[u].by # Manual
  PROVE  Core' /\ Files'
<1>1. TypeOK /\ installed' \in Installs /\ backups' \in [Ids -> Installs]
  BY DEF Core, TypeOK, fileVars
<1>2. Runs(u, s)
  BY DEF Runs
<1>3. Gives(u, s)
  BY DEF Gives, Follows
<1> QED
  BY <1>1, <1>2, <1>3, RunsKeeps, RunsCalmly DEF Follows

\* No console moves.
LEMMA ConsolesStay ==
  ASSUME Core, console' = console
  PROVE  /\ console' \in [Consoles -> ConsoleStates]
         /\ \A c \in Consoles : console'[c] \in Serving => console[c] \in Serving /\ console'[c] = console[c]
         /\ \A c \in Consoles : console[c] \in Serving => console'[c] = console[c]
  BY DEF Core, TypeOK

\* A console that starts does not serve before its gate.
LEMMA ConsoleStarts ==
  ASSUME Core, NEW c \in Consoles, Start(c)
  PROVE  /\ console' \in [Consoles -> ConsoleStates]
         /\ \A d \in Consoles : console'[d] \in Serving => console[d] \in Serving /\ console'[d] = console[d]
         /\ \A d \in Consoles : console[d] \in Serving => console'[d] = console[d]
  BY DEF Core, TypeOK, Start, Present, Serving, ConsoleStates

\* SeeExits keeps core and files of the invariant.
LEMMA SeeExitsKeeps ==
  ASSUME Core, Files, NEW u \in Ids, SeeExits(u)
  PROVE  Core' /\ Files'
<1>1. Records /\ upd[u].by \in Consoles /\ upd[u].by # Manual
  BY NoEventRecords, HelperIsOfConsole, SentinelsAreFresh DEF SeeExits, Core, OfHelper
<1>2. Follows(upd[u].installer, "entering") /\ InstallerAlive(u) /\ "entering" \notin Clear
  BY DEF SeeExits, Follows, InstallerAlive, Onward, Held, Clear, Moving, InPlace, BeforeTheMoves, InstallerSteps
<1>3. Tells(u)
  BY DEF SeeExits, Tells, ProgressStates
<1> QED
  BY <1>1, <1>2, <1>3, ConsolesStay, PlainKeeps DEF SeeExits

\* ExitTimeout keeps core and files of the invariant.
LEMMA ExitTimeoutKeeps ==
  ASSUME Core, Files, NEW u \in Ids, ExitTimeout(u)
  PROVE  Core' /\ Files'
<1>1. TypeOK /\ upd[u].by # Manual
  BY HelperIsOfConsole, SentinelsAreFresh DEF ExitTimeout, Core, OfHelper
<1>2. Records
  <2>1. {"slow"} \in SUBSET Disturbances
    BY DEF Disturbances
  <2> QED
    BY <1>1, <2>1, EventRecords DEF ExitTimeout, Records, TypeOK
<1>3. Follows(upd[u].installer, "failing") /\ InstallerAlive(u) /\ "failing" \notin Clear
  BY DEF ExitTimeout, Follows, InstallerAlive, Onward, Held, Clear, Moving, InPlace, BeforeTheMoves, InstallerSteps
<1> QED
  BY <1>1, <1>2, <1>3, ConsolesStay, PlainKeeps DEF ExitTimeout, progressVars

\* EnterScript keeps core and files of the invariant.
LEMMA EnterScriptKeeps ==
  ASSUME Core, Files, NEW u \in Ids, EnterScript(u)
  PROVE  Core' /\ Files'
<1>1. Records /\ upd[u].by # Manual
  BY NoEventRecords, HelperIsOfConsole, SentinelsAreFresh DEF EnterScript, Core, OfHelper
<1>2. PICK s \in {"checking", "failing"} : Installer(u, s)
  BY DEF EnterScript
<1>3. Follows(upd[u].installer, s) /\ InstallerAlive(u) /\ s \notin Clear
  BY DEF EnterScript, Follows, InstallerAlive, Onward, Held, Clear, Moving, InPlace, BeforeTheMoves, InstallerSteps
<1> QED
  BY <1>1, <1>2, <1>3, ConsolesStay, PlainKeeps DEF EnterScript, progressVars

\* CheckPackage keeps core and files of the invariant.
LEMMA CheckPackageKeeps ==
  ASSUME Core, Files, NEW u \in Ids, CheckPackage(u)
  PROVE  Core' /\ Files'
<1>1. Records
  BY EventRecords, NoEventRecords DEF CheckPackage, Core
<1>2. PICK s : s \in {"saving", AfterError(u)} /\ Installer(u, s) /\ (s = "saving" => Fit)
  BY AfterErrorIs DEF CheckPackage
<1>3. s \in {"saving", "finishing", "failing"} /\ (s \in OfHelper => upd[u].by # Manual)
  BY <1>2, AfterErrorIs DEF OfHelper
<1>4. Follows(upd[u].installer, s) /\ InstallerAlive(u)
  BY <1>3 DEF CheckPackage, Follows, InstallerAlive, Onward, Held, Clear, Moving, InPlace, BeforeTheMoves, InstallerSteps
<1>5. s \in Clear => \A c \in Consoles : console[c] \notin Serving
  BY <1>2, <1>3 DEF Clear, Moving, Fit, Present, Serving
<1> QED
  BY <1>1, <1>2, <1>3, <1>4, <1>5, ConsolesStay, PlainKeeps DEF CheckPackage, progressVars

\* SaveDatabases keeps core and files of the invariant.
LEMMA SaveDatabasesKeeps ==
  ASSUME Core, Files, NEW u \in Ids, SaveDatabases(u)
  PROVE  Core' /\ Files'
<1>1. Records
  BY EventRecords, NoEventRecords DEF SaveDatabases, BeforeMoves, Core
<1>2. PICK s : s \in {"staging", AfterError(u)} /\ Installer(u, s)
  BY DEF SaveDatabases, BeforeMoves
<1>3. s \in {"staging", "finishing", "failing"} /\ (s \in OfHelper => upd[u].by # Manual)
  BY <1>2, AfterErrorIs DEF OfHelper
<1>4. Follows(upd[u].installer, s) /\ InstallerAlive(u) /\ upd[u].installer \in Clear
  BY <1>3 DEF SaveDatabases, BeforeMoves, Follows, InstallerAlive, Onward, Held, Clear, Moving, InPlace, BeforeTheMoves, InstallerSteps
<1> QED
  BY <1>1, <1>2, <1>3, <1>4, ConsolesStay, PlainKeeps DEF SaveDatabases, BeforeMoves, progressVars

\* StageParts keeps core and files of the invariant.
LEMMA StagePartsKeeps ==
  ASSUME Core, Files, NEW u \in Ids, StageParts(u)
  PROVE  Core' /\ Files'
<1>1. TypeOK /\ upd[u].installer = "staging" /\ lock' = lock /\ console' = console /\ UNCHANGED progressVars /\ UNCHANGED fileVars
  BY DEF StageParts, BeforeMoves, Core
<1>2. CASE Installer(u, "moving") /\ NoEvent
  <2>1. Files' /\ Records
    BY <1>1, <1>2, StageKeeps, NoEventRecords, NoEventIs
  <2>2. Runs(u, "moving") /\ Gives(u, "moving")
    BY <1>1, <1>2, <2>1, ConsolesStay DEF Runs, Gives, InstallerAlive, Held, Clear, Moving, progressVars
  <2>3. installed' \in Installs /\ backups' \in [Ids -> Installs]
    BY <1>1 DEF TypeOK, fileVars
  <2>4. "moving" \notin OfHelper /\ upd[u].installer \in Clear /\ "moving" \in InstallerSteps
    BY <1>1 DEF OfHelper, Clear, InstallerSteps, Moving
  <2> QED
    BY <2>1, <2>2, <2>3, <2>4, RunsKeeps
<1>3. CASE Installer(u, AfterError(u)) /\ Event({})
  <2>1. Follows(upd[u].installer, AfterError(u)) /\ InstallerAlive(u) /\ upd[u].installer \in Clear
    BY <1>1, AfterErrorIs DEF Follows, InstallerAlive, Onward, Held, Clear, Moving, InPlace, BeforeTheMoves, InstallerSteps
  <2> QED
    BY <1>1, <1>3, <2>1, EventRecords, AfterErrorIs, ConsolesStay, PlainKeeps DEF progressVars, OfHelper
<1> QED
  BY <1>2, <1>3 DEF StageParts, BeforeMoves

\* MoveFails keeps core and files of the invariant.
LEMMA MoveFailsKeeps ==
  ASSUME Core, Files, NEW u \in Ids, MoveFails(u)
  PROVE  Core' /\ Files'
<1>1. Records
  BY EventRecords, NoEventRecords DEF MoveFails, Core
<1>2. Follows(upd[u].installer, "rolling") /\ InstallerAlive(u) /\ upd[u].installer \in Clear /\ "rolling" \notin OfHelper
  BY DEF MoveFails, Follows, InstallerAlive, Onward, Held, Clear, Moving, InPlace, BeforeTheMoves, InstallerSteps, OfHelper
<1> QED
  BY <1>1, <1>2, ConsolesStay, PlainKeeps DEF MoveFails, progressVars

\* A step of the moves leaves everything but the files and the step as it is.
LEMMA MovesKeepCore ==
  ASSUME Core, NEW u \in Ids, MovesParts(u), upd' \in [Ids -> Updates],
         \A v \in Ids : v # u => upd'[v] = upd[v],
         upd'[u].by = upd[u].by, upd'[u].hosted = upd[u].hosted, upd'[u].prepare = upd[u].prepare,
         upd'[u].installer \in Moving \union {"installed"},
         UNCHANGED <<lock, console, progressVars>>, NoEvent,
         installed' \in Installs, backups' \in [Ids -> Installs]
  PROVE  Core'
<1>1. Records /\ TypeOK
  BY NoEventRecords DEF Core
<1> DEFINE s == upd'[u].installer
<1>2. /\ s \in InstallerSteps \ {"none"} /\ s \notin OfHelper /\ s \notin {"launching", "health"}
      /\ upd[u].installer \in Clear /\ upd[u].installer \in Held /\ InstallerAlive(u)
  BY DEF Moving, InstallerSteps, OfHelper, Clear, Held, MovesParts, InstallerAlive
<1>3. Proceeds(u, s) /\ Gives(u, s)
  BY <1>1, <1>2 DEF Proceeds, Gives, progressVars
<1> HIDE DEF s
<1> QED
  BY <1>1, <1>2, <1>3, ProceedsKeepsCore DEF progressVars, TypeOK

\* MovePart keeps core and files of the invariant.
LEMMA MovePartKeepsAll ==
  ASSUME Core, Files, NEW u \in Ids, MovePart(u)
  PROVE  Core' /\ Files'
<1>1. Files' /\ upd' \in [Ids -> Updates] /\ installed' \in Installs /\ backups' \in [Ids -> Installs]
  BY MovePartKeeps
<1>2. /\ MovesParts(u)
      /\ \A v \in Ids : v # u => upd'[v] = upd[v]
      /\ upd'[u].by = upd[u].by /\ upd'[u].hosted = upd[u].hosted /\ upd'[u].prepare = upd[u].prepare
      /\ upd'[u].installer \in Moving
  BY DEF MovePart, Core, TypeOK, Updates, MovesParts, Moving
<1>3. NoEvent /\ UNCHANGED <<lock, console, progressVars>>
  BY DEF MovePart
<1> QED
  BY <1>1, <1>2, <1>3, MovesKeepCore

\* RollBack keeps core and files of the invariant.
LEMMA RollBackKeepsAll ==
  ASSUME Core, Files, NEW u \in Ids, RollBack(u)
  PROVE  Core' /\ Files'
<1>1. Files' /\ upd' \in [Ids -> Updates] /\ installed' \in Installs /\ backups' \in [Ids -> Installs]
  BY RollBackKeeps
<1>2. /\ MovesParts(u)
      /\ \A v \in Ids : v # u => upd'[v] = upd[v]
      /\ upd'[u].by = upd[u].by /\ upd'[u].hosted = upd[u].hosted /\ upd'[u].prepare = upd[u].prepare
      /\ upd'[u].installer \in Moving
  BY DEF RollBack, Core, TypeOK, Updates, MovesParts, Moving
<1>3. NoEvent /\ UNCHANGED <<lock, console, progressVars>>
  BY DEF RollBack
<1> QED
  BY <1>1, <1>2, <1>3, MovesKeepCore

\* EndMoves keeps core and files of the invariant.
LEMMA EndMovesKeepsAll ==
  ASSUME Core, Files, NEW u \in Ids, EndMoves(u)
  PROVE  Core' /\ Files'
<1>1. Files'
  BY EndMovesKeeps
<1>2. /\ MovesParts(u) /\ upd' \in [Ids -> Updates]
      /\ \A v \in Ids : v # u => upd'[v] = upd[v]
      /\ upd'[u].by = upd[u].by /\ upd'[u].hosted = upd[u].hosted /\ upd'[u].prepare = upd[u].prepare
      /\ upd'[u].installer = "installed"
  <2>1. upd \in [Ids -> Updates] /\ MovesParts(u)
    BY DEF EndMoves, Core, TypeOK, MovesParts, Moving
  <2>2. PICK q \in PrunerSteps : upd' = [upd EXCEPT ![u].installer = "installed", ![u].pruner = q]
    BY DEF EndMoves, PrunerSteps
  <2> QED
    BY <2>1, <2>2 DEF Updates, InstallerSteps
<1>3. installed' \in Installs /\ backups' \in [Ids -> Installs]
  BY DEF EndMoves, Core, TypeOK, fileVars
<1>4. NoEvent /\ UNCHANGED <<lock, console, progressVars>>
  BY DEF EndMoves
<1> QED
  BY <1>1, <1>2, <1>3, <1>4, MovesKeepCore

\* The moves end where they stand: core and files.
LEMMA StopKeepsAll ==
  ASSUME Core, Files, NEW u \in Ids, MovesParts(u), NEW s \in {"finishing", "failing", "dead"},
         Installer(u, s), s = "failing" => upd[u].by # Manual,
         UNCHANGED <<lock, console, progressVars, fileVars>>, Records,
         upd[u].step = 0 \/ "torn" \in disturbed'
  PROVE  Core' /\ Files'
<1>1. /\ s \in InstallerSteps \ {"none"} /\ s \notin BeforeTheMoves \union Moving \union InPlace
      /\ s \notin Held /\ s \notin Clear /\ s \notin {"launching", "health"}
      /\ s \in OfHelper => upd[u].by # Manual
      /\ InstallerAlive(u)
  BY DEF InstallerSteps, BeforeTheMoves, Moving, InPlace, Held, Clear, OfHelper, MovesParts, InstallerAlive
<1>2. Files'
  BY <1>1, StopKeeps DEF Records
<1>3. Runs(u, s) /\ Gives(u, s)
  BY <1>1, ConsolesStay DEF Runs, Gives, progressVars
<1>4. installed' \in Installs /\ backups' \in [Ids -> Installs]
  BY DEF Core, TypeOK, fileVars
<1> QED
  BY <1>1, <1>2, <1>3, <1>4, RunsKeeps

\* EndRollBack keeps core and files of the invariant.
LEMMA EndRollBackKeeps ==
  ASSUME Core, Files, NEW u \in Ids, EndRollBack(u)
  PROVE  Core' /\ Files'
<1>1. MovesParts(u) /\ AfterError(u) \in {"finishing", "failing"} /\ (AfterError(u) = "failing" => upd[u].by # Manual)
  BY AfterErrorIs DEF EndRollBack, MovesParts, Moving
<1>2. Records
  <2>1. {"torn"} \in SUBSET Disturbances
    BY DEF Disturbances
  <2> QED
    BY <2>1, EventRecords, NoEventRecords DEF EndRollBack, Records, Core, TypeOK
<1>3. upd[u].step = 0 \/ "torn" \in disturbed'
  BY DEF EndRollBack, Event
<1>4. Installer(u, AfterError(u)) /\ UNCHANGED <<lock, console, progressVars, fileVars>>
  BY DEF EndRollBack
<1> HIDE DEF AfterError
<1> QED
  BY <1>1, <1>2, <1>3, <1>4, StopKeepsAll

\* InstallerDies keeps core and files of the invariant.
LEMMA InstallerDiesKeeps ==
  ASSUME Core, Files, NEW u \in Ids, InstallerDies(u)
  PROVE  Core' /\ Files'
<1>1. /\ InstallerAlive(u) /\ Installer(u, "dead")
      /\ UNCHANGED <<lock, console, progressVars, fileVars>>
      /\ Event(IF upd[u].installer \in Moving THEN {"torn", "killed"} ELSE {"killed"})
  BY DEF InstallerDies
<1>2. Records
  BY <1>1, EventRecords DEF Core, Disturbances
<1>3. CASE MovesParts(u)
  <2>1. "torn" \in disturbed'
    BY <1>1, <1>3 DEF Event, MovesParts
  <2> QED
    BY <1>1, <1>2, <1>3, <2>1, StopKeepsAll
<1>4. CASE ~MovesParts(u)
  <2>1. Follows(upd[u].installer, "dead") /\ "dead" \notin Clear /\ "dead" \notin OfHelper
    BY <1>4 DEF Follows, Onward, MovesParts, Held, Clear, Moving, InPlace, BeforeTheMoves, InstallerSteps, OfHelper
  <2> QED
    BY <1>1, <1>2, <2>1, ConsolesStay, PlainKeeps DEF progressVars
<1> QED
  BY <1>3, <1>4

\* ReleaseForLaunch keeps core and files of the invariant.
LEMMA ReleaseForLaunchKeeps ==
  ASSUME Core, Files, NEW u \in Ids, ReleaseForLaunch(u)
  PROVE  Core' /\ Files'
<1>1. TypeOK /\ Records /\ LockIsHeld
  BY NoEventRecords DEF ReleaseForLaunch, Core
<1>2. upd[u].by \in Consoles /\ upd[u].by # Manual /\ InstallerAlive(u)
  BY SentinelsAreFresh DEF ReleaseForLaunch, Core, TypeOK, InOrder, NoUpdate, Unused, Updates, InstallerAlive
<1>3. lock # NoLock => lock.id = u
  BY <1>1 DEF LockIsHeld, Held, ReleaseForLaunch
<1>4. Installer(u, "launching") /\ lock' = NoLock
  BY <1>3 DEF ReleaseForLaunch, SetLock
<1>5. Tells(u) /\ fresh'[upd[u].by] = TRUE
  <2>1. u \in 0..MaxUpdates
    BY BoundsAreNat DEF Ids
  <2> QED
    BY <1>1, <1>2, <2>1, PublishIs DEF ReleaseForLaunch, Tells, ProgressStates
<1>6. Runs(u, "launching")
  BY <1>1, <1>2, <1>4, <1>5, ConsolesStay DEF Runs, ReleaseForLaunch
<1>7. Gives(u, "launching")
  BY <1>3, <1>4 DEF Gives, Held, Clear, Moving
<1>8. /\ Onward(upd[u].installer, "launching") /\ "launching" \in InstallerSteps \ {"none"}
      /\ "launching" \notin Clear
  BY DEF ReleaseForLaunch, Onward, BeforeTheMoves, Moving, InPlace, InstallerSteps, Clear
<1>9. UNCHANGED fileVars /\ installed' \in Installs /\ backups' \in [Ids -> Installs]
  BY <1>1 DEF TypeOK, fileVars, ReleaseForLaunch
<1> QED
  BY <1>2, <1>5, <1>6, <1>7, <1>8, <1>9, RunsKeeps, RunsCalmly

\* StartConsole keeps core and files of the invariant.
LEMMA StartConsoleKeeps ==
  ASSUME Core, Files, NEW u \in Ids, StartConsole(u)
  PROVE  Core' /\ Files'
<1>1. Records /\ upd[u].by \in Consoles /\ upd[u].by # Manual
  BY NoEventRecords, HelperIsOfConsole, SentinelsAreFresh DEF StartConsole, Core, OfHelper
<1>2. PICK s \in {"health", "failing"} : Installer(u, s)
  BY DEF StartConsole
<1>3. Follows(upd[u].installer, s) /\ InstallerAlive(u) /\ s \notin Clear
  BY DEF StartConsole, Follows, InstallerAlive, Onward, Held, Clear, Moving, InPlace, BeforeTheMoves, InstallerSteps
<1>4. /\ console' \in [Consoles -> ConsoleStates]
      /\ \A c \in Consoles : console'[c] \in Serving => console[c] \in Serving /\ console'[c] = console[c]
      /\ \A c \in Consoles : console[c] \in Serving => console'[c] = console[c]
  BY <1>1, ConsolesStay, ConsoleStarts DEF StartConsole
<1> QED
  BY <1>1, <1>2, <1>3, <1>4, PlainKeeps DEF StartConsole, progressVars

\* Healthy keeps core and files of the invariant.
LEMMA HealthyKeeps ==
  ASSUME Core, Files, NEW u \in Ids, Healthy(u)
  PROVE  Core' /\ Files'
<1>1. Records /\ upd[u].by \in Consoles
  BY NoEventRecords, HelperIsOfConsole DEF Healthy, Core, OfHelper
<1>2. Follows(upd[u].installer, "finishing") /\ InstallerAlive(u) /\ "finishing" \notin Clear /\ "finishing" \notin OfHelper
  BY DEF Healthy, Follows, InstallerAlive, Onward, Held, Clear, Moving, InPlace, BeforeTheMoves, InstallerSteps, OfHelper
<1>3. Tells(u)
  BY DEF Healthy, Tells, ProgressStates
<1> QED
  BY <1>1, <1>2, <1>3, ConsolesStay, PlainKeeps DEF Healthy

\* HealthTimeout keeps core and files of the invariant.
LEMMA HealthTimeoutKeeps ==
  ASSUME Core, Files, NEW u \in Ids, HealthTimeout(u)
  PROVE  Core' /\ Files'
<1>1. Records /\ upd[u].by # Manual
  BY EventRecords, NoEventRecords, HelperIsOfConsole, SentinelsAreFresh DEF HealthTimeout, Core, OfHelper
<1>2. Follows(upd[u].installer, "failing") /\ InstallerAlive(u) /\ "failing" \notin Clear
  BY DEF HealthTimeout, Follows, InstallerAlive, Onward, Held, Clear, Moving, InPlace, BeforeTheMoves, InstallerSteps
<1> QED
  BY <1>1, <1>2, ConsolesStay, PlainKeeps DEF HealthTimeout, progressVars

\* ReleaseInCatch keeps core and files of the invariant.
LEMMA ReleaseInCatchKeeps ==
  ASSUME Core, Files, NEW u \in Ids, ReleaseInCatch(u)
  PROVE  Core' /\ Files'
<1>1. Records /\ TypeOK /\ upd[u].by # Manual
  BY NoEventRecords, HelperIsOfConsole, SentinelsAreFresh DEF ReleaseInCatch, Core, OfHelper
<1>2. PICK s \in {"reporting", "restoring"} :
        Installer(u, s) /\ (lock' = lock \/ (lock' = NoLock /\ (lock = NoLock \/ lock.id = u)))
  <2>1. CASE lock # NoLock /\ lock.id # u
    <3>1. Installer(u, "reporting") /\ lock' = lock
      BY <2>1 DEF ReleaseInCatch
    <3> QED
      BY <3>1
  <2>2. CASE ~(lock # NoLock /\ lock.id # u)
    <3>1. Installer(u, "restoring") /\ lock' = NoLock /\ (lock = NoLock \/ lock.id = u)
      BY <2>2 DEF ReleaseInCatch, SetLock
    <3> QED
      BY <3>1
  <2> QED
    BY <2>1, <2>2
<1>3. Follows(upd[u].installer, s) /\ InstallerAlive(u) /\ s \notin Clear /\ s \notin Held
  BY DEF ReleaseInCatch, Follows, InstallerAlive, Onward, Held, Clear, Moving, InPlace, BeforeTheMoves, InstallerSteps
<1>4. Runs(u, s) /\ Gives(u, s)
  BY <1>1, <1>2, <1>3, ConsolesStay DEF Runs, Gives, ReleaseInCatch, progressVars
<1>5. UNCHANGED fileVars /\ installed' \in Installs /\ backups' \in [Ids -> Installs]
  BY <1>1 DEF TypeOK, fileVars, ReleaseInCatch
<1>6. s \notin {"launching", "health"}
  OBVIOUS
<1> QED
  BY <1>1, <1>3, <1>4, <1>5, <1>6, RunsKeeps, RunsCalmly DEF Follows

\* RestoreConsole keeps core and files of the invariant.
LEMMA RestoreConsoleKeeps ==
  ASSUME Core, Files, NEW u \in Ids, RestoreConsole(u)
  PROVE  Core' /\ Files'
<1>1. Records /\ upd[u].by \in Consoles /\ upd[u].by # Manual
  BY NoEventRecords, HelperIsOfConsole, SentinelsAreFresh DEF RestoreConsole, Core, OfHelper
<1>2. Follows(upd[u].installer, "reporting") /\ InstallerAlive(u) /\ "reporting" \notin Clear
  BY DEF RestoreConsole, Follows, InstallerAlive, Onward, Held, Clear, Moving, InPlace, BeforeTheMoves, InstallerSteps
<1>3. /\ console' \in [Consoles -> ConsoleStates]
      /\ \A c \in Consoles : console'[c] \in Serving => console[c] \in Serving /\ console'[c] = console[c]
      /\ \A c \in Consoles : console[c] \in Serving => console'[c] = console[c]
  BY <1>1, ConsolesStay, ConsoleStarts DEF RestoreConsole
<1> QED
  BY <1>1, <1>2, <1>3, PlainKeeps DEF RestoreConsole, progressVars

\* ReportHelperFailure keeps core and files of the invariant.
LEMMA ReportHelperFailureKeeps ==
  ASSUME Core, Files, NEW u \in Ids, ReportHelperFailure(u)
  PROVE  Core' /\ Files'
<1>1. Records /\ upd[u].by \in Consoles
  BY NoEventRecords, HelperIsOfConsole DEF ReportHelperFailure, Core, OfHelper
<1>2. Follows(upd[u].installer, "finishing") /\ InstallerAlive(u) /\ "finishing" \notin Clear /\ "finishing" \notin OfHelper
  BY DEF ReportHelperFailure, Follows, InstallerAlive, Onward, Held, Clear, Moving, InPlace, BeforeTheMoves, InstallerSteps, OfHelper
<1>3. Tells(u)
  BY DEF ReportHelperFailure, Tells, ProgressStates
<1> QED
  BY <1>1, <1>2, <1>3, ConsolesStay, PlainKeeps DEF ReportHelperFailure

\* Finish keeps core and files of the invariant.
LEMMA FinishKeeps ==
  ASSUME Core, Files, NEW u \in Ids, Finish(u)
  PROVE  Core' /\ Files'
<1>1. Records /\ TypeOK
  BY NoEventRecords DEF Finish, Core
<1>2. /\ Follows(upd[u].installer, "done") /\ InstallerAlive(u)
      /\ "done" \notin Clear /\ "done" \notin Held /\ "done" \notin OfHelper
  BY DEF Finish, Follows, InstallerAlive, Onward, Held, Clear, Moving, InPlace, BeforeTheMoves, InstallerSteps, OfHelper
<1>3. Runs(u, "done") /\ Gives(u, "done")
  BY <1>1, <1>2, ConsolesStay DEF Runs, Gives, Finish, SetLock, Owns, progressVars
<1>4. UNCHANGED fileVars /\ installed' \in Installs /\ backups' \in [Ids -> Installs]
  BY <1>1 DEF TypeOK, fileVars, Finish
<1> QED
  BY <1>2, <1>3, <1>4, RunsKeeps, RunsCalmly DEF Follows

\* PruneByHand keeps core and files of the invariant.
LEMMA PruneByHandKeeps ==
  ASSUME Core, Files, NEW u \in Ids, PruneByHand(u)
  PROVE  Core' /\ Files'
<1>1. Records /\ TypeOK /\ LockIsHeld /\ NoEvent
  BY NoEventRecords DEF PruneByHand, Core
<1>2. /\ Follows(upd[u].installer, "finishing") /\ InstallerAlive(u) /\ upd[u].installer \in Held
      /\ ~MovesParts(u)
      /\ "finishing" \notin Clear /\ "finishing" \notin Held /\ "finishing" \notin OfHelper /\ "finishing" \in InstallerSteps \ {"none"}
  BY DEF PruneByHand, Follows, InstallerAlive, Onward, Held, Clear, Moving, InPlace, BeforeTheMoves, InstallerSteps, OfHelper, MovesParts
<1>3. Quiet
  BY <1>1, <1>2, OneMoves DEF Quiet, MovesParts, Held, Clear
<1>4. /\ \A v \in Ids : v # u => upd'[v] = upd[v]
      /\ upd'[u].installer = "finishing" /\ upd'[u].step = upd[u].step
  BY <1>1, <1>2, InstallerIs DEF PruneByHand
<1>5. Files' /\ backups' \in [Ids -> Installs]
  <2>1. \A v \in Ids : Onward(upd[v].installer, upd'[v].installer) /\ upd'[v].step = upd[v].step
    BY <1>2, <1>4 DEF Follows, Onward
  <2>2. disturbed' = disturbed
    BY <1>1 DEF NoEvent
  <2> QED
    BY <1>3, <2>1, <2>2, PruneKeeps DEF PruneByHand
<1>6. Runs(u, "finishing") /\ Gives(u, "finishing")
  BY <1>1, <1>2, ConsolesStay DEF Runs, Gives, PruneByHand, progressVars
<1>7. installed' \in Installs
  BY <1>1 DEF PruneByHand, TypeOK
<1> QED
  BY <1>2, <1>5, <1>6, <1>7, RunsKeeps

(***************************************************************************)
(* The pruner.                                                             *)
(***************************************************************************)

\* A step of the pruner keeps the core.
LEMMA PrunerKeepsCore ==
  ASSUME Core, NEW u \in Ids, NEW s \in PrunerSteps, upd[u].pruner # "none",
         upd' = [upd EXCEPT ![u].pruner = s], NoEvent,
         UNCHANGED <<lock, console, progressVars, installed>>, backups' \in [Ids -> Installs]
  PROVE  /\ Core'
         /\ \A v \in Ids : Onward(upd[v].installer, upd'[v].installer) /\ upd'[v].step = upd[v].step
<1>1. /\ TypeOK /\ InOrder /\ Reported /\ Roles /\ LockIsHeld /\ NobodyServes
      /\ disturbed' = disturbed /\ Records
  BY NoEventRecords DEF Core, NoEvent
<1>2. /\ upd' \in [Ids -> Updates]
      /\ \A v \in Ids : v # u => upd'[v] = upd[v]
      /\ \A v \in Ids : /\ upd'[v].by = upd[v].by /\ upd'[v].hosted = upd[v].hosted
                        /\ upd'[v].prepare = upd[v].prepare /\ upd'[v].installer = upd[v].installer
                        /\ upd'[v].step = upd[v].step
  BY <1>1 DEF TypeOK, Updates
<1>3. TypeOK'
  BY <1>1, <1>2 DEF TypeOK, Records, progressVars
<1>4. InOrder'
  <2>1. \A v \in Ids : Unused(v) => v # u
    BY <1>1 DEF Unused, InOrder, NoUpdate
  <2>2. \A v \in Ids : (Unused(v)' <=> Unused(v)) /\ (Unused(v) => upd'[v] = upd[v])
    BY <1>2, <2>1 DEF Unused
  <2>3. lock # NoLock => lock.id \in Ids
    BY <1>1 DEF TypeOK, Locks
  <2> QED
    BY <1>1, <2>2, <2>3 DEF InOrder
<1>5. Reported'
  <2>1. \A d \in Consoles : progress[d].id # 0 => progress[d].id \in Ids
    BY <1>1, BoundsAreNat DEF TypeOK, Ids
  <2> QED
    BY <1>1, <1>2, <2>1 DEF Reported, Active, progressVars
<1>6. Roles' /\ LockIsHeld' /\ NobodyServes'
  BY <1>1, <1>2 DEF Roles, LockIsHeld, NobodyServes, Kind, InstallerAlive
<1> QED
  BY <1>2, <1>3, <1>4, <1>5, <1>6 DEF Core, Onward

\* PrunerWaits keeps core and files of the invariant.
LEMMA PrunerWaitsKeeps ==
  ASSUME Core, Files, NEW u \in Ids, PrunerWaits(u)
  PROVE  Core' /\ Files'
<1>1. /\ NoEvent /\ UNCHANGED <<lock, console, progressVars, installed>> /\ UNCHANGED fileVars
      /\ upd[u].pruner # "none"
      /\ backups' \in [Ids -> Installs]
  BY DEF PrunerWaits, Core, TypeOK, fileVars
<1>2. PICK s \in PrunerSteps : upd' = [upd EXCEPT ![u].pruner = s]
  BY DEF PrunerWaits, PrunerSteps
<1>3. /\ Core'
      /\ \A v \in Ids : Onward(upd[v].installer, upd'[v].installer) /\ upd'[v].step = upd[v].step
  BY <1>1, <1>2, PrunerKeepsCore
<1>4. Calm
  BY <1>1, <1>3 DEF Calm, NoEvent
<1> QED
  BY <1>3, <1>4, CalmKeeps

\* Prune keeps core and files of the invariant.
LEMMA PruneKeepsAll ==
  ASSUME Core, Files, NEW u \in Ids, Prune(u)
  PROVE  Core' /\ Files'
<1>1. /\ NoEvent /\ UNCHANGED <<lock, console, progressVars, installed>>
      /\ upd[u].pruner # "none" /\ TypeOK /\ LockIsHeld
      /\ upd' = [upd EXCEPT ![u].pruner = "done"] /\ "done" \in PrunerSteps
      /\ backups' = backups \/ (lock = NoLock /\ backups' = Pruned)
  BY DEF Prune, Core, PrunerSteps
<1>2. backups' \in [Ids -> Installs]
  BY <1>1 DEF TypeOK, Pruned, Empty, Installs
<1>3. /\ Core'
      /\ \A v \in Ids : Onward(upd[v].installer, upd'[v].installer) /\ upd'[v].step = upd[v].step
  BY <1>1, <1>2, PrunerKeepsCore
<1>4. CASE backups' = backups
  <2>1. Calm
    BY <1>1, <1>3, <1>4 DEF Calm, NoEvent, fileVars
  <2> QED
    BY <1>3, <2>1, CalmKeeps
<1>5. CASE lock = NoLock /\ backups' = Pruned
  BY <1>1, <1>3, <1>5, NobodyMovesWithoutLock, PruneKeeps DEF NoEvent
<1> QED
  BY <1>1, <1>4, <1>5

(***************************************************************************)
(* The invariant and the safety theorems.                                  *)
(***************************************************************************)

\* The inductive invariant.
IndInv == Core /\ Files

\* Before the first update there is no lock and no report.
LEMMA InitCore == Init => Core
<1> SUFFICES ASSUME Init PROVE Core
  OBVIOUS
<1>1. NoUpdate \in Updates /\ NoUpdate.by = Nobody /\ ~NoUpdate.hosted /\ NoUpdate.prepare = "none" /\ NoUpdate.installer = "none"
  BY DEF NoUpdate, Updates, PrepareSteps, InstallerSteps, PrunerSteps
<1>2. upd \in [Ids -> Updates] /\ \A u \in Ids : upd[u] = NoUpdate
  BY <1>1 DEF Init
<1>3. TypeOK
  <2>1. installed \in Installs
    BY BoundsAreNat DEF Init, WholeOf, Older, Installs, Versions
  <2>2. backups \in [Ids -> Installs]
    BY DEF Init, Installs
  <2>3. console \in [Consoles -> ConsoleStates] /\ fresh \in [Consoles -> BOOLEAN] /\ loser \in [Consoles -> BOOLEAN]
    BY DEF Init, ConsoleStates
  <2>4. progress \in [Consoles -> [state : ProgressStates, id : 0..MaxUpdates]]
    BY BoundsAreNat DEF Init, ProgressStates
  <2> QED
    BY <1>2, <2>1, <2>2, <2>3, <2>4, BoundsAreNat DEF Init, TypeOK
<1>4. InOrder
  BY <1>1, <1>2 DEF Init, InOrder, Unused
<1>5. Reported
  BY DEF Init, Reported, Active
<1>6. Roles
  BY <1>1, <1>2, SentinelsAreFresh DEF Roles, Preparing, InstallerAlive
<1>7. LockIsHeld /\ NobodyServes
  BY <1>1, <1>2 DEF LockIsHeld, NobodyServes, Held, Clear, Moving
<1> QED
  BY <1>3, <1>4, <1>5, <1>6, <1>7 DEF Core

\* Before the first update the older installation stands.
LEMMA InitFiles == Init => Files
<1> SUFFICES ASSUME Init PROVE Files
  OBVIOUS
<1>1. \A u \in Ids : upd[u].installer = "none" /\ upd[u].step = 0 /\ backups[u] = Empty
  BY DEF Init, NoUpdate, Empty
<1>2. \A u \in Ids : ~MovesParts(u)
  BY <1>1 DEF MovesParts, Moving
<1>3. /\ installed \in Whole
      /\ \A p \in Parts : installed[p] \in {0, Missing}
      /\ installed[Program] = 0
  BY BoundsAreNat DEF Init, Whole, WholeOf, Older, Versions, Program, Parts, Helper, Script
<1>4. \A u \in Ids : u # 0 /\ u # Missing /\ u > 0
  BY SentinelsAreFresh DEF Ids, Versions
<1>5. Unmoved
  BY <1>1, <1>3, <1>4 DEF Unmoved, Empty
<1>6. HalfMoved
  BY <1>2 DEF HalfMoved
<1>7. Safe
  BY <1>1, <1>2, <1>3, <1>4 DEF Safe, Stands
<1>8. NewIsWhole
  BY <1>2, <1>3, <1>4 DEF NewIsWhole, Fresh
<1> QED
  BY <1>5, <1>6, <1>7, <1>8 DEF Files

\* Every step keeps the invariant: one case per action.
LEMMA StepKeeps == IndInv /\ [Next]_vars => IndInv'
<1> SUFFICES ASSUME Core, Files, [Next]_vars PROVE Core' /\ Files'
  BY DEF IndInv
<1>1. ASSUME NEW c \in Consoles, ConsoleStep(c) \/ Environment(c) \/ ReadProgress(c)
      PROVE  Core' /\ Files'
  BY <1>1, GateKeeps, ExitsKeep, ReportsLossKeeps, LaunchKeeps, ClosesTabKeeps, GrowsOldKeeps,
     MeetsLockKeeps, ReadProgressKeeps DEF ConsoleStep, Environment
<1>2. ASSUME NEW c \in Consoles, NEW u \in Ids, Begin(c, u)
      PROVE  Core' /\ Files'
  BY <1>2, BeginKeeps
<1>3. ASSUME NEW u \in Ids, PrepareStep(u)
      PROVE  Core' /\ Files'
  <2>1. CheckRelease(u) \/ Download(u) \/ Validate(u) => Core' /\ Files'
    BY StageKeepsCore DEF CheckRelease, Download, Validate, Preparing
  <2> QED
    BY <1>3, <2>1, LookForOthersKeeps, StartHelperKeeps, SeeHandoffKeeps, MissHandoffKeeps,
       ScheduleShutdownKeeps, ReportFailureKeeps, TerminateHelperKeeps, ReleaseOwnLockKeeps DEF PrepareStep
<1>4. ASSUME NEW u \in Ids, InstallerStep(u)
      PROVE  Core' /\ Files'
  BY <1>4, TakeLockKeeps, SeeExitsKeeps, ExitTimeoutKeeps, EnterScriptKeeps, CheckPackageKeeps,
     SaveDatabasesKeeps, StagePartsKeeps, MovePartKeepsAll, MoveFailsKeeps, EndMovesKeepsAll,
     RollBackKeepsAll, EndRollBackKeeps, ReleaseForLaunchKeeps, StartConsoleKeeps, HealthyKeeps,
     HealthTimeoutKeeps, ReleaseInCatchKeeps, RestoreConsoleKeeps, ReportHelperFailureKeeps,
     FinishKeeps DEF InstallerStep
<1>5. ASSUME NEW u \in Ids, BeginManual(u) \/ PruneByHand(u) \/ PrunerWaits(u) \/ Prune(u) \/ InstallerDies(u)
      PROVE  Core' /\ Files'
  BY <1>5, BeginManualKeeps, PruneByHandKeeps, PrunerWaitsKeeps, PruneKeepsAll, InstallerDiesKeeps
<1>6. CASE UNCHANGED vars
  <2>1. /\ lock' = lock /\ upd' = upd /\ console' = console /\ progress' = progress /\ fresh' = fresh
        /\ loser' = loser /\ installed' = installed /\ backups' = backups /\ disturbed' = disturbed
        /\ events' = events
    BY <1>6 DEF vars
  <2>2. Records /\ Reported' /\ TypeOK
    BY <2>1, ReportedStays DEF Core, Records, TypeOK
  <2> QED
    BY <2>1, <2>2, ConsoleMoveKeeps DEF TypeOK, fileVars
<1> QED
  BY <1>1, <1>2, <1>3, <1>4, <1>5, <1>6 DEF Next

\* The invariant holds in every behaviour.
LEMMA Invariant == Spec => []IndInv
<1>1. Init => IndInv
  BY InitCore, InitFiles DEF IndInv
<1> QED
  BY <1>1, StepKeeps, PTL DEF Spec

\* The variables of AppUpdate have their types in every behaviour, for any
\* consoles, any number of updates and of events.
THEOREM TypeCorrect == Spec => []TypeOK
<1>1. IndInv => TypeOK
  BY DEF IndInv, Core
<1> QED
  BY <1>1, Invariant, PTL

\* While an installer replaces or puts back the parts (upgrade-
\* portable.ps1:948) no console runs past its launch gate (__main__.py:35),
\* and no other installer moves parts.
THEOREM NoConsoleWhileMovingAlways == Spec => []NoConsoleWhileMoving
<1>1. IndInv => NoConsoleWhileMoving
  <2> SUFFICES ASSUME IndInv, NEW u \in Ids, MovesParts(u)
               PROVE  /\ \A c \in Consoles : console[c] \notin {"running", "held", "leaving"}
                      /\ \A v \in Ids : MovesParts(v) => v = u
    BY DEF NoConsoleWhileMoving
  <2>1. upd[u].installer \in Clear /\ upd[u].installer \in Held
    BY DEF MovesParts, Clear, Held
  <2> QED
    BY <2>1, OneMoves DEF IndInv, Core, NobodyServes, Serving, MovesParts, Held, Clear
<1> QED
  BY <1>1, Invariant, PTL

\* Whenever nobody moves parts the installation is one package as a whole,
\* whatever step of whatever update failed (upgrade-portable.ps1:948), unless
\* an installer was killed between two moves or its way back failed.
THEOREM InstalledIsWholeAlways == Spec => []InstalledIsWhole
<1>1. IndInv => InstalledIsWhole
  BY DEF IndInv, Files, Safe, Stands, Quiet, InstalledIsWhole
<1> QED
  BY <1>1, Invariant, PTL

\* The installation that the last update replaced stays whole in its backup,
\* whatever later updates failed and whenever old backups were cleaned up
\* (upgrade-portable.ps1:707).
THEOREM PreviousIsKeptAlways == Spec => []PreviousIsKept
<1>1. IndInv => PreviousIsKept
  BY DEF IndInv, Files, Safe, Stands, Quiet, PreviousIsKept
<1> QED
  BY <1>1, Invariant, PTL

(***************************************************************************)
(* What is reported: action properties.                                    *)
(***************************************************************************)

\* What a step tells: nothing, or a state of an update it brings further.
Speaks ==
  /\ \A v \in Ids : upd'[v].by = upd[v].by \/ Unused(v)
  /\ \A d \in Consoles :
       progress'[d] = progress[d] \/ (progress'[d].state # "completed" /\ upd' # upd)

\* A report below completed completes nothing.
LEMMA PublishSpeaks ==
  ASSUME TypeOK, NEW c, NEW s \in ProgressStates \ {"completed"}, NEW u, Publish(c, s, u)
  PROVE  \A d \in Consoles : progress'[d] = progress[d] \/ progress'[d].state # "completed"
  BY DEF TypeOK, Publish

\* A new prepare step changes the updates and no owner.
LEMMA PrepareChanges ==
  ASSUME TypeOK, NEW u \in Ids, NEW s \in PrepareSteps, Prepare(u, s), upd[u].prepare # s
  PROVE  upd' # upd /\ \A v \in Ids : upd'[v].by = upd[v].by
  BY PrepareIs

\* A new point of the installer changes the updates and no owner.
LEMMA InstallerChanges ==
  ASSUME TypeOK, NEW u \in Ids, NEW s \in InstallerSteps, Installer(u, s), upd[u].installer # s
  PROVE  upd' # upd /\ \A v \in Ids : upd'[v].by = upd[v].by
  BY InstallerIs

\* Who is silent satisfies Speaks.
LEMMA SilentSpeaks ==
  ASSUME progress' = progress, \A v \in Ids : upd'[v].by = upd[v].by
  PROVE  Speaks
  BY DEF Speaks

\* prepare() speaks of what it brings further.
LEMMA PrepareSpeaks ==
  ASSUME Core, NEW u \in Ids, PrepareStep(u)
  PROVE  Speaks
<1>1. TypeOK
  BY DEF Core
<1>2. CASE LookForOthers(u)
  <2>1. upd' # upd /\ \A v \in Ids : upd'[v].by = upd[v].by
    BY <1>1, <1>2, PrepareChanges DEF LookForOthers, PrepareSteps
  <2> QED
    BY <1>1, <1>2, <2>1, PublishSpeaks DEF LookForOthers, Speaks, ProgressStates
<1>3. ASSUME NEW from \in Preparing, NEW to \in Preparing, from # to, Stage(u, from, to)
      PROVE  Speaks
  <2>1. upd' # upd /\ \A v \in Ids : upd'[v].by = upd[v].by
    BY <1>1, <1>3, PrepareChanges DEF Stage, PrepareSteps, Preparing
  <2>2. progress' = progress \/ Publish(upd[u].by, "preparing", u)
    BY <1>3 DEF Stage
  <2> QED
    BY <1>1, <2>1, <2>2, PublishSpeaks DEF Speaks, ProgressStates
<1>4. CASE StartHelper(u)
  <2>1. CASE Prepare(u, "failing") /\ UNCHANGED <<progress, fresh>>
    BY <1>1, <1>4, <2>1, PrepareChanges, SilentSpeaks DEF StartHelper, PrepareSteps
  <2>2. CASE /\ upd' = [upd EXCEPT ![u].prepare = "handing", ![u].installer = "new"]
             /\ Publish(upd[u].by, "preparing", u)
    <3>1. upd' # upd /\ \A v \in Ids : upd'[v].by = upd[v].by
      BY <1>1, <1>4, <2>2 DEF TypeOK, Updates, StartHelper
    <3> QED
      BY <1>1, <2>2, <3>1, PublishSpeaks DEF Speaks, ProgressStates
  <2> QED
    BY <1>4, <2>1, <2>2 DEF StartHelper
<1>5. CASE SeeHandoff(u) \/ ReportFailure(u)
  <2>1. upd' # upd /\ \A v \in Ids : upd'[v].by = upd[v].by
    BY <1>1, <1>5, PrepareChanges DEF SeeHandoff, ReportFailure, PrepareSteps
  <2>2. PICK s \in {"preparing", "failed"} : Publish(upd[u].by, s, u)
    BY <1>5 DEF SeeHandoff, ReportFailure
  <2> QED
    BY <1>1, <2>1, <2>2, PublishSpeaks DEF Speaks, ProgressStates
<1>6. CASE MissHandoff(u) \/ ScheduleShutdown(u) \/ ReleaseOwnLock(u)
  <2>1. \A v \in Ids : upd'[v].by = upd[v].by
    BY <1>1, <1>6, PrepareIs DEF MissHandoff, ScheduleShutdown, ReleaseOwnLock, PrepareSteps
  <2> QED
    BY <1>6, <2>1, SilentSpeaks DEF MissHandoff, ScheduleShutdown, ReleaseOwnLock, progressVars
<1>7. CASE TerminateHelper(u)
  <2>1. ASSUME Prepare(u, "done")
        PROVE  \A v \in Ids : upd'[v].by = upd[v].by
    <3>1. "done" \in PrepareSteps
      BY DEF PrepareSteps
    <3>2. /\ \A v \in Ids : v # u => upd'[v] = upd[v]
          /\ upd'[u].by = upd[u].by
      BY <1>1, <2>1, <3>1, PrepareIs
    <3> QED
      BY <3>2
  <2>2. ASSUME ~Prepare(u, "done")
        PROVE  \A v \in Ids : upd'[v].by = upd[v].by
    <3>1. PICK i : upd' = [upd EXCEPT ![u].prepare = "releasing", ![u].installer = i]
      BY <1>7, <2>2 DEF TerminateHelper
    <3> QED
      BY <1>1, <3>1 DEF TypeOK, Updates
  <2>3. \A v \in Ids : upd'[v].by = upd[v].by
    BY <2>1, <2>2
  <2> QED
    BY <1>7, <2>3, SilentSpeaks DEF TerminateHelper, progressVars
<1> QED
  BY <1>2, <1>3, <1>4, <1>5, <1>6, <1>7 DEF PrepareStep, CheckRelease, Download, Validate, Preparing

\* So does an installer, but for the message that all is healthy.
LEMMA InstallerSpeaks ==
  ASSUME Core, NEW u \in Ids, InstallerStep(u) \/ InstallerDies(u) \/ PruneByHand(u), ~Healthy(u)
  PROVE  Speaks
<1>1. TypeOK /\ AfterError(u) \in InstallerSteps
  BY AfterErrorIs DEF Core, InstallerSteps
<1>2. CASE TakeLock(u) \/ SeeExits(u) \/ ReleaseForLaunch(u) \/ ReportHelperFailure(u)
  <2>1. upd' # upd /\ \A v \in Ids : upd'[v].by = upd[v].by
    BY <1>1, <1>2, InstallerChanges DEF TakeLock, SeeExits, ReleaseForLaunch, ReportHelperFailure, InstallerSteps
  <2>2. progress' = progress \/ \E s \in {"applying", "failed"} : Publish(upd[u].by, s, u)
    BY <1>2 DEF TakeLock, SeeExits, ReleaseForLaunch, ReportHelperFailure
  <2> QED
    BY <1>1, <2>1, <2>2, PublishSpeaks DEF Speaks, ProgressStates
<1>3. CASE ExitTimeout(u) \/ EnterScript(u) \/ CheckPackage(u) \/ SaveDatabases(u) \/ StageParts(u)
           \/ MoveFails(u) \/ EndRollBack(u)
  <2>1. PICK s \in InstallerSteps : Installer(u, s)
    BY <1>1, <1>3 DEF ExitTimeout, EnterScript, CheckPackage, SaveDatabases, StageParts, BeforeMoves,
       MoveFails, EndRollBack, InstallerSteps, Moving
  <2>2. progress' = progress
    BY <1>3 DEF ExitTimeout, EnterScript, CheckPackage, SaveDatabases, StageParts, BeforeMoves,
       MoveFails, EndRollBack, progressVars
  <2> QED
    BY <1>1, <2>1, <2>2, InstallerIs, SilentSpeaks
<1>4. CASE StartConsole(u) \/ HealthTimeout(u) \/ ReleaseInCatch(u) \/ RestoreConsole(u) \/ Finish(u)
           \/ InstallerDies(u) \/ PruneByHand(u)
  <2>1. PICK s \in InstallerSteps : Installer(u, s)
    BY <1>4 DEF StartConsole, HealthTimeout, ReleaseInCatch, RestoreConsole, Finish, InstallerDies,
       PruneByHand, InstallerSteps, Moving
  <2>2. progress' = progress
    BY <1>4 DEF StartConsole, HealthTimeout, ReleaseInCatch, RestoreConsole, Finish, InstallerDies,
       PruneByHand, progressVars
  <2> QED
    BY <1>1, <2>1, <2>2, InstallerIs, SilentSpeaks
<1>5. CASE MovePart(u) \/ EndMoves(u) \/ RollBack(u)
  <2>1. \A v \in Ids : upd'[v].by = upd[v].by
    BY <1>1, <1>5 DEF MovePart, EndMoves, RollBack, TypeOK, Updates
  <2> QED
    BY <1>5, <2>1, SilentSpeaks DEF MovePart, EndMoves, RollBack, progressVars
<1> QED
  BY <1>2, <1>3, <1>4, <1>5 DEF InstallerStep

\* So does every step but reading the progress, the loss and the health
\* check.
LEMMA OthersSpeak ==
  ASSUME Core, [Next]_vars,
         \A c \in Consoles : ~ReadProgress(c) /\ ~ReportsLoss(c),
         \A u \in Ids : ~Healthy(u)
  PROVE  Speaks
<1>1. TypeOK /\ InOrder
  BY DEF Core
<1>2. ASSUME NEW c \in Consoles, ConsoleStep(c) \/ Environment(c)
      PROVE  Speaks
  <2>1. CASE EndOf(c)
    BY <1>1, <2>1, EndOfIs, SilentSpeaks DEF EndOf
  <2>2. CASE Gate(c) \/ Launch(c) \/ ClosesTab(c) \/ GrowsOld(c) \/ MeetsLock(c)
    BY <2>2, SilentSpeaks DEF Gate, Launch, ClosesTab, GrowsOld, MeetsLock, lockVars, progressVars
  <2> QED
    BY <1>2, <2>1, <2>2 DEF ConsoleStep, Environment, RefusedExits, Leaves, Dies
<1>3. ASSUME NEW u \in Ids, NEW c \in Consoles, Begin(c, u) \/ BeginManual(u)
      PROVE  Speaks
  <2>1. \A v \in Ids : v # u => upd'[v].by = upd[v].by
    BY <1>1, <1>3 DEF Begin, BeginManual, TypeOK
  <2>2. Unused(u) /\ progress' = progress
    BY <1>3 DEF Begin, BeginManual, NextId, Unused, progressVars
  <2> QED
    BY <2>1, <2>2 DEF Speaks
<1>4. ASSUME NEW u \in Ids, BeginManual(u)
      PROVE  Speaks
  <2>1. \A v \in Ids : v # u => upd'[v].by = upd[v].by
    BY <1>1, <1>4 DEF BeginManual, TypeOK
  <2>2. Unused(u) /\ progress' = progress
    BY <1>4 DEF BeginManual, NextId, Unused, progressVars
  <2> QED
    BY <2>1, <2>2 DEF Speaks
<1>5. ASSUME NEW u \in Ids, PrunerWaits(u) \/ Prune(u)
      PROVE  Speaks
  <2>1. \A v \in Ids : upd'[v].by = upd[v].by
    BY <1>1, <1>5 DEF PrunerWaits, Prune, TypeOK, Updates
  <2> QED
    BY <1>5, <2>1, SilentSpeaks DEF PrunerWaits, Prune, progressVars
<1>6. CASE UNCHANGED vars
  BY <1>6, SilentSpeaks DEF vars
<1> QED
  BY <1>2, <1>3, <1>4, <1>5, <1>6, PrepareSpeaks, InstallerSpeaks DEF Next, ConsoleStep

\* Nobody goes on with an update that a step reports as interrupted.
LEMMA InterruptionIsOver ==
  ASSUME IndInv, [Next]_vars, NEW c \in Consoles, Interrupts(c)
  PROVE  ~GoesOn(progress[c].id)
<1>1. Core /\ TypeOK /\ Reported
  BY DEF IndInv, Core
<1>2. /\ progress[c].state \in Active /\ ~fresh[c]
      /\ progress'[c] = [progress[c] EXCEPT !.state = "failed"] /\ upd' = upd
  BY DEF Interrupts
<1>3. progress'[c].id = progress[c].id /\ progress'[c].state = "failed" /\ progress'[c] # progress[c]
      /\ progress[c].id # 0 /\ progress[c].id \in Ids
  <2>1. progress[c] \in [state : ProgressStates, id : 0..MaxUpdates]
    BY <1>1 DEF TypeOK
  <2>2. progress'[c].id = progress[c].id /\ progress'[c].state = "failed"
    BY <1>2, <2>1
  <2>3. progress[c].id # 0
    BY <1>1, <1>2 DEF Reported
  <2> QED
    BY <1>2, <2>1, <2>2, <2>3, BoundsAreNat DEF Active, Ids
<1>4. \A u \in Ids : ~Healthy(u)
  <2> SUFFICES ASSUME NEW u \in Ids, Healthy(u) PROVE FALSE
    OBVIOUS
  <2> QED
    BY <1>1, <1>2, InstallerChanges DEF Healthy, InstallerSteps
<1>5. \A d \in Consoles : ~ReportsLoss(d)
  <2> SUFFICES ASSUME NEW d \in Consoles, ReportsLoss(d) PROVE FALSE
    OBVIOUS
  <2>1. progress' = [progress EXCEPT ![d] = [state |-> "failed", id |-> 0]]
    BY DEF ReportsLoss, Publish
  <2>2. progress'[c] = progress[c] \/ progress'[c].id = 0
    BY <1>1, <2>1 DEF TypeOK
  <2> QED
    BY <1>3, <2>2
<1>6. PICK d \in Consoles : ReadProgress(d)
  BY <1>1, <1>2, <1>3, <1>4, <1>5, OthersSpeak DEF Speaks
<1>7. ~InProgress
  <2>1. progress' # progress
    BY <1>3
  <2> QED
    BY <1>6, <2>1 DEF ReadProgress, Abandoned
<1>8. /\ upd[progress[c].id].installer \notin Held
      /\ upd[progress[c].id].prepare \notin Preparing
  BY <1>1, <1>3, <1>7, WorkIsInProgress
<1>9. upd[progress[c].id].installer \notin {"launching", "health"}
  BY <1>1, <1>2 DEF Reported
<1> QED
  BY <1>8, <1>9 DEF GoesOn, Held, Clear, Preparing

\* When _read_progress reports an update as interrupted
\* (application_updates.py:253), neither prepare() nor the helper can bring
\* it any further.
THEOREM InterruptedIsOverAlways == Spec => InterruptedIsOver
<1>1. IndInv /\ [Next]_vars => [\A c \in Consoles : Interrupts(c) => ~GoesOn(progress[c].id)]_vars
  BY InterruptionIsOver
<1> QED
  BY <1>1, Invariant, PTL DEF Spec, InterruptedIsOver

\* Only the health check completes an update, with the package in place.
LEMMA CompletionRuns ==
  ASSUME IndInv, [Next]_vars, NEW u \in Ids, ~Completed(u), Completed(u)'
  PROVE  console[upd[u].by] = "running" /\ installed = WholeOf(u)
<1>1. Core /\ TypeOK /\ Reported /\ NobodyServes /\ NewIsWhole
  BY DEF IndInv, Core, Files
<1> DEFINE c == upd'[u].by
<1>2. c \in Consoles /\ progress'[c] = [state |-> "completed", id |-> u]
  BY DEF Completed
<1>3. progress'[c].state = "completed" /\ progress'[c].id = u /\ u # 0
  BY <1>2 DEF Ids
<1> HIDE DEF c
<1>4. ASSUME Speaks PROVE FALSE
  <2>1. progress[c] = [state |-> "completed", id |-> u]
    BY <1>2, <1>3, <1>4 DEF Speaks
  <2>2. progress[c].id = u
    BY <2>1
  <2>3. upd[u].by = c
    BY <1>1, <1>2, <1>3, <2>2 DEF Reported
  <2> QED
    BY <1>2, <2>1, <2>3 DEF Completed
<1>5. ASSUME NEW d \in Consoles, ReadProgress(d) \/ ReportsLoss(d) PROVE FALSE
  <2>1. \A e \in Consoles : progress'[e] = progress[e] \/ progress'[e].state # "completed"
    BY <1>1, <1>5, PublishSpeaks DEF ReadProgress, ReportsLoss, ProgressStates
  <2>2. upd' = upd
    BY <1>5 DEF ReadProgress, ReportsLoss, lockVars
  <2>3. progress[c] = [state |-> "completed", id |-> u]
    BY <1>2, <1>3, <2>1
  <2> QED
    BY <1>2, <2>2, <2>3 DEF Completed, c
<1>6. PICK v \in Ids : Healthy(v)
  BY <1>1, <1>4, <1>5, OthersSpeak
<1>7. /\ upd[v].installer = "health" /\ console[upd[v].by] = "running" /\ installed[Program] = v
      /\ progress' = [progress EXCEPT ![upd[v].by] = [state |-> "completed", id |-> v]]
      /\ upd'[u].by = upd[u].by /\ upd[v].by \in Consoles
  BY <1>1, <1>6, InstallerChanges, HelperIsOfConsole DEF Healthy, Publish, InstallerSteps, OfHelper
<1>8. u = v
  <2>1. c = upd[u].by
    BY <1>7 DEF c
  <2>2. progress'[c] # progress[c]
    BY <1>2, <2>1 DEF Completed
  <2>3. c = upd[v].by
    BY <1>1, <1>2, <1>7, <2>2 DEF TypeOK
  <2>4. progress'[c] = [state |-> "completed", id |-> v]
    BY <1>1, <1>2, <1>7, <2>3 DEF TypeOK
  <2> QED
    BY <1>3, <2>4
<1>9. Quiet
  BY <1>1, <1>7 DEF Quiet, NobodyServes, MovesParts, Clear, Serving
<1> QED
  BY <1>1, <1>7, <1>8, <1>9 DEF NewIsWhole, Fresh, InPlace

\* An update is reported as completed (apply-downloaded-update.ps1:460) only
\* with its console running and its whole package in place.
THEOREM CompletedRunsAlways == Spec => CompletedRuns
<1>1. IndInv /\ [Next]_vars =>
        [\A u \in Ids : ~Completed(u) /\ Completed(u)' =>
           /\ console[upd[u].by] = "running"
           /\ installed = WholeOf(u)]_vars
  BY CompletionRuns
<1> QED
  BY <1>1, Invariant, PTL DEF Spec, CompletedRuns
=============================================================================
