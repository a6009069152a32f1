------------------------------ MODULE Instances ------------------------------
(***************************************************************************)
(* Several consoles on one machine, each with its own data directory, and  *)
(* the registry that keeps the servers they manage apart (instances.py,    *)
(* ServerProfileService of config.py, PUT /api/server/settings).           *)
(*                                                                         *)
(* A console saves which server it manages in its own database: the        *)
(* profile (executable and world), the executable again and the launch     *)
(* arguments, in three transactions.  Before that it claims the target in  *)
(* the registry, a file shared by all consoles.  Whoever uses the profile  *)
(* makes sure that the claim still stands and renews it.  Requests and     *)
(* operations do so under the control lock of their console; the monitor,  *)
(* the snapshot service and the pages that only read do so without it.     *)
(*                                                                         *)
(* A console has one thread here that holds its control lock and one that  *)
(* reads without it.  A target is an executable and one of the worlds      *)
(* below its directory, so two targets share a world only if they share    *)
(* the executable.                                                         *)
(***************************************************************************)
EXTENDS Naturals

CONSTANTS
  Consoles,   \* instances, each with a data directory and a control lock
  Targets,    \* an executable with one of its worlds
  Installs,   \* executables
  Install,    \* the executable of a target
  Ports,      \* game and query ports
  Arguments,  \* launch arguments, as the ports they select
  None,       \* no profile, no claim
  MaxEvents   \* saves, crashes and failed writes

ASSUME InstanceAssumption ==
  /\ Install \in [Targets -> Installs]
  /\ Arguments \subseteq SUBSET Ports /\ Arguments # {}
  /\ None \notin Targets \union Installs
  /\ MaxEvents \in Nat

(* A claim of an older version has no ports. *)
Claims == [target : Targets, ports : Arguments \union {{}}]
Roles == {"control", "reader"}
Threads == Consoles \X Roles

ASSUME NoneIsFresh == None \notin Claims

(* Where a thread can be: a save (claim, save, executable, arguments), one   *)
(* for an executable without a world (clear, release, then the same), or a   *)
(* use of the profile, which for the reader begins with the row.             *)
SaveSteps == {"save", "executable", "arguments", "clear", "release"}
Steps == {"idle", "claim", "row", "matched", "use", "acting"} \union SaveSteps
Works == [step : Steps, target : Targets \union {None}, ports : Arguments]

VARIABLES
  claims,   \* instances/targets.json
  inside,   \* the threads inside the registry lock
  seen,     \* the claims that a thread inside has read
  row,      \* server_profiles, in the database of each console
  setting,  \* its setting server.executable
  args,     \* its setting server.arguments
  work,     \* where each thread is, and the target and ports it carries
  loose,    \* the profile may be unclaimed: a save was cut short, or precedes the registry
  events    \* saves, crashes and failures so far

database == <<row, setting, args>>
registry == <<claims, inside, seen>>
vars == <<registry, database, work, loose, events>>

Idle == [step |-> "idle", target |-> None, ports |-> CHOOSE p \in Arguments : TRUE]
Control(c) == <<c, "control">>
Reader(c) == <<c, "reader">>
Registries == [Consoles -> Claims \union {None}]
Nothing == [c \in Consoles |-> None]

Profile(t) == IF t = None THEN None ELSE Install[t]

(* _claim_locked: two claims that cannot both stand. *)
Overlap(a, b) == Install[a.target] = Install[b.target] \/ a.ports \intersect b.ports # {}

Exclusive(r) ==
  \A c, d \in Consoles : c # d /\ r[c] # None /\ r[d] # None => ~Overlap(r[c], r[d])

Owns(r, c, t) == r[c] # None /\ r[c].target = t

(* A profile may be older than the registry, and a claim older than its ports. *)
Init ==
  /\ inside = {}
  /\ seen = [h \in Threads |-> Nothing]
  /\ row \in [Consoles -> Targets \union {None}]
  /\ setting = [c \in Consoles |-> Profile(row[c])]
  /\ args \in [Consoles -> Arguments]
  /\ claims \in {r \in Registries : Exclusive(r)}
  /\ \A c \in Consoles : claims[c] # None => claims[c].target = row[c]
  /\ work = [h \in Threads |-> Idle]
  /\ loose = [c \in Consoles |-> ~Owns(claims, c, row[c])]
  /\ events = 0

Goes(h, step) == work' = [work EXCEPT ![h].step = step]
Rests(h) == work' = [work EXCEPT ![h] = Idle]

-----------------------------------------------------------------------------
(* The registry. *)

(* Mutant: the lock of one console does not keep the others out. *)
LockFreeHere(h) == \A g \in inside : g[1] # h[1]

LockFree(h) == inside = {}

ReadClaims(h) ==
  /\ work[h].step \in {"claim", "use", "release"} /\ h \notin inside
  /\ LockFree(h)
  /\ inside' = inside \union {h}
  /\ seen' = [seen EXCEPT ![h] = claims]
  /\ UNCHANGED <<claims, database, work, loose, events>>

Unlock(h) ==
  /\ inside' = inside \ {h}
  /\ seen' = [seen EXCEPT ![h] = Nothing]

Claim(h) == [target |-> work[h].target, ports |-> work[h].ports]

(* Nobody else has a claim that is in the way. *)
Unclaimed(h) ==
  \A d \in Consoles \ {h[1]} : seen[h][d] # None => ~Overlap(seen[h][d], Claim(h))

(* Mutant: the target of the claim is not compared with the profile. *)
OwnedByName(h) == Unclaimed(h)

(* ensure_owned: a claim for another target is not taken over. *)
StillOwned(h) ==
  /\ seen[h][h[1]] # None => seen[h][h[1]].target = work[h].target
  /\ Unclaimed(h)

Granted(h) == IF work[h].step = "claim" THEN Unclaimed(h) ELSE StillOwned(h)

WriteClaims(h) ==
  /\ h \in inside /\ work[h].step \in {"claim", "use"} /\ Granted(h)
  /\ claims' = [seen[h] EXCEPT ![h[1]] = Claim(h)]
  /\ Unlock(h)
  /\ \/ work[h].step = "claim" /\ Goes(h, "save")
     \/ work[h].step = "use" /\ h = Control(h[1]) /\ Goes(h, "acting")
     \/ work[h].step = "use" /\ h = Reader(h[1]) /\ Rests(h)
  /\ UNCHANGED <<database, loose, events>>

(* The request, the operation or the page is refused. *)
Refuse(h) ==
  /\ h \in inside /\ work[h].step \in {"claim", "use"} /\ ~Granted(h)
  /\ Unlock(h)
  /\ Rests(h)
  /\ UNCHANGED <<claims, database, loose, events>>

Release(h) ==
  /\ h \in inside /\ work[h].step = "release"
  /\ claims' = [seen[h] EXCEPT ![h[1]] = None]
  /\ Unlock(h)
  /\ Goes(h, "executable")
  /\ UNCHANGED <<database, loose, events>>

-----------------------------------------------------------------------------
Event == events < MaxEvents /\ events' = events + 1

(* PUT /api/server/settings, under the control lock. *)

Free(c) == work[Control(c)].step = "idle"

(* A world is named, or taken from the profile. *)
SaveTarget(c, t, p) ==
  /\ Free(c)
  /\ Event
  /\ work' = [work EXCEPT ![Control(c)] = [step |-> "claim", target |-> t, ports |-> p]]
  /\ UNCHANGED <<registry, database, loose>>

SaveProfile(c) ==
  /\ work[Control(c)].step = "save"
  /\ row' = [row EXCEPT ![c] = work[Control(c)].target]
  /\ Goes(Control(c), "executable")
  /\ UNCHANGED <<registry, setting, args, loose, events>>

(* An executable is named that has no world yet: clear. *)
SaveBare(c, p) ==
  /\ Free(c)
  /\ Event
  /\ work' = [work EXCEPT ![Control(c)] = [step |-> "clear", target |-> None, ports |-> p]]
  /\ UNCHANGED <<registry, database, loose>>

ClearProfile(c) ==
  /\ work[Control(c)].step = "clear"
  /\ row' = [row EXCEPT ![c] = None]
  /\ Goes(Control(c), "release")
  /\ UNCHANGED <<registry, setting, args, loose, events>>

SaveExecutable(c) ==
  /\ work[Control(c)].step = "executable"
  /\ setting' = [setting EXCEPT ![c] = Profile(work[Control(c)].target)]
  /\ Goes(Control(c), "arguments")
  /\ UNCHANGED <<registry, row, args, loose, events>>

SaveArguments(c) ==
  /\ work[Control(c)].step = "arguments"
  /\ args' = [args EXCEPT ![c] = work[Control(c)].ports]
  /\ loose' = [loose EXCEPT ![c] = FALSE]
  /\ Rests(Control(c))
  /\ UNCHANGED <<registry, row, setting, events>>

-----------------------------------------------------------------------------
(* The uses of the profile. *)

(* An operation, a restore or an apply of the configuration, under the lock. *)
UseProfile(c) ==
  /\ Free(c)
  /\ row[c] # None /\ setting[c] = Install[row[c]]
  /\ work' = [work EXCEPT ![Control(c)] =
                [step |-> "use", target |-> row[c], ports |-> args[c]]]
  /\ UNCHANGED <<registry, database, loose, events>>

EndUse(c) ==
  /\ work[Control(c)].step = "acting"
  /\ Rests(Control(c))
  /\ UNCHANGED <<registry, database, loose, events>>

(* The same without the lock: the database may change between the readings. *)
ReadRow(c) ==
  /\ work[Reader(c)].step = "idle" /\ row[c] # None
  /\ work' = [work EXCEPT ![Reader(c)] = [Idle EXCEPT !.step = "row", !.target = row[c]]]
  /\ UNCHANGED <<registry, database, loose, events>>

ReadSetting(c) ==
  /\ work[Reader(c)].step = "row"
  /\ IF setting[c] = Install[work[Reader(c)].target] THEN Goes(Reader(c), "matched")
                                                     ELSE Rests(Reader(c))
  /\ UNCHANGED <<registry, database, loose, events>>

ReadArguments(c) ==
  /\ work[Reader(c)].step = "matched"
  /\ work' = [work EXCEPT ![Reader(c)].step = "use", ![Reader(c)].ports = args[c]]
  /\ UNCHANGED <<registry, database, loose, events>>

-----------------------------------------------------------------------------
(* Failures. *)

(* From here on a save that ends leaves the profile and the claim apart. *)
CutShort(c) == IF work[Control(c)].step \in SaveSteps \ {"clear"} THEN TRUE ELSE loose[c]

(* A database or the registry cannot be written. *)
Fails(h) ==
  /\ \/ h \in inside
     \/ h \notin inside /\ work[h].step \in {"save", "executable", "arguments", "clear"}
  /\ Event
  /\ loose' = [loose EXCEPT ![h[1]] = IF h = Control(h[1]) THEN CutShort(h[1]) ELSE @]
  /\ Unlock(h)
  /\ Rests(h)
  /\ UNCHANGED <<claims, database>>

(* The console ends; the operating system takes its locks back. *)
Crash(c) ==
  /\ \E r \in Roles : work[<<c, r>>].step # "idle"
  /\ Event
  /\ loose' = [loose EXCEPT ![c] = CutShort(c)]
  /\ inside' = {h \in inside : h[1] # c}
  /\ seen' = [h \in Threads |-> IF h[1] = c THEN Nothing ELSE seen[h]]
  /\ work' = [h \in Threads |-> IF h[1] = c THEN Idle ELSE work[h]]
  /\ UNCHANGED <<claims, database>>

Next ==
  \/ \E h \in Threads : ReadClaims(h) \/ WriteClaims(h) \/ Refuse(h) \/ Release(h) \/ Fails(h)
  \/ \E c \in Consoles, t \in Targets, p \in Arguments : SaveTarget(c, t, p)
  \/ \E c \in Consoles, p \in Arguments : SaveBare(c, p)
  \/ \E c \in Consoles :
       \/ SaveProfile(c) \/ ClearProfile(c) \/ SaveExecutable(c) \/ SaveArguments(c)
       \/ UseProfile(c) \/ EndUse(c) \/ ReadRow(c) \/ ReadSetting(c) \/ ReadArguments(c)
       \/ Crash(c)

Spec == Init /\ [][Next]_vars

-----------------------------------------------------------------------------
(* Properties. *)

(* The variables have their types. *)
TypeOK ==
  /\ claims \in Registries
  /\ inside \in SUBSET Threads
  /\ seen \in [Threads -> Registries]
  /\ row \in [Consoles -> Targets \union {None}]
  /\ setting \in [Consoles -> Installs \union {None}]
  /\ args \in [Consoles -> Arguments]
  /\ work \in [Threads -> Works]
  /\ loose \in [Consoles -> BOOLEAN]
  /\ events \in 0..MaxEvents

(* No executable, world or port is claimed twice, whatever consoles write   *)
(* the registry at the same time or die while they do (instances.py:87).     *)
ClaimsAreExclusive == Exclusive(claims)

(* Two consoles never start, stop, restore or configure one server together, *)
(* although the uses last long after the registry was consulted, and readers *)
(* renew claims with what they read some time ago (instances.py:102).        *)
NoSharedServer ==
  \A c, d \in Consoles :
    c # d /\ work[Control(c)].step = "acting" /\ work[Control(d)].step = "acting" =>
      Install[work[Control(c)].target] # Install[work[Control(d)].target]

(* A profile whose save was not cut short stays claimed until its console    *)
(* saves another one: neither another console nor a late reader of the same  *)
(* one takes it away (config.py:206).                                        *)
SavedIsClaimed ==
  \A c \in Consoles :
    ~loose[c] /\ row[c] # None /\ work[Control(c)].step \notin SaveSteps => Owns(claims, c, row[c])

(* The registry can be relied on: its claims are exclusive, and what a console *)
(* has saved is among them, whatever consoles write it at the same time, read   *)
(* late or die (instances.py:87, config.py:206).                                *)
ClaimsStand == ClaimsAreExclusive /\ SavedIsClaimed
=============================================================================
