--------------------------- MODULE InstancesProof ---------------------------
(***************************************************************************)
(* For any consoles, servers and worlds: no two claims overlap, a saved    *)
(* profile stays claimed, and two consoles never act on one server.        *)
(***************************************************************************)
EXTENDS Instances, TLAPS

Inside == {"claim", "use", "release"}

(* The registry lock admits one thread, which knows what the file says. *)
LockInv ==
  /\ \A g, h \in inside : g = h
  /\ \A h \in inside : seen[h] = claims /\ work[h].step \in Inside

(* What a thread carries at each of its steps. *)
Carries(c) ==
  LET w == work[Control(c)]
  IN /\ w.step \in {"claim", "save", "use", "acting"} => w.target \in Targets
     /\ w.step \in {"clear", "release"} => w.target = None
     /\ w.step \in {"save", "acting"} => Owns(claims, c, w.target)
     /\ w.step = "release" => row[c] = None
     /\ w.step \in {"executable", "arguments"} =>
          row[c] = w.target /\ (w.target # None => Owns(claims, c, w.target))
     /\ w.step \notin {"row", "matched"}

ReaderCarries(c) ==
  /\ work[Reader(c)].step \in {"idle", "row", "matched", "use"}
  /\ work[Reader(c)].step # "idle" => work[Reader(c)].target \in Targets

(* Also while a save has not changed anything yet. *)
RowIsClaimed(c) ==
  ~loose[c] /\ row[c] # None /\ work[Control(c)].step \notin SaveSteps \ {"clear"} =>
    Owns(claims, c, row[c])

IInv ==
  /\ TypeOK
  /\ ClaimsAreExclusive
  /\ LockInv
  /\ \A c \in Consoles : Carries(c) /\ ReaderCarries(c) /\ RowIsClaimed(c)

(***************************************************************************)
(* Threads and types                                                       *)
(***************************************************************************)

LEMMA ThreadNames ==
  /\ \A c \in Consoles : /\ Control(c) \in Threads /\ Reader(c) \in Threads
                         /\ Control(c)[1] = c /\ Reader(c)[1] = c
  /\ \A c, d \in Consoles : /\ Control(c) # Reader(d)
                            /\ (Control(c) = Control(d) \/ Reader(c) = Reader(d)) => c = d
  /\ \A h \in Threads : /\ h[1] \in Consoles
                        /\ h = Control(h[1]) \/ h = Reader(h[1])
BY DEF Threads, Roles, Control, Reader

LEMMA IdleType == Idle \in Works /\ Idle.step = "idle"
<1>1. \E p \in Arguments : TRUE
  BY InstanceAssumption
<1>2. (CHOOSE p \in Arguments : TRUE) \in Arguments
  BY <1>1
<1> QED
  BY <1>2 DEF Idle, Works, Steps, SaveSteps

\* The claim a thread is about to write is one.
LEMMA ClaimType ==
  ASSUME IInv, NEW h \in Threads, work[h].step \in {"claim", "use"}
  PROVE  Claim(h) \in Claims /\ Claim(h) # None
<1>1. work[h] \in Works
  BY DEF IInv, TypeOK
<1>2. work[h].target \in Targets
  BY ThreadNames DEF IInv, Carries, ReaderCarries
<1> QED
  BY <1>1, <1>2, NoneIsFresh DEF Claim, Claims, Works

LEMMA NothingType == Nothing \in Registries
BY DEF Nothing, Registries

LEMMA CutShortType ==
  ASSUME TypeOK, NEW c \in Consoles
  PROVE  CutShort(c) \in BOOLEAN
<1>1. loose[c] \in BOOLEAN
  BY DEF TypeOK
<1> QED
  BY <1>1, Zenon DEF CutShort

LEMMA TypePreserved ==
  ASSUME IInv, [Next]_vars
  PROVE  TypeOK'
<1> USE IdleType, NothingType, InstanceAssumption
<1>1. TypeOK
  BY DEF IInv
<1>2. ASSUME NEW h \in Threads,
             ReadClaims(h) \/ Refuse(h) \/ Fails(h)
      PROVE  TypeOK'
  <2>1. work' \in [Threads -> Works]
    BY <1>1, <1>2 DEF TypeOK, ReadClaims, Refuse, Fails, Rests
  <2>2. seen' \in [Threads -> Registries] /\ inside' \in SUBSET Threads
    BY <1>1, <1>2 DEF TypeOK, ReadClaims, Refuse, Fails, Unlock
  <2>3. loose' \in [Consoles -> BOOLEAN]
    <3>1. CASE Fails(h)
      <4>1. h[1] \in Consoles /\ loose \in [Consoles -> BOOLEAN]
        BY <1>1, ThreadNames DEF TypeOK
      <4>2. CutShort(h[1]) \in BOOLEAN /\ loose[h[1]] \in BOOLEAN
        BY <1>1, <4>1, CutShortType
      <4> QED
        BY <3>1, <4>1, <4>2, Zenon DEF Fails
    <3> QED
      BY <1>1, <1>2, <3>1 DEF TypeOK, ReadClaims, Refuse
  <2>4. events' \in 0..MaxEvents
    BY <1>1, <1>2 DEF TypeOK, ReadClaims, Refuse, Fails, Event
  <2> QED
    BY <1>1, <1>2, <2>1, <2>2, <2>3, <2>4 DEF TypeOK, ReadClaims, Refuse, Fails, database
<1>3. ASSUME NEW h \in Threads, WriteClaims(h)
      PROVE  TypeOK'
  <2>1. Claim(h) \in Claims /\ h[1] \in Consoles
    BY <1>3, ClaimType, ThreadNames DEF WriteClaims
  <2>2. claims' \in Registries
    BY <1>1, <1>3, <2>1 DEF WriteClaims, TypeOK, Registries
  <2>3. work' \in [Threads -> Works]
    BY <1>1, <1>3 DEF WriteClaims, TypeOK, Goes, Rests, Works, Steps, SaveSteps
  <2> QED
    BY <1>1, <1>3, <2>2, <2>3 DEF WriteClaims, TypeOK, Unlock, database
<1>4. ASSUME NEW h \in Threads, Release(h)
      PROVE  TypeOK'
  <2>1. claims' \in Registries
    BY <1>1, <1>4 DEF Release, TypeOK, Registries
  <2>2. work' \in [Threads -> Works]
    BY <1>1, <1>4 DEF Release, TypeOK, Goes, Works, Steps, SaveSteps
  <2> QED
    BY <1>1, <1>4, <2>1, <2>2 DEF Release, TypeOK, Unlock, database
<1>5. ASSUME NEW c \in Consoles, NEW p \in Arguments, NEW t \in Targets,
             SaveTarget(c, t, p)
      PROVE  TypeOK'
  <2>1. work' \in [Threads -> Works]
    BY <1>1, <1>5 DEF SaveTarget, TypeOK, Works, Steps, SaveSteps
  <2> QED
    BY <1>1, <1>5, <2>1 DEF SaveTarget, TypeOK, Event, database, registry
<1>6. ASSUME NEW c \in Consoles, NEW p \in Arguments, SaveBare(c, p)
      PROVE  TypeOK'
  <2>1. work' \in [Threads -> Works]
    BY <1>1, <1>6 DEF SaveBare, TypeOK, Works, Steps, SaveSteps
  <2> QED
    BY <1>1, <1>6, <2>1 DEF SaveBare, TypeOK, Event, database, registry
<1>7. ASSUME NEW c \in Consoles,
             SaveProfile(c) \/ ClearProfile(c) \/ SaveExecutable(c) \/ SaveArguments(c)
      PROVE  TypeOK'
  <2>1. work[Control(c)] \in Works
    BY <1>1, ThreadNames DEF TypeOK
  <2>2. /\ work[Control(c)].target \in Targets \union {None}
        /\ work[Control(c)].ports \in Arguments
    BY <2>1 DEF Works
  <2>3. Profile(work[Control(c)].target) \in Installs \union {None}
    BY <2>2 DEF Profile
  <2>4. work' \in [Threads -> Works]
    BY <1>1, <1>7
       DEF SaveProfile, ClearProfile, SaveExecutable, SaveArguments, TypeOK, Goes, Rests,
           Works, Steps, SaveSteps
  <2> QED
    BY <1>1, <1>7, <2>2, <2>3, <2>4
       DEF SaveProfile, ClearProfile, SaveExecutable, SaveArguments, TypeOK, registry
<1>8. ASSUME NEW c \in Consoles,
             UseProfile(c) \/ EndUse(c) \/ ReadRow(c) \/ ReadSetting(c) \/ ReadArguments(c)
      PROVE  TypeOK'
  <2>1. CASE UseProfile(c) \/ ReadArguments(c)
    <3>1. row[c] \in Targets \union {None} /\ args[c] \in Arguments
      BY <1>1 DEF TypeOK
    <3>2. work' \in [Threads -> Works]
      <4>1. CASE UseProfile(c)
        <5>1. [step |-> "use", target |-> row[c], ports |-> args[c]] \in Works
          BY <3>1 DEF Works, Steps
        <5> QED
          BY <1>1, <4>1, <5>1, ThreadNames DEF UseProfile, TypeOK
      <4>2. CASE ReadArguments(c)
        <5>1. work[Reader(c)] \in Works
          BY <1>1, ThreadNames DEF TypeOK
        <5>2. [work[Reader(c)] EXCEPT !.step = "use", !.ports = args[c]] \in Works
          BY <3>1, <5>1 DEF Works, Steps
        <5>3. work' = [work EXCEPT ![Reader(c)] =
                         [work[Reader(c)] EXCEPT !.step = "use", !.ports = args[c]]]
          BY <4>2 DEF ReadArguments
        <5> QED
          BY <1>1, <5>2, <5>3, ThreadNames DEF TypeOK
      <4> QED
        BY <2>1, <4>1, <4>2
    <3> QED
      BY <1>1, <2>1, <3>2 DEF UseProfile, ReadArguments, TypeOK, registry, database
  <2>2. CASE ReadRow(c)
    <3>1. row[c] \in Targets \union {None}
      BY <1>1 DEF TypeOK
    <3>2. [Idle EXCEPT !.step = "row", !.target = row[c]] \in Works
      BY <3>1 DEF Works, Steps
    <3> QED
      BY <1>1, <2>2, <3>2, ThreadNames DEF ReadRow, TypeOK, registry, database
  <2>3. CASE EndUse(c) \/ ReadSetting(c)
    <3>1. work[Reader(c)] \in Works
      BY <1>1, ThreadNames DEF TypeOK
    <3>2. [work[Reader(c)] EXCEPT !.step = "matched"] \in Works
      BY <3>1 DEF Works, Steps
    <3>3. EndUse(c) => work' = [work EXCEPT ![Control(c)] = Idle]
      BY DEF EndUse, Rests
    <3>4. ReadSetting(c) =>
            \/ work' = [work EXCEPT ![Reader(c)] = [work[Reader(c)] EXCEPT !.step = "matched"]]
            \/ work' = [work EXCEPT ![Reader(c)] = Idle]
      BY DEF ReadSetting, Goes, Rests
    <3>5. work' \in [Threads -> Works]
      BY <1>1, <2>3, <3>2, <3>3, <3>4, ThreadNames DEF TypeOK
    <3> QED
      BY <1>1, <2>3, <3>5 DEF EndUse, ReadSetting, TypeOK, registry, database
  <2> QED
    BY <1>8, <2>1, <2>2, <2>3
<1>9. ASSUME NEW c \in Consoles, Crash(c)
      PROVE  TypeOK'
  <2>1. work' \in [Threads -> Works]
    BY <1>1, <1>9 DEF Crash, TypeOK
  <2>2. seen' \in [Threads -> Registries] /\ inside' \in SUBSET Threads
    BY <1>1, <1>9 DEF Crash, TypeOK
  <2>3. loose' \in [Consoles -> BOOLEAN]
    BY <1>1, <1>9, CutShortType, Zenon DEF Crash, TypeOK
  <2>4. events' \in 0..MaxEvents
    BY <1>1, <1>9 DEF Crash, TypeOK, Event
  <2> QED
    BY <1>1, <1>9, <2>1, <2>2, <2>3, <2>4 DEF Crash, TypeOK, database
<1>10. CASE UNCHANGED vars
  BY <1>1, <1>10 DEF TypeOK, vars, registry, database
<1> QED
  BY <1>2, <1>3, <1>4, <1>5, <1>6, <1>7, <1>8, <1>9, <1>10 DEF Next
LEMMA InitIInv == Init => IInv
<1> SUFFICES ASSUME Init PROVE IInv
  OBVIOUS
<1>1. TypeOK
  <2>1. setting \in [Consoles -> Installs \union {None}]
    BY InstanceAssumption DEF Init, Profile
  <2>2. loose \in [Consoles -> BOOLEAN]
    BY Zenon DEF Init, Owns
  <2> QED
    BY <2>1, <2>2, IdleType, NothingType, InstanceAssumption DEF Init, TypeOK
<1>2. ClaimsAreExclusive /\ LockInv
  BY DEF Init, ClaimsAreExclusive, LockInv
<1>3. ASSUME NEW c \in Consoles PROVE Carries(c) /\ ReaderCarries(c) /\ RowIsClaimed(c)
  BY IdleType, ThreadNames DEF Init, Carries, ReaderCarries, RowIsClaimed
<1> QED
  BY <1>1, <1>2, <1>3 DEF IInv

(***************************************************************************)
(* What a step of one console leaves alone                                 *)
(***************************************************************************)

\* Whatever the console owned it still owns.
StillOwns(c) == \A t : Owns(claims, c, t) => Owns(claims', c, t)

LEMMA ControlKeeps ==
  ASSUME NEW d \in Consoles, Carries(d), RowIsClaimed(d), StillOwns(d),
         work'[Control(d)] = work[Control(d)], row'[d] = row[d], loose'[d] = loose[d]
  PROVE  Carries(d)' /\ RowIsClaimed(d)'
<1>1. Carries(d)'
  BY DEF Carries, StillOwns
<1>2. RowIsClaimed(d)'
  BY DEF RowIsClaimed, StillOwns
<1> QED
  BY <1>1, <1>2

LEMMA LockKeeps ==
  ASSUME LockInv, claims' = claims, inside' \subseteq inside,
         \A h \in inside' : seen'[h] = seen[h] /\ work'[h].step = work[h].step
  PROVE  LockInv'
BY DEF LockInv

\* What is left of the invariant when its types are known.
Agreement ==
  /\ ClaimsAreExclusive
  /\ LockInv
  /\ \A c \in Consoles : Carries(c) /\ ReaderCarries(c) /\ RowIsClaimed(c)

\* A step of the control thread of one console outside the registry.
ControlStep(c) ==
  /\ UNCHANGED registry
  /\ work[Control(c)].step \notin Inside
  /\ \A h \in Threads \ {Control(c)} : work'[h] = work[h]
  /\ \A d \in Consoles \ {c} : row'[d] = row[d] /\ loose'[d] = loose[d]

LEMMA ControlStepKeeps ==
  ASSUME IInv, NEW c \in Consoles, ControlStep(c), Carries(c)', RowIsClaimed(c)'
  PROVE  Agreement'
<1>1. ClaimsAreExclusive'
  BY DEF IInv, ControlStep, registry, ClaimsAreExclusive, Exclusive
<1>2. LockInv'
  <2>1. \A h \in inside : h \in Threads /\ h # Control(c)
    BY DEF IInv, TypeOK, LockInv, ControlStep
  <2> QED
    BY <2>1, LockKeeps DEF IInv, ControlStep, registry
<1>3. ASSUME NEW d \in Consoles PROVE Carries(d)' /\ ReaderCarries(d)' /\ RowIsClaimed(d)'
  <2>1. ReaderCarries(d)'
    BY ThreadNames DEF IInv, ReaderCarries, ControlStep
  <2>2. CASE d # c
    BY <2>1, <2>2, ControlKeeps, ThreadNames DEF IInv, ControlStep, StillOwns, registry
  <2> QED
    BY <2>1, <2>2
<1> QED
  BY <1>1, <1>2, <1>3 DEF Agreement

\* A step of its reader.
ReaderStep(c) ==
  /\ UNCHANGED <<registry, row, loose>>
  /\ work[Reader(c)].step \notin Inside
  /\ \A h \in Threads \ {Reader(c)} : work'[h] = work[h]

LEMMA ReaderStepKeeps ==
  ASSUME IInv, NEW c \in Consoles, ReaderStep(c), ReaderCarries(c)'
  PROVE  Agreement'
<1>1. ClaimsAreExclusive'
  BY DEF IInv, ReaderStep, registry, ClaimsAreExclusive, Exclusive
<1>2. LockInv'
  <2>1. \A h \in inside : h \in Threads /\ h # Reader(c)
    BY DEF IInv, TypeOK, LockInv, ReaderStep
  <2> QED
    BY <2>1, LockKeeps DEF IInv, ReaderStep, registry
<1>3. ASSUME NEW d \in Consoles PROVE Carries(d)' /\ ReaderCarries(d)' /\ RowIsClaimed(d)'
  <2>1. Carries(d)' /\ RowIsClaimed(d)'
    BY ControlKeeps, ThreadNames DEF IInv, ReaderStep, StillOwns, registry
  <2>2. CASE d # c
    BY <2>1, <2>2, ThreadNames DEF IInv, ReaderCarries, ReaderStep
  <2> QED
    BY <2>1, <2>2
<1> QED
  BY <1>1, <1>2, <1>3 DEF Agreement

(***************************************************************************)
(* The steps inside the registry                                           *)
(***************************************************************************)

\* Two claims overlap either way.
LEMMA OverlapSymmetric ==
  ASSUME NEW a, NEW b, Overlap(a, b)
  PROVE  Overlap(b, a)
BY DEF Overlap

\* The thread inside is alone, and has read what the file says.
LEMMA Alone ==
  ASSUME IInv, NEW h \in inside
  PROVE  inside = {h} /\ seen[h] = claims /\ h \in Threads /\ h[1] \in Consoles
BY ThreadNames DEF IInv, LockInv, TypeOK

LEMMA ReadClaimsKeeps ==
  ASSUME IInv, NEW h \in Threads, ReadClaims(h)
  PROVE  Agreement'
<1>1. LockInv'
  BY DEF IInv, TypeOK, LockInv, ReadClaims, LockFree, Inside
<1>2. ClaimsAreExclusive'
  BY DEF IInv, ReadClaims, ClaimsAreExclusive, Exclusive
<1>3. ASSUME NEW d \in Consoles PROVE Carries(d)' /\ ReaderCarries(d)' /\ RowIsClaimed(d)'
  <2>1. Carries(d)' /\ RowIsClaimed(d)'
    BY ControlKeeps DEF IInv, ReadClaims, StillOwns, database
  <2> QED
    BY <2>1 DEF IInv, ReaderCarries, ReadClaims
<1> QED
  BY <1>1, <1>2, <1>3 DEF Agreement

LEMMA WriteClaimsKeeps ==
  ASSUME IInv, NEW h \in Threads, WriteClaims(h)
  PROVE  Agreement'
<1> DEFINE c == h[1]
<1>1. /\ h \in inside /\ inside = {h} /\ seen[h] = claims /\ c \in Consoles
      /\ work[h].step \in {"claim", "use"}
  BY Alone DEF WriteClaims
<1>2. /\ claims' = [claims EXCEPT ![c] = Claim(h)]
      /\ inside' = {}
      /\ Unclaimed(h)
      /\ row' = row /\ loose' = loose
  BY <1>1 DEF WriteClaims, Unlock, Granted, StillOwned, database
<1>3. Claim(h) \in Claims /\ Claim(h) # None /\ Claim(h).target = work[h].target
  BY <1>1, ClaimType DEF Claim
<1>4. /\ claims'[c] = Claim(h)
      /\ \A d \in Consoles \ {c} : claims'[d] = claims[d]
  BY <1>1, <1>2 DEF IInv, TypeOK, Registries
<1>5. LockInv'
  BY <1>2 DEF LockInv
<1>6. ClaimsAreExclusive'
  <2>1. \A d \in Consoles \ {c} :
          claims[d] # None => ~Overlap(claims[d], Claim(h)) /\ ~Overlap(Claim(h), claims[d])
    BY <1>1, <1>2, OverlapSymmetric DEF Unclaimed
  <2> SUFFICES ASSUME NEW d \in Consoles, NEW e \in Consoles, d # e,
                      claims'[d] # None, claims'[e] # None
               PROVE  ~Overlap(claims'[d], claims'[e])
    BY DEF ClaimsAreExclusive, Exclusive, Overlap
  <2>2. CASE d = c \/ e = c
    BY <1>4, <2>1, <2>2
  <2>3. CASE d # c /\ e # c
    BY <1>4, <2>3 DEF IInv, ClaimsAreExclusive, Exclusive
  <2> QED
    BY <2>2, <2>3
<1>7. \A g \in Threads \ {h} : work'[g] = work[g]
  BY DEF WriteClaims, Goes, Rests, IInv, TypeOK
<1>8. StillOwns(c) \/ work[h].step = "claim"
  BY <1>1, <1>3, <1>4 DEF WriteClaims, Granted, StillOwned, StillOwns, Owns
<1>9. Owns(claims', c, work[h].target)
  BY <1>3, <1>4 DEF Owns
<1>10. Carries(c)' /\ ReaderCarries(c)' /\ RowIsClaimed(c)'
  <2>1. CASE h = Reader(c)
    <3>1. work[h].step = "use" /\ work'[h].step = "idle"
      BY <1>1, <2>1, ThreadNames, IdleType
         DEF IInv, TypeOK, ReaderCarries, WriteClaims, Rests
    <3>2. Carries(c)' /\ RowIsClaimed(c)'
      BY <1>1, <1>2, <1>7, <1>8, <2>1, <3>1, ControlKeeps, ThreadNames DEF IInv
    <3> QED
      BY <2>1, <3>1, <3>2 DEF ReaderCarries
  <2>2. CASE h = Control(c)
    <3>0. h # Reader(c) /\ work[h] \in Works
      BY <1>1, <2>2, ThreadNames DEF IInv, TypeOK
    <3>1. /\ work'[h].target = work[h].target
          /\ work[h].step = "claim" => work'[h].step = "save"
          /\ work[h].step = "use" => work'[h].step = "acting"
      BY <1>1, <2>2, <3>0 DEF WriteClaims, Goes, IInv, TypeOK, Works
    <3>2. work[h].target \in Targets
      BY <1>1, <2>2 DEF IInv, Carries
    <3>3. Carries(c)'
      BY <1>1, <1>9, <2>2, <3>1, <3>2 DEF Carries
    <3>4. RowIsClaimed(c)'
      BY <1>1, <1>2, <1>8, <2>2, <3>1 DEF IInv, RowIsClaimed, StillOwns, SaveSteps
    <3>5. ReaderCarries(c)'
      BY <1>1, <1>7, <2>2, ThreadNames DEF IInv, ReaderCarries
    <3> QED
      BY <3>3, <3>4, <3>5
  <2> QED
    BY <2>1, <2>2, ThreadNames
<1>11. ASSUME NEW d \in Consoles, d # c
       PROVE  Carries(d)' /\ ReaderCarries(d)' /\ RowIsClaimed(d)'
  <2>1. work'[Control(d)] = work[Control(d)] /\ work'[Reader(d)] = work[Reader(d)]
    BY <1>7, <1>11, ThreadNames
  <2>2. Carries(d)' /\ RowIsClaimed(d)'
    BY <1>2, <1>4, <1>11, <2>1, ControlKeeps DEF IInv, StillOwns, Owns
  <2> QED
    BY <2>1, <2>2 DEF IInv, ReaderCarries
<1> QED
  BY <1>5, <1>6, <1>10, <1>11 DEF Agreement

LEMMA RefuseKeeps ==
  ASSUME IInv, NEW h \in Threads, Refuse(h)
  PROVE  Agreement'
<1> DEFINE c == h[1]
<1>1. h \in inside /\ inside = {h} /\ c \in Consoles
  BY Alone DEF Refuse
<1>2. LockInv'
  BY <1>1 DEF Refuse, Unlock, LockInv
<1>3. ClaimsAreExclusive'
  BY DEF IInv, Refuse, ClaimsAreExclusive, Exclusive
<1>4. /\ \A g \in Threads \ {h} : work'[g] = work[g]
      /\ work'[h] = Idle /\ row' = row /\ loose' = loose /\ claims' = claims
      /\ work[h].step \in {"claim", "use"}
  BY DEF Refuse, Rests, IInv, TypeOK, database
<1>5. ASSUME NEW d \in Consoles PROVE Carries(d)' /\ ReaderCarries(d)' /\ RowIsClaimed(d)'
  <2>1. ReaderCarries(d)'
    BY <1>4, IdleType, ThreadNames DEF IInv, ReaderCarries
  <2>2. CASE h = Control(d)
    <3>1. Carries(d)'
      BY <1>4, <2>2, IdleType DEF Carries
    <3>2. RowIsClaimed(d)'
      BY <1>4, <2>2, IdleType DEF IInv, RowIsClaimed, SaveSteps
    <3> QED
      BY <2>1, <3>1, <3>2
  <2>3. CASE h # Control(d)
    BY <1>4, <2>1, <2>3, ControlKeeps, ThreadNames DEF IInv, StillOwns
  <2> QED
    BY <2>2, <2>3
<1> QED
  BY <1>2, <1>3, <1>5 DEF Agreement

LEMMA ReleaseKeeps ==
  ASSUME IInv, NEW h \in Threads, Release(h)
  PROVE  Agreement'
<1> DEFINE c == h[1]
<1>1. h \in inside /\ inside = {h} /\ seen[h] = claims /\ c \in Consoles
  BY Alone DEF Release
<1>2. h = Control(c)
  BY <1>1, ThreadNames DEF Release, IInv, ReaderCarries
<1>3. /\ \A d \in Consoles \ {c} : claims'[d] = claims[d]
      /\ claims'[c] = None
      /\ row' = row /\ loose' = loose
      /\ \A g \in Threads \ {h} : work'[g] = work[g]
      /\ work'[h].step = "executable" /\ work'[h].target = work[h].target
  BY <1>1 DEF Release, Goes, IInv, TypeOK, Registries, Works, database
<1>4. LockInv'
  BY <1>1 DEF Release, Unlock, LockInv
<1>5. ClaimsAreExclusive'
  BY <1>3 DEF IInv, ClaimsAreExclusive, Exclusive, Overlap
<1>6. Carries(c)' /\ ReaderCarries(c)' /\ RowIsClaimed(c)'
  <2>1. work[h].target = None /\ row[c] = None
    BY <1>1, <1>2 DEF Release, IInv, Carries
  <2>2. Carries(c)'
    BY <1>2, <1>3, <2>1 DEF Carries
  <2>3. RowIsClaimed(c)'
    BY <1>2, <1>3, <2>1 DEF RowIsClaimed
  <2>4. ReaderCarries(c)'
    BY <1>2, <1>3, ThreadNames DEF IInv, ReaderCarries
  <2> QED
    BY <2>2, <2>3, <2>4
<1>7. ASSUME NEW d \in Consoles, d # c
      PROVE  Carries(d)' /\ ReaderCarries(d)' /\ RowIsClaimed(d)'
  <2>1. work'[Control(d)] = work[Control(d)] /\ work'[Reader(d)] = work[Reader(d)]
    BY <1>2, <1>3, <1>7, ThreadNames
  <2>2. Carries(d)' /\ RowIsClaimed(d)'
    BY <1>3, <1>7, <2>1, ControlKeeps DEF IInv, StillOwns, Owns
  <2> QED
    BY <2>1, <2>2 DEF IInv, ReaderCarries
<1> QED
  BY <1>4, <1>5, <1>6, <1>7 DEF Agreement

(***************************************************************************)
(* Failures                                                                *)
(***************************************************************************)

\* A console whose threads both rest, or only the reader, has lost nothing.
LEMMA FailsKeeps ==
  ASSUME IInv, NEW h \in Threads, Fails(h)
  PROVE  Agreement'
<1> DEFINE c == h[1]
<1>1. c \in Consoles
  BY ThreadNames
<1>2. /\ \A g \in Threads \ {h} : work'[g] = work[g]
      /\ work'[h] = Idle /\ row' = row /\ claims' = claims
      /\ \A d \in Consoles \ {c} : loose'[d] = loose[d]
      /\ loose'[c] = IF h = Control(c) THEN CutShort(c) ELSE loose[c]
  BY <1>1, Zenon DEF Fails, Rests, IInv, TypeOK, database
<1>3. LockInv'
  <2>1. inside' \subseteq inside /\ \A g \in inside' : g \in Threads /\ g # h
    BY DEF Fails, Unlock, IInv, TypeOK
  <2>2. \A g \in inside' : seen'[g] = seen[g]
    BY <2>1 DEF Fails, Unlock, IInv, TypeOK
  <2> QED
    BY <1>2, <2>1, <2>2, LockKeeps DEF IInv
<1>4. ClaimsAreExclusive'
  BY <1>2 DEF IInv, ClaimsAreExclusive, Exclusive
<1>5. ASSUME NEW d \in Consoles PROVE Carries(d)' /\ ReaderCarries(d)' /\ RowIsClaimed(d)'
  <2>1. ReaderCarries(d)'
    BY <1>2, IdleType, ThreadNames DEF IInv, ReaderCarries
  <2>2. CASE h = Control(d)
    <3>1. d = c
      BY <2>2, ThreadNames
    <3>2. Carries(d)'
      BY <1>2, <2>2, IdleType DEF Carries
    <3>3. ~loose'[d] => ~loose[d] /\ work[Control(d)].step \notin SaveSteps \ {"clear"}
      BY <1>2, <2>2, <3>1, Zenon DEF CutShort
    <3>4. RowIsClaimed(d)'
      BY <1>2, <3>3 DEF IInv, RowIsClaimed
    <3> QED
      BY <2>1, <3>2, <3>4
  <2>3. CASE h # Control(d)
    <3>1. loose'[d] = loose[d]
      BY <1>2, <2>3, Zenon
    <3> QED
      BY <1>2, <2>1, <2>3, <3>1, ControlKeeps, ThreadNames DEF IInv, StillOwns
  <2> QED
    BY <2>2, <2>3
<1> QED
  BY <1>3, <1>4, <1>5 DEF Agreement

LEMMA CrashKeeps ==
  ASSUME IInv, NEW c \in Consoles, Crash(c)
  PROVE  Agreement'
<1>1. /\ \A g \in Threads : work'[g] = IF g[1] = c THEN Idle ELSE work[g]
      /\ row' = row /\ claims' = claims
  BY DEF Crash, database
<1>2. /\ \A d \in Consoles \ {c} : loose'[d] = loose[d]
      /\ loose'[c] = CutShort(c)
  BY Zenon DEF Crash, IInv, TypeOK
<1>3. LockInv'
  <2>1. inside' \subseteq inside /\ \A g \in inside' : g \in Threads /\ g[1] # c
    BY DEF Crash, IInv, TypeOK
  <2>2. \A g \in inside' : seen'[g] = seen[g]
    BY <2>1 DEF Crash
  <2> QED
    BY <1>1, <2>1, <2>2, LockKeeps DEF IInv
<1>4. ClaimsAreExclusive'
  BY <1>1 DEF IInv, ClaimsAreExclusive, Exclusive
<1>5. ASSUME NEW d \in Consoles PROVE Carries(d)' /\ ReaderCarries(d)' /\ RowIsClaimed(d)'
  <2>1. ReaderCarries(d)'
    BY <1>1, IdleType, ThreadNames DEF IInv, ReaderCarries
  <2>2. CASE d = c
    <3>1. Carries(d)'
      BY <1>1, <2>2, IdleType, ThreadNames DEF Carries
    <3>2. ~loose'[d] => ~loose[d] /\ work[Control(d)].step \notin SaveSteps \ {"clear"}
      BY <1>2, <2>2, Zenon DEF CutShort
    <3>3. RowIsClaimed(d)'
      BY <1>1, <3>2 DEF IInv, RowIsClaimed
    <3> QED
      BY <2>1, <3>1, <3>3
  <2>3. CASE d # c
    BY <1>1, <1>2, <2>1, <2>3, ControlKeeps, ThreadNames DEF IInv, StillOwns
  <2> QED
    BY <2>2, <2>3
<1> QED
  BY <1>3, <1>4, <1>5 DEF Agreement

(***************************************************************************)
(* Requests and readers                                                    *)
(***************************************************************************)

LEMMA SaveKeeps ==
  ASSUME IInv, NEW c \in Consoles,
         \/ \E t \in Targets, p \in Arguments : SaveTarget(c, t, p)
         \/ \E p \in Arguments : SaveBare(c, p)
         \/ UseProfile(c) \/ EndUse(c)
         \/ SaveProfile(c) \/ ClearProfile(c) \/ SaveExecutable(c) \/ SaveArguments(c)
  PROVE  Agreement'
<1> USE ThreadNames
<1> DEFINE h == Control(c)
<1>1. h \in Threads /\ work[h] \in Works
  BY DEF IInv, TypeOK
<1>2. Carries(c) /\ RowIsClaimed(c)
  BY DEF IInv
<1>3. CASE \E t \in Targets, p \in Arguments : SaveTarget(c, t, p)
  <2>1. PICK t \in Targets, p \in Arguments : SaveTarget(c, t, p)
    BY <1>3
  <2>2. work[h].step = "idle" /\ work'[h].step = "claim" /\ work'[h].target = t
    BY <1>1, <2>1 DEF SaveTarget, Free, IInv, TypeOK
  <2>3. ControlStep(c)
    BY <2>1, <2>2 DEF ControlStep, SaveTarget, database, Inside, IInv, TypeOK
  <2>4. Carries(c)'
    BY <2>2, NoneIsFresh DEF Carries
  <2>5. RowIsClaimed(c)'
    BY <1>2, <2>1, <2>2 DEF RowIsClaimed, SaveTarget, registry, database, SaveSteps
  <2> QED
    BY <2>3, <2>4, <2>5, ControlStepKeeps
<1>4. CASE \E p \in Arguments : SaveBare(c, p)
  <2>1. PICK p \in Arguments : SaveBare(c, p)
    BY <1>4
  <2>2. work[h].step = "idle" /\ work'[h].step = "clear" /\ work'[h].target = None
    BY <1>1, <2>1 DEF SaveBare, Free, IInv, TypeOK
  <2>3. ControlStep(c)
    BY <2>1, <2>2 DEF ControlStep, SaveBare, database, Inside, IInv, TypeOK
  <2>4. Carries(c)'
    BY <2>2 DEF Carries
  <2>5. RowIsClaimed(c)'
    BY <1>2, <2>1, <2>2 DEF RowIsClaimed, SaveBare, registry, database, SaveSteps
  <2> QED
    BY <2>3, <2>4, <2>5, ControlStepKeeps
<1>5. CASE UseProfile(c)
  <2>1. work[h].step = "idle" /\ work'[h].step = "use" /\ work'[h].target = row[c]
    BY <1>1, <1>5 DEF UseProfile, Free, IInv, TypeOK
  <2>2. ControlStep(c)
    BY <1>5, <2>1 DEF ControlStep, UseProfile, database, Inside, IInv, TypeOK
  <2>3. row[c] \in Targets
    BY <1>5 DEF UseProfile, IInv, TypeOK
  <2>4. Carries(c)'
    BY <2>1, <2>3 DEF Carries
  <2>5. RowIsClaimed(c)'
    BY <1>2, <1>5, <2>1 DEF RowIsClaimed, UseProfile, registry, database, SaveSteps
  <2> QED
    BY <2>2, <2>4, <2>5, ControlStepKeeps
<1>6. CASE EndUse(c)
  <2>1. work[h].step = "acting" /\ work'[h].step = "idle"
    BY <1>1, <1>6, IdleType DEF EndUse, Rests, IInv, TypeOK
  <2>2. ControlStep(c)
    BY <1>6, <2>1 DEF ControlStep, EndUse, Rests, database, Inside, IInv, TypeOK
  <2>3. Carries(c)'
    BY <2>1 DEF Carries
  <2>4. RowIsClaimed(c)'
    BY <1>2, <1>6, <2>1 DEF RowIsClaimed, EndUse, registry, database, SaveSteps
  <2> QED
    BY <2>2, <2>3, <2>4, ControlStepKeeps
<1>7. CASE SaveProfile(c)
  <2>1. /\ work[h].step = "save" /\ work'[h].step = "executable"
        /\ work'[h].target = work[h].target /\ row'[c] = work[h].target
    BY <1>1, <1>7 DEF SaveProfile, Goes, IInv, TypeOK, Works
  <2>2. ControlStep(c)
    BY <1>7, <2>1 DEF ControlStep, SaveProfile, Goes, Inside, IInv, TypeOK
  <2>3. Carries(c)'
    BY <1>2, <1>7, <2>1 DEF Carries, SaveProfile, registry
  <2>4. RowIsClaimed(c)'
    BY <2>1 DEF RowIsClaimed, SaveSteps
  <2> QED
    BY <2>2, <2>3, <2>4, ControlStepKeeps
<1>8. CASE ClearProfile(c)
  <2>1. /\ work[h].step = "clear" /\ work'[h].step = "release"
        /\ work'[h].target = work[h].target /\ row'[c] = None
    BY <1>1, <1>8 DEF ClearProfile, Goes, IInv, TypeOK, Works
  <2>2. ControlStep(c)
    BY <1>8, <2>1 DEF ControlStep, ClearProfile, Goes, Inside, IInv, TypeOK
  <2>3. Carries(c)'
    BY <1>2, <2>1 DEF Carries
  <2>4. RowIsClaimed(c)'
    BY <2>1 DEF RowIsClaimed
  <2> QED
    BY <2>2, <2>3, <2>4, ControlStepKeeps
<1>9. CASE SaveExecutable(c)
  <2>1. /\ work[h].step = "executable" /\ work'[h].step = "arguments"
        /\ work'[h].target = work[h].target /\ row' = row
    BY <1>1, <1>9 DEF SaveExecutable, Goes, IInv, TypeOK, Works
  <2>2. ControlStep(c)
    BY <1>9, <2>1 DEF ControlStep, SaveExecutable, Goes, Inside, IInv, TypeOK
  <2>3. Carries(c)'
    BY <1>2, <1>9, <2>1 DEF Carries, SaveExecutable, registry
  <2>4. RowIsClaimed(c)'
    BY <2>1 DEF RowIsClaimed, SaveSteps
  <2> QED
    BY <2>2, <2>3, <2>4, ControlStepKeeps
<1>10. CASE SaveArguments(c)
  <2>1. work[h].step = "arguments" /\ work'[h].step = "idle" /\ row' = row
    BY <1>1, <1>10, IdleType DEF SaveArguments, Rests, IInv, TypeOK
  <2>2. ControlStep(c)
    BY <1>10, <2>1, Zenon DEF ControlStep, SaveArguments, Rests, Inside, IInv, TypeOK
  <2>3. Carries(c)'
    BY <2>1 DEF Carries
  <2>4. RowIsClaimed(c)'
    BY <1>2, <1>10, <2>1 DEF Carries, RowIsClaimed, SaveArguments, registry
  <2> QED
    BY <2>2, <2>3, <2>4, ControlStepKeeps
<1> QED
  BY <1>3, <1>4, <1>5, <1>6, <1>7, <1>8, <1>9, <1>10

LEMMA ReaderKeeps ==
  ASSUME IInv, NEW c \in Consoles, ReadRow(c) \/ ReadSetting(c) \/ ReadArguments(c)
  PROVE  Agreement'
<1> USE ThreadNames
<1> DEFINE h == Reader(c)
<1>1. h \in Threads /\ work[h] \in Works /\ ReaderCarries(c)
  BY DEF IInv, TypeOK
<1>2. work[h].step \in {"idle", "row", "matched"}
  BY DEF ReadRow, ReadSetting, ReadArguments
<1>3. ReaderStep(c)
  BY <1>2 DEF ReaderStep, ReadRow, ReadSetting, ReadArguments, Goes, Rests, database,
              Inside, IInv, TypeOK
<1>4. ReaderCarries(c)'
  <2>1. CASE ReadRow(c)
    <3>1. row[c] \in Targets
      BY <2>1 DEF ReadRow, IInv, TypeOK
    <3>2. work'[h].step = "row" /\ work'[h].target = row[c]
      BY <1>1, <2>1 DEF ReadRow, IInv, TypeOK, Idle
    <3> QED
      BY <3>1, <3>2 DEF ReaderCarries
  <2>2. CASE ReadSetting(c)
    <3>1. \/ work'[h] = Idle
          \/ work'[h].step = "matched" /\ work'[h].target = work[h].target
      BY <1>1, <2>2 DEF ReadSetting, Goes, Rests, IInv, TypeOK, Works
    <3> QED
      BY <1>1, <2>2, <3>1, IdleType DEF ReaderCarries, ReadSetting
  <2>3. CASE ReadArguments(c)
    <3>1. work'[h].step = "use" /\ work'[h].target = work[h].target
      BY <1>1, <2>3 DEF ReadArguments, IInv, TypeOK, Works
    <3> QED
      BY <1>1, <2>3, <3>1 DEF ReaderCarries, ReadArguments
  <2> QED
    BY <2>1, <2>2, <2>3
<1> QED
  BY <1>3, <1>4, ReaderStepKeeps

LEMMA StutterKeeps ==
  ASSUME IInv, UNCHANGED vars
  PROVE  Agreement'
BY DEF IInv, Agreement, vars, registry, database, ClaimsAreExclusive, Exclusive, LockInv,
       Carries, ReaderCarries, RowIsClaimed, Owns

LEMMA NextIInv == IInv /\ [Next]_vars => IInv'
<1> SUFFICES ASSUME IInv, [Next]_vars PROVE IInv'
  OBVIOUS
<1>1. TypeOK'
  BY TypePreserved
<1>2. Agreement'
  <2>1. ASSUME NEW h \in Threads,
               ReadClaims(h) \/ WriteClaims(h) \/ Refuse(h) \/ Release(h) \/ Fails(h)
        PROVE  Agreement'
    BY <2>1, ReadClaimsKeeps, WriteClaimsKeeps, RefuseKeeps, ReleaseKeeps, FailsKeeps
  <2>2. ASSUME NEW c \in Consoles,
               \/ \E t \in Targets, p \in Arguments : SaveTarget(c, t, p)
               \/ \E p \in Arguments : SaveBare(c, p)
               \/ UseProfile(c) \/ EndUse(c)
               \/ SaveProfile(c) \/ ClearProfile(c) \/ SaveExecutable(c) \/ SaveArguments(c)
        PROVE  Agreement'
    BY <2>2, SaveKeeps
  <2>3. ASSUME NEW c \in Consoles, ReadRow(c) \/ ReadSetting(c) \/ ReadArguments(c)
        PROVE  Agreement'
    BY <2>3, ReaderKeeps
  <2>4. ASSUME NEW c \in Consoles, Crash(c)
        PROVE  Agreement'
    BY <2>4, CrashKeeps
  <2> QED
    BY <2>1, <2>2, <2>3, <2>4, StutterKeeps DEF Next
<1> QED
  BY <1>1, <1>2 DEF IInv, Agreement

(***************************************************************************)
(* The theorems                                                            *)
(***************************************************************************)

LEMMA Invariance == Spec => []IInv
BY InitIInv, NextIInv, PTL DEF Spec

(* The variables always have their types. *)
THEOREM TypeCorrect == Spec => []TypeOK
<1>1. IInv => TypeOK
  BY DEF IInv
<1> QED
  BY <1>1, Invariance, PTL

(* Two consoles never act on one server, although nobody looks at the claims *)
(* again while an operation lasts: the claim of whoever acts stands, because  *)
(* only its own console could replace it, and that console holds its control  *)
(* lock (config.py:278).                                                      *)
THEOREM NoSharedServerAlways == Spec => []NoSharedServer
<1>1. IInv => NoSharedServer
  BY ThreadNames
     DEF IInv, ClaimsAreExclusive, Exclusive, Overlap, Carries, Owns, NoSharedServer
<1> QED
  BY <1>1, Invariance, PTL

(* Whatever number of consoles share a machine, and however many of them die *)
(* while they write the registry or read it late, no two claims overlap and a *)
(* saved profile stays claimed until its console saves another one            *)
(* (instances.py:87, config.py:206).                                          *)
THEOREM ClaimsStandAlways == Spec => []ClaimsStand
<1>1. IInv => ClaimsStand
  BY DEF IInv, RowIsClaimed, SavedIsClaimed, ClaimsStand
<1> QED
  BY <1>1, Invariance, PTL
=============================================================================
