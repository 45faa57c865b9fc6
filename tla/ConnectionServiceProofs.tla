----------------------- MODULE ConnectionServiceProofs -----------------------
(***************************************************************************)
(* Theorems about ConnectionService, for any datasources, databases,       *)
(* handlers and bounds.                                                    *)
(***************************************************************************)
EXTENDS ConnectionService, SequenceTheorems, TLAPS

LEMMA Constants ==
    /\ \A q \in Pairs : q[1] \in Datasources /\ q[2] \in Databases
    /\ \A q \in Pairs : Key(q) \in Keys
    /\ NoKey \notin Keys
    /\ Default \in [Datasources -> Pairs]
    /\ \A d \in Datasources : Default[d][1] = d
    /\ MaxFailures \in Nat \ {0}
    /\ MaxVersion \in Nat \ {0}
    /\ MaxConns \in Nat
<1>1. NoKey \notin Keys
  BY DEF NoKey, Keys, Key
<1>2. \A q \in Pairs : Key(q) \in Keys
  BY DEF Keys
<1> QED
  BY <1>1, <1>2, ConnectionAssumption DEF ConnectionAssumption

USE Constants

-----------------------------------------------------------------------------
LEMMA InitTyped == Init => TypeOK
<1> SUFFICES ASSUME Init PROVE TypeOK
  OBVIOUS
<1>1. reloading \in BOOLEAN
  BY DEF Init
<1>2. health \in Health
  BY DEF Init, Health, SQLKeys
<1>3. up \in [Pairs -> BOOLEAN] /\ open \in [ConnIds -> BOOLEAN]
  BY DEF Init
<1> QED
  BY <1>1, <1>2, <1>3 DEF Init, TypeOK, Versions, Procedure, Idle

\* Taking connections out of the cache keeps the types of what it touches.
LEMMA CloseTyped ==
    ASSUME TypeOK, NEW K \in SUBSET Keys, CloseAndForget(K)
    PROVE  open' \in [ConnIds -> BOOLEAN] /\ cache' \in [Keys -> 0 .. MaxConns]
BY DEF CloseAndForget, TypeOK

\* The health check's record after a ping that settled key k ...
LEMMA SettledTyped ==
    ASSUME health \in Health, NEW k \in SQLKeys
    PROVE  [health EXCEPT !.failures = [health.failures EXCEPT ![k] = 0],
                          !.snapshot = [health.snapshot EXCEPT ![k] = 0]] \in Health
<1>1. [health.failures EXCEPT ![k] = 0] \in [SQLKeys -> Nat]
  BY DEF Health
<1>2. [health.snapshot EXCEPT ![k] = 0] \in [SQLKeys -> 0 .. MaxConns]
  BY DEF Health
<1> QED
  BY <1>1, <1>2 DEF Health

\* ... and after one that was counted against it.
LEMMA CountedTyped ==
    ASSUME health \in Health, NEW k \in SQLKeys, NEW n, n = health.failures[k] + 1
    PROVE  /\ [health EXCEPT !.failures[k] = n, !.snapshot[k] = 0] \in Health
           /\ [health EXCEPT !.failures[k] = n, !.evicting = k] \in Health
<1>1. [health.failures EXCEPT ![k] = n] \in [SQLKeys -> Nat] /\ k \in Keys
  BY DEF Health, SQLKeys
<1>2. [health.snapshot EXCEPT ![k] = 0] \in [SQLKeys -> 0 .. MaxConns]
  BY DEF Health
<1> QED
  BY <1>1, <1>2 DEF Health

\* The history of failed pings stays a count.
LEMMA FailsTyped ==
    ASSUME fails \in [ConnIds -> 0 .. MaxFailures], NEW c, NEW n \in 0 .. MaxFailures
    PROVE  [fails EXCEPT ![c] = n] \in [ConnIds -> 0 .. MaxFailures]
OBVIOUS

\* The records of handlers that are about something ...
LEMMA AtTry ==
    ASSUME TypeOK, NEW p \in Procs, proc[p].pc \in Tries
    PROVE  proc[p].pair \in Pairs /\ proc[p].why \in Whys
BY DEF TypeOK, Procedure, Idle, Tries, Removals

LEMMA AtRemoval ==
    ASSUME TypeOK, NEW p \in Procs, proc[p].pc \in Removals
    PROVE  proc[p].pair \in Pairs /\ proc[p].why \in {"registration", "unregistration"}
BY DEF TypeOK, Procedure, Idle, Tries, Removals

LEMMA AtLock ==
    ASSUME TypeOK, NEW p \in Procs, proc[p].pc = "lock"
    PROVE  proc[p] \in [pc : {"lock"}, pair : Pairs, why : Whys, version : Versions]
BY DEF TypeOK, Procedure, Idle, Tries, Removals

LEMMA AtUsing ==
    ASSUME TypeOK, NEW p \in Procs, proc[p].pc = "using"
    PROVE  proc[p] \in [pc : {"using"}, pair : Pairs, why : Whys, conn : ConnIds]
BY DEF TypeOK, Procedure, Idle, Tries, Removals

\* ... and how they go on.
LEMMA StepTyped ==
    ASSUME TypeOK, NEW p \in Procs, NEW pc, NEW d \in Datasources, NEW why, Step(p, pc, d, why),
           \/ pc \in Tries /\ why \in Whys
           \/ pc \in Removals /\ why \in {"registration", "unregistration"}
    PROVE  proc' \in [Procs -> Procedure]
<1>1. [pc |-> pc, pair |-> Default[d], why |-> why] \in Procedure
  BY DEF Procedure
<1> QED
  BY <1>1 DEF Step, TypeOK

LEMMA RefusedTyped ==
    ASSUME TypeOK, NEW p \in Procs, proc[p].pair \in Pairs, Refused(p)
    PROVE  proc' \in [Procs -> Procedure]
<1>1. CASE proc[p].why = "registration"
  BY <1>1, StepTyped DEF Refused, Tries, Removals, Whys
<1>2. CASE proc[p].why # "registration"
  BY <1>2 DEF Refused, TypeOK, Procedure
<1> QED
  BY <1>1, <1>2

LEMMA UsingTyped ==
    ASSUME TypeOK, NEW p \in Procs, NEW c \in ConnIds, Using(p, c),
           proc[p].pair \in Pairs, proc[p].why \in Whys
    PROVE  proc' \in [Procs -> Procedure]
<1>1. [pc |-> "using", pair |-> proc[p].pair, why |-> proc[p].why, conn |-> c] \in Procedure
  BY DEF Procedure
<1> QED
  BY <1>1 DEF Using, TypeOK

\* A datasource that is taken out of the configuration.
LEMMA GoneTyped ==
    ASSUME config \in [Datasources -> Versions], NEW d
    PROVE  [config EXCEPT ![d] = 0] \in [Datasources -> Versions]
<1>1. 0 \in Versions
  BY DEF Versions
<1> QED
  BY <1>1

\* What is read over a connection is of the datasource it was opened for: that
\* there is one is part of the types below, and kept with them.
UsedAreOfPairs == \A p \in Procs : proc[p].pc = "using" => owner[proc[p].conn] \in Pairs

LEMMA NextTyped == TypeOK /\ UsedAreOfPairs /\ [Next]_vars => TypeOK'
<1> SUFFICES ASSUME TypeOK, UsedAreOfPairs, [Next]_vars
             PROVE  TypeOK'
  OBVIOUS
<1> USE DEF TypeOK
<1>1. CASE Reload
  <2>1. reloading' \in BOOLEAN
    BY <1>1 DEF Reload
  <2> QED
    BY <1>1, <2>1 DEF Reload, connVars, Versions
<1>2. CASE ReloadCallback
  <2>1. reloading' \in BOOLEAN
    BY <1>2 DEF ReloadCallback
  <2>2. open' \in [ConnIds -> BOOLEAN] /\ cache' \in [Keys -> 0 .. MaxConns]
    BY <1>2, CloseTyped DEF ReloadCallback, InvalidateAll
  <2> QED
    BY <1>2, <2>1, <2>2 DEF ReloadCallback, InvalidateAll, Versions
<1>3. ASSUME NEW p \in Procs, NEW d \in Datasources,
             BeginRegistration(p, d) \/ BeginUnregistration(p, d)
      PROVE  TypeOK'
  <2>1. proc' \in [Procs -> Procedure]
    BY <1>3, StepTyped DEF BeginRegistration, BeginUnregistration, Tries, Removals, Whys
  <2> QED
    BY <1>3, <2>1 DEF BeginRegistration, BeginUnregistration, configVars, connVars
<1>4. ASSUME NEW p \in Procs, Register(p) PROVE TypeOK'
  <2>1. proc[p].pair \in Pairs
    BY <1>4, AtTry DEF Register, Tries
  <2>2. proc' \in [Procs -> Procedure]
    BY <1>4, <2>1, StepTyped DEF Register, Tries, Removals, Whys
  <2> QED
    BY <1>4, <2>1, <2>2 DEF Register, connVars, Versions
<1>5. ASSUME NEW q \in Pairs, Flip(q) PROVE TypeOK'
  BY <1>5 DEF Flip, configVars, connVars
<1>6. ASSUME NEW p \in Procs, NEW q \in Pairs, Get(p, q) PROVE TypeOK'
  <2>1. [pc |-> "lock", pair |-> q, why |-> "request", version |-> config[q[1]]] \in Procedure
    BY DEF Procedure, Whys
  <2> QED
    BY <1>6, <2>1 DEF Get, configVars, connVars
<1>21. ASSUME NEW p \in Procs, NEW d \in Datasources, GetServerInfo(p, d) PROVE TypeOK'
  <2>1. proc' \in [Procs -> Procedure]
    BY <1>21, StepTyped DEF GetServerInfo, Tries, Removals, Whys
  <2> QED
    BY <1>21, <2>1 DEF GetServerInfo, configVars, connVars
<1>22. ASSUME NEW p \in Procs, Resolve(p) PROVE TypeOK'
  <2>1. proc[p].pair \in Pairs /\ proc[p].why \in Whys
    BY <1>22, AtTry DEF Resolve, Tries
  <2> DEFINE d == proc[p].pair[1]
  <2>2. [pc |-> "lock", pair |-> Default[d], why |-> proc[p].why, version |-> config[d]] \in Procedure
    BY <2>1 DEF Procedure
  <2>3. Refused(p) => proc' \in [Procs -> Procedure]
    BY <2>1, RefusedTyped
  <2>4. proc' \in [Procs -> Procedure]
    BY <1>22, <2>2, <2>3 DEF Resolve
  <2> QED
    BY <1>22, <2>4 DEF Resolve, configVars, connVars
<1>7. ASSUME NEW p \in Procs, Hit(p) PROVE TypeOK'
  <2>1. proc[p] \in [pc : {"lock"}, pair : Pairs, why : Whys, version : Versions]
    BY <1>7, AtLock DEF Hit
  <2>2. cache[Key(proc[p].pair)] \in ConnIds
    BY <1>7, <2>1 DEF Hit, ConnIds
  <2>3. proc' \in [Procs -> Procedure]
    BY <1>7, <2>1, <2>2, UsingTyped DEF Hit
  <2> QED
    BY <1>7, <2>3 DEF Hit, configVars, connVars
<1>8. ASSUME NEW p \in Procs, Open(p) PROVE TypeOK'
  <2>1. proc[p] \in [pc : {"lock"}, pair : Pairs, why : Whys, version : Versions]
    BY <1>8, AtLock DEF Open
  <2>2. opened + 1 \in ConnIds /\ opened' = opened + 1
    BY <1>8 DEF Open
  <2>3. proc' \in [Procs -> Procedure]
    BY <1>8, <2>1, <2>2, UsingTyped DEF Open
  <2>4. open' \in [ConnIds -> BOOLEAN]
    BY <1>8 DEF Open
  <2> QED
    BY <1>8, <2>1, <2>2, <2>3, <2>4 DEF Open, configVars, ConnIds
<1>9. ASSUME NEW p \in Procs, OpenFails(p) PROVE TypeOK'
  <2>1. proc[p].pair \in Pairs
    BY <1>9, AtLock DEF OpenFails
  <2>2. proc' \in [Procs -> Procedure]
    BY <1>9, <2>1, RefusedTyped DEF OpenFails
  <2> QED
    BY <1>9, <2>2 DEF OpenFails, configVars, connVars
<1>10. ASSUME NEW p \in Procs, Used(p) PROVE TypeOK'
  BY <1>10 DEF Used, configVars, connVars, Procedure
<1>23. ASSUME NEW p \in Procs, ReadInfo(p) PROVE TypeOK'
  <2>1. proc[p] \in [pc : {"using"}, pair : Pairs, why : Whys, conn : ConnIds]
    BY <1>23, AtUsing DEF ReadInfo
  <2> DEFINE c == proc[p].conn
  <2>2. owner[c] \in Pairs
    BY <1>23, <2>1 DEF ReadInfo, UsedAreOfPairs
  <2>3. [pc |-> "store", pair |-> proc[p].pair, read |-> <<owner[c][1], dsn[c]>>] \in Procedure
    BY <2>1, <2>2 DEF Procedure
  <2> QED
    BY <1>23, <2>3 DEF ReadInfo, configVars, connVars
<1>11. ASSUME NEW p \in Procs, StoreInfo(p) PROVE TypeOK'
  <2>1. proc[p] \in [pc : {"store"}, pair : Pairs, read : Datasources \X Versions]
    BY <1>11 DEF StoreInfo, Procedure, Idle, Tries, Removals
  <2> QED
    BY <1>11, <2>1 DEF StoreInfo, configVars, connVars, Procedure
<1>24. ASSUME NEW p \in Procs, Validate(p) PROVE TypeOK'
  <2>1. proc[p].pair \in Pairs
    BY <1>24, AtUsing DEF Validate
  <2>2. proc' \in [Procs -> Procedure]
    BY <1>24, <2>1, StepTyped DEF Validate, Tries, Removals, Whys
  <2> QED
    BY <1>24, <2>2 DEF Validate, configVars, connVars
<1>25. ASSUME NEW p \in Procs, Undo(p) PROVE TypeOK'
  <2>1. /\ proc' = [proc EXCEPT ![p] = Idle]
        /\ config' = [config EXCEPT ![proc[p].pair[1]] = 0]
    BY <1>25 DEF Undo
  <2>2. config' \in [Datasources -> Versions]
    BY <2>1, GoneTyped
  <2>3. proc' \in [Procs -> Procedure]
    BY <2>1 DEF Procedure
  <2> QED
    BY <1>25, <2>2, <2>3 DEF Undo, connVars
<1>26. ASSUME NEW p \in Procs, Unregister(p) PROVE TypeOK'
  <2>1. proc[p].pair \in Pairs /\ proc[p].why \in {"registration", "unregistration"}
    BY <1>26, AtRemoval DEF Unregister, Removals
  <2>2. /\ Step(p, "invalidate", proc[p].pair[1], proc[p].why)
        /\ config' = [config EXCEPT ![proc[p].pair[1]] = 0]
    BY <1>26 DEF Unregister
  <2>3. proc' \in [Procs -> Procedure]
    BY <2>1, <2>2, StepTyped DEF Removals
  <2>4. config' \in [Datasources -> Versions]
    BY <2>2, GoneTyped
  <2> QED
    BY <1>26, <2>3, <2>4 DEF Unregister, connVars
<1>27. ASSUME NEW p \in Procs, InvalidateChanged(p) PROVE TypeOK'
  <2>1. open' \in [ConnIds -> BOOLEAN] /\ cache' \in [Keys -> 0 .. MaxConns]
    BY <1>27, CloseTyped DEF InvalidateChanged, Invalidate, KeysOf
  <2>2. proc' \in [Procs -> Procedure]
    BY <1>27 DEF InvalidateChanged, Procedure
  <2> QED
    BY <1>27, <2>1, <2>2 DEF InvalidateChanged, Invalidate, configVars
<1>12. CASE StartHealthCheck
  <2>1. health' \in Health
    BY <1>12 DEF StartHealthCheck, Health
  <2> QED
    BY <1>12, <2>1 DEF StartHealthCheck, configVars, connVars
<1>13. CASE HealthTick
  <2>1. health' \in Health
    BY <1>13 DEF HealthTick, Health, SQLKeys
  <2> QED
    BY <1>13, <2>1 DEF HealthTick, configVars, connVars
<1>14. CASE HealthExit
  <2>1. health' \in Health
    BY <1>14 DEF HealthExit, Health
  <2> QED
    BY <1>14, <2>1 DEF HealthExit, configVars, connVars
<1>15. ASSUME NEW k \in SQLKeys, PingSucceeds(k) PROVE TypeOK'
  <2>1. health' \in Health
    <3>1. health' = [health EXCEPT !.failures = [health.failures EXCEPT ![k] = 0],
                                   !.snapshot = [health.snapshot EXCEPT ![k] = 0]]
      BY <1>15 DEF PingSucceeds
    <3> QED
      BY <3>1, SettledTyped
  <2>2. fails' \in [ConnIds -> 0 .. MaxFailures]
    <3>1. fails' = [fails EXCEPT ![health.snapshot[k]] = 0]
      BY <1>15 DEF PingSucceeds
    <3>2. 0 \in 0 .. MaxFailures
      OBVIOUS
    <3> QED
      BY <3>1, <3>2, FailsTyped
  <2> QED
    BY <1>15, <2>1, <2>2 DEF PingSucceeds, configVars, connVars
<1>16. ASSUME NEW k \in SQLKeys, PingFails(k) PROVE TypeOK'
  <2>1. health' \in Health
    BY <1>16, CountedTyped DEF PingFails
  <2>2. fails' \in [ConnIds -> 0 .. MaxFailures]
    <3> DEFINE c == health.snapshot[k]
               n == IF fails[c] < MaxFailures THEN fails[c] + 1 ELSE fails[c]
    <3>1. fails' = [fails EXCEPT ![c] = n]
      BY <1>16 DEF PingFails
    <3>2. fails[c] \in 0 .. MaxFailures
      BY <1>16 DEF PingFails, Pinging, Health, ConnIds
    <3>3. n \in 0 .. MaxFailures
      BY <3>2
    <3> HIDE DEF c, n
    <3> QED
      BY <3>1, <3>3, FailsTyped
  <2> QED
    BY <1>16, <2>1, <2>2 DEF PingFails, configVars, connVars
<1>17. ASSUME NEW k \in SQLKeys, Evict(k) PROVE TypeOK'
  <2>1. health' \in Health
    <3>1. health' = [health EXCEPT !.failures = [health.failures EXCEPT ![k] = 0],
                                   !.snapshot = [health.snapshot EXCEPT ![k] = 0],
                                   !.evicting = NoKey]
      BY <1>17 DEF Evict
    <3> QED
      BY <3>1, SettledTyped DEF Health
  <2>2. open' \in [ConnIds -> BOOLEAN] /\ cache' \in [Keys -> 0 .. MaxConns]
    BY <1>17, CloseTyped DEF Evict, SQLKeys
  <2> QED
    BY <1>17, <2>1, <2>2 DEF Evict, configVars
<1>18. CASE StopHealthCheck
  <2>1. health' \in Health
    BY <1>18 DEF StopHealthCheck, Health
  <2> QED
    BY <1>18, <2>1 DEF StopHealthCheck, configVars, connVars
<1>19. CASE DisposeAll
  <2>1. health' \in Health
    BY <1>19 DEF DisposeAll, Health
  <2>2. open' \in [ConnIds -> BOOLEAN] /\ cache' \in [Keys -> 0 .. MaxConns]
    BY <1>19, CloseTyped DEF DisposeAll
  <2> QED
    BY <1>19, <2>1, <2>2 DEF DisposeAll, configVars
<1>20. CASE UNCHANGED vars
  BY <1>20 DEF vars, configVars, connVars
<1> QED
  BY <1>1, <1>2, <1>3, <1>4, <1>5, <1>6, <1>7, <1>8, <1>9, <1>10, <1>11, <1>12, <1>13,
     <1>14, <1>15, <1>16, <1>17, <1>18, <1>19, <1>20, <1>21, <1>22, <1>23, <1>24, <1>25,
     <1>26, <1>27
  DEF Next

-----------------------------------------------------------------------------
(***************************************************************************)
(* The inductive invariant.  That open connections and cached ones are the *)
(* same is not inductive alone: closing one key's connection must not      *)
(* close another's, so a connection has to be cached under its owner only, *)
(* and a new one must be new, so no id above opened may be in use.         *)
(***************************************************************************)

CachedAreOpen ==
    \A k \in Keys : cache[k] # 0 =>
        /\ cache[k] <= opened
        /\ open[cache[k]]
        /\ owner[cache[k]] \in Pairs
        /\ Key(owner[cache[k]]) = k

OpenAreCached ==
    \A c \in ConnIds : open[c] =>
        /\ c <= opened
        /\ owner[c] \in Pairs
        /\ cache[Key(owner[c])] = c

UsedAreOwned ==
    \A p \in Procs : proc[p].pc = "using" =>
        /\ proc[p].conn <= opened
        /\ owner[proc[p].conn] \in Pairs
        /\ Key(owner[proc[p].conn]) = Key(proc[p].pair)

Inv == TypeOK /\ CachedAreOpen /\ OpenAreCached /\ UsedAreOwned

LEMMA InvInit == Init => Inv
<1> SUFFICES ASSUME Init PROVE Inv
  OBVIOUS
<1>1. TypeOK
  BY InitTyped
<1> QED
  BY <1>1 DEF Inv, Init, CachedAreOpen, OpenAreCached, UsedAreOwned, Idle

\* Every section that takes connections out of the cache keeps the invariant,
\* because it closes exactly those.
LEMMA CloseKeepsInv ==
    ASSUME Inv, TypeOK', NEW K \in SUBSET Keys, CloseAndForget(K),
           UNCHANGED <<opened, owner>>,
           \A p \in Procs : proc'[p].pc = "using" => proc'[p] = proc[p]
    PROVE  Inv'
<1> USE DEF Inv, CloseAndForget
<1>1. CachedAreOpen'
  BY DEF CachedAreOpen, TypeOK, ConnIds
<1>2. OpenAreCached'
  BY DEF CachedAreOpen, OpenAreCached, TypeOK
<1>3. UsedAreOwned'
  BY DEF UsedAreOwned
<1> QED
  BY <1>1, <1>2, <1>3

LEMMA InvNext == Inv /\ [Next]_vars => Inv'
<1> SUFFICES ASSUME Inv, [Next]_vars
             PROVE  Inv'
  OBVIOUS
<1>0. TypeOK /\ TypeOK'
  BY NextTyped DEF Inv, UsedAreOwned, UsedAreOfPairs
<1>1. ASSUME UNCHANGED <<cache, opened, owner, open, proc>> PROVE Inv'
  BY <1>0, <1>1 DEF Inv, CachedAreOpen, OpenAreCached, UsedAreOwned
<1>2. ASSUME UNCHANGED <<cache, opened, owner, open>>,
             \A p \in Procs : proc'[p].pc = "using" => proc'[p] = proc[p]
      PROVE  Inv'
  BY <1>0, <1>2 DEF Inv, CachedAreOpen, OpenAreCached, UsedAreOwned
<1>3. ASSUME NEW p \in Procs, Hit(p) PROVE Inv'
  <2>1. CachedAreOpen' /\ OpenAreCached'
    BY <1>3 DEF Inv, Hit, connVars, CachedAreOpen, OpenAreCached
  <2>2. proc[p] \in [pc : {"lock"}, pair : Pairs, why : Whys, version : Versions]
    BY <1>0, <1>3, AtLock DEF Hit
  <2> DEFINE c == cache[Key(proc[p].pair)]
  <2>3. c <= opened /\ owner[c] \in Pairs /\ Key(owner[c]) = Key(proc[p].pair)
    BY <1>3, <2>2 DEF Inv, Hit, CachedAreOpen
  <2>4. /\ proc' = [proc EXCEPT ![p] = [pc |-> "using", pair |-> proc[p].pair,
                                        why |-> proc[p].why, conn |-> c]]
        /\ UNCHANGED <<opened, owner>>
    BY <1>3 DEF Hit, Using, connVars
  <2> HIDE DEF c
  <2>5. UsedAreOwned'
    BY <1>0, <2>3, <2>4 DEF Inv, UsedAreOwned, TypeOK
  <2> QED
    BY <1>0, <2>1, <2>5 DEF Inv
<1>4. ASSUME NEW p \in Procs, Open(p) PROVE Inv'
  <2>1. proc[p] \in [pc : {"lock"}, pair : Pairs, why : Whys, version : Versions]
    BY <1>0, <1>4, AtLock DEF Open
  <2> DEFINE q == proc[p].pair
             k == Key(q)
             c == opened + 1
  <2>2. /\ q \in Pairs /\ k \in Keys /\ c \in ConnIds
        /\ opened' = c
        /\ cache[k] = 0
        /\ owner' = [owner EXCEPT ![c] = q]
        /\ open' = [open EXCEPT ![c] = TRUE]
        /\ cache' = [cache EXCEPT ![k] = c]
        /\ proc' = [proc EXCEPT ![p] = [pc |-> "using", pair |-> q, why |-> proc[p].why,
                                        conn |-> c]]
    BY <1>4, <2>1 DEF Open, Using
  <2>3. /\ opened \in Nat /\ c = opened + 1
        /\ \A d \in ConnIds : d \in Nat /\ d # 0
        /\ owner \in [ConnIds -> Pairs \union {NoPair}]
        /\ open \in [ConnIds -> BOOLEAN] /\ cache \in [Keys -> 0 .. MaxConns]
    BY <1>0 DEF TypeOK, ConnIds
  <2>4. k = Key(q)
    OBVIOUS
  <2>5. CachedAreOpen /\ OpenAreCached /\ UsedAreOwned
    BY DEF Inv
  <2>6. CachedAreOpen'
    <3> HIDE DEF q, k, c
    <3>1. SUFFICES ASSUME NEW l \in Keys, cache'[l] # 0
                   PROVE  /\ cache'[l] <= opened' /\ open'[cache'[l]]
                          /\ owner'[cache'[l]] \in Pairs /\ Key(owner'[cache'[l]]) = l
      BY DEF CachedAreOpen
    <3>2. CASE l = k
      BY <2>2, <2>3, <2>4, <3>2
    <3>3. CASE l # k
      <4>1. cache'[l] = cache[l] /\ cache[l] \in 0 .. MaxConns
        BY <2>2, <2>3, <3>3
      <4>2. /\ cache[l] <= opened /\ open[cache[l]]
            /\ owner[cache[l]] \in Pairs /\ Key(owner[cache[l]]) = l
        BY <2>5, <3>1, <4>1 DEF CachedAreOpen
      <4>3. cache[l] \in ConnIds /\ cache[l] # c
        BY <2>3, <3>1, <4>1, <4>2 DEF ConnIds
      <4> QED
        BY <2>2, <2>3, <4>1, <4>2, <4>3
    <3> QED
      BY <3>2, <3>3
  <2>7. OpenAreCached'
    <3> HIDE DEF q, k, c
    <3>1. SUFFICES ASSUME NEW d \in ConnIds, open'[d]
                   PROVE  d <= opened' /\ owner'[d] \in Pairs /\ cache'[Key(owner'[d])] = d
      BY DEF OpenAreCached
    <3>2. CASE d = c
      BY <2>2, <2>3, <2>4, <3>2
    <3>3. CASE d # c
      <4>1. open[d] /\ owner'[d] = owner[d]
        BY <2>2, <2>3, <3>1, <3>3
      <4>2. d <= opened /\ owner[d] \in Pairs /\ cache[Key(owner[d])] = d
        BY <2>5, <4>1 DEF OpenAreCached
      <4>3. Key(owner[d]) \in Keys /\ Key(owner[d]) # k
        BY <2>2, <2>3, <4>2
      <4> QED
        BY <2>2, <2>3, <4>1, <4>2, <4>3
    <3> QED
      BY <3>2, <3>3
  <2>8. UsedAreOwned'
    <3>1. \A r \in Procs : proc[r].pc = "using" => proc[r].conn \in ConnIds
      BY <1>0, AtUsing
    <3> HIDE DEF q, k, c
    <3>2. c > opened
      BY <2>3
    <3>3. ASSUME NEW r \in Procs, proc'[r].pc = "using"
          PROVE  /\ proc'[r].conn <= opened' /\ owner'[proc'[r].conn] \in Pairs
                 /\ Key(owner'[proc'[r].conn]) = Key(proc'[r].pair)
      <4>1. CASE r = p
        <5>1. proc'[r].conn = c /\ proc'[r].pair = q
          BY <1>0, <2>2, <4>1 DEF TypeOK
        <5> QED
          BY <2>2, <2>3, <5>1
      <4>2. CASE r # p
        <5>1. proc'[r] = proc[r] /\ proc[r].pc = "using"
          BY <1>0, <2>2, <3>3, <4>2 DEF TypeOK
        <5>2. /\ proc[r].conn <= opened /\ owner[proc[r].conn] \in Pairs
              /\ Key(owner[proc[r].conn]) = Key(proc[r].pair)
          BY <2>5, <5>1 DEF UsedAreOwned
        <5>3. proc[r].conn \in ConnIds /\ proc[r].conn # c
          BY <2>3, <3>1, <3>2, <5>1, <5>2
        <5> QED
          BY <2>2, <2>3, <5>1, <5>2, <5>3
      <4> QED
        BY <4>1, <4>2
    <3> QED
      BY <3>3 DEF UsedAreOwned
  <2> QED
    BY <1>0, <2>6, <2>7, <2>8 DEF Inv
<1>5. CASE ReloadCallback
  BY <1>0, <1>5, CloseKeepsInv DEF ReloadCallback, InvalidateAll
<1>6. ASSUME NEW p \in Procs, InvalidateChanged(p) PROVE Inv'
  <2>1. \A r \in Procs : proc'[r].pc = "using" => proc'[r] = proc[r]
    BY <1>0, <1>6 DEF InvalidateChanged, Idle, TypeOK
  <2> QED
    BY <1>0, <1>6, <2>1, CloseKeepsInv DEF InvalidateChanged, Invalidate, KeysOf
<1>7. ASSUME NEW k \in SQLKeys, Evict(k) PROVE Inv'
  <2>1. CASE cache[k] = health.snapshot[k]
    <3>1. {k} \in SUBSET Keys
      BY DEF SQLKeys
    <3> QED
      BY <1>0, <1>7, <2>1, <3>1, CloseKeepsInv DEF Evict
  <2>2. CASE cache[k] # health.snapshot[k]
    BY <1>1, <1>7, <2>2 DEF Evict
  <2> QED
    BY <2>1, <2>2
<1>8. CASE DisposeAll
  BY <1>0, <1>8, CloseKeepsInv DEF DisposeAll
<1>9. ASSUME NEW p \in Procs, NEW q \in Pairs, Get(p, q) PROVE Inv'
  <2>1. \A r \in Procs : proc'[r].pc = "using" => proc'[r] = proc[r]
    BY <1>0, <1>9 DEF Get, TypeOK
  <2> QED
    BY <1>2, <1>9, <2>1 DEF Get, connVars
<1>16. ASSUME NEW p \in Procs, NEW d \in Datasources,
              GetServerInfo(p, d) \/ BeginRegistration(p, d) \/ BeginUnregistration(p, d)
       PROVE  Inv'
  <2>1. \A r \in Procs : proc'[r].pc = "using" => proc'[r] = proc[r]
    BY <1>0, <1>16 DEF GetServerInfo, BeginRegistration, BeginUnregistration, Step, TypeOK
  <2> QED
    BY <1>2, <1>16, <2>1 DEF GetServerInfo, BeginRegistration, BeginUnregistration, connVars
<1>17. ASSUME NEW p \in Procs, Resolve(p) \/ OpenFails(p) PROVE Inv'
  <2>1. \A r \in Procs : proc'[r].pc = "using" => proc'[r] = proc[r]
    BY <1>0, <1>17 DEF Resolve, OpenFails, Refused, Step, Idle, TypeOK
  <2> QED
    BY <1>2, <1>17, <2>1 DEF Resolve, OpenFails, connVars
<1>10. ASSUME NEW p \in Procs, Used(p) \/ ReadInfo(p) \/ StoreInfo(p) PROVE Inv'
  <2>1. \A r \in Procs : proc'[r].pc = "using" => proc'[r] = proc[r]
    BY <1>0, <1>10 DEF Used, ReadInfo, StoreInfo, Idle, TypeOK
  <2> QED
    BY <1>2, <1>10, <2>1 DEF Used, ReadInfo, StoreInfo, connVars
<1>18. ASSUME NEW p \in Procs, Register(p) \/ Validate(p) \/ Undo(p) \/ Unregister(p) PROVE Inv'
  <2>1. \A r \in Procs : proc'[r].pc = "using" => proc'[r] = proc[r]
    BY <1>0, <1>18 DEF Register, Validate, Undo, Unregister, Step, Idle, TypeOK
  <2> QED
    BY <1>2, <1>18, <2>1 DEF Register, Validate, Undo, Unregister, connVars
<1>11. CASE Reload \/ StartHealthCheck \/ HealthTick \/ HealthExit \/ StopHealthCheck
  BY <1>1, <1>11 DEF Reload, StartHealthCheck, HealthTick, HealthExit, StopHealthCheck, connVars
<1>13. ASSUME NEW q \in Pairs, Flip(q) PROVE Inv'
  BY <1>1, <1>13 DEF Flip, connVars
<1>14. ASSUME NEW k \in SQLKeys, PingSucceeds(k) \/ PingFails(k) PROVE Inv'
  BY <1>1, <1>14 DEF PingSucceeds, PingFails, connVars
<1>15. CASE UNCHANGED vars
  BY <1>1, <1>15 DEF vars, connVars
<1> QED
  BY <1>3, <1>4, <1>5, <1>6, <1>7, <1>8, <1>9, <1>10, <1>11, <1>13, <1>14, <1>15,
     <1>16, <1>17, <1>18
  DEF Next

LEMMA Invariance == Spec => []Inv
BY InvInit, InvNext, PTL DEF Spec

\* Every variable keeps its type.
THEOREM TypeCorrect == Spec => []TypeOK
<1>1. Inv => TypeOK
  BY DEF Inv
<1> QED
  BY <1>1, Invariance, PTL

-----------------------------------------------------------------------------
\* No connection leaks and none is handed out closed: the open connections are
\* the cached ones.
THEOREM NoLeak == Spec => []OpenIffCached
<1>1. Inv => OpenIffCached
  <2> SUFFICES ASSUME Inv, NEW c \in ConnIds
               PROVE  open[c] <=> \E k \in Keys : cache[k] = c
    BY DEF OpenIffCached
  <2>1. ASSUME open[c] PROVE \E k \in Keys : cache[k] = c
    BY <2>1 DEF Inv, OpenAreCached
  <2>2. ASSUME NEW k \in Keys, cache[k] = c PROVE open[c]
    BY <2>2 DEF Inv, CachedAreOpen, ConnIds
  <2> QED
    BY <2>1, <2>2
<1> QED
  BY <1>1, Invariance, PTL

\* The letters of a joined text.
LEMMA Joined ==
    ASSUME NEW d \in Seq(Letters), NEW x \in Seq(Letters)
    PROVE  /\ Join(d, x) \in Seq(Letters)
           /\ Len(Join(d, x)) = Len(d) + 2 + Len(x)
           /\ \A i \in 1 .. Len(d) : Join(d, x)[i] = d[i]
           /\ Join(d, x)[Len(d) + 1] = Colon
           /\ \A i \in 1 .. Len(x) : Join(d, x)[Len(d) + 2 + i] = x[i]
<1>1. /\ Joint \in Seq(Letters) /\ Len(Joint) = 2 /\ Joint[1] = Colon
      /\ Len(d) \in Nat /\ Len(x) \in Nat
  BY ConnectionAssumption DEF Joint
<1>2. PICK a : a = d \o Joint
  OBVIOUS
<1>3. /\ a \in Seq(Letters) /\ Len(a) = Len(d) + Len(Joint)
      /\ \A i \in 1 .. Len(d) + Len(Joint) : a[i] = IF i <= Len(d) THEN d[i] ELSE Joint[i - Len(d)]
  <2>1. d \in Seq(Letters) /\ Joint \in Seq(Letters)
    BY <1>1
  <2> QED
    BY <1>2, <2>1, ConcatProperties, Zenon
<1>4. /\ Len(a) = Len(d) + 2
      /\ \A i \in 1 .. Len(d) : a[i] = d[i]
      /\ a[Len(d) + 1] = Colon
  <2>1. \A i \in 1 .. Len(d) : i \in 1 .. Len(d) + Len(Joint) /\ i <= Len(d)
    BY <1>1
  <2>2. /\ Len(d) + 1 \in 1 .. Len(d) + Len(Joint) /\ ~(Len(d) + 1 <= Len(d))
        /\ (Len(d) + 1) - Len(d) = 1
    BY <1>1
  <2>3. a[Len(d) + 1] = Joint[1]
    BY <1>3, <2>2, Zenon
  <2>4. \A i \in 1 .. Len(d) : a[i] = d[i]
    BY <1>3, <2>1, Zenon
  <2> QED
    BY <1>1, <1>3, <2>3, <2>4
<1>5. PICK s : s = a \o x
  OBVIOUS
<1>6. /\ s \in Seq(Letters) /\ Len(s) = Len(a) + Len(x)
      /\ \A i \in 1 .. Len(a) + Len(x) : s[i] = IF i <= Len(a) THEN a[i] ELSE x[i - Len(a)]
  <2>1. a \in Seq(Letters) /\ x \in Seq(Letters)
    BY <1>3
  <2> QED
    BY <1>5, <2>1, ConcatProperties, Zenon
<1>7. /\ Len(s) = Len(d) + 2 + Len(x)
      /\ \A i \in 1 .. Len(d) : s[i] = d[i]
      /\ s[Len(d) + 1] = Colon
      /\ \A i \in 1 .. Len(x) : s[Len(d) + 2 + i] = x[i]
  <2>1. /\ \A i \in 1 .. Len(d) : i \in 1 .. Len(a) + Len(x) /\ i <= Len(a)
        /\ Len(d) + 1 \in 1 .. Len(a) + Len(x) /\ Len(d) + 1 <= Len(a)
    BY <1>1, <1>4
  <2>2. \A i \in 1 .. Len(x) : /\ Len(d) + 2 + i \in 1 .. Len(a) + Len(x)
                               /\ ~(Len(d) + 2 + i <= Len(a))
                               /\ (Len(d) + 2 + i) - Len(a) = i
    BY <1>1, <1>4
  <2>3. \A i \in 1 .. Len(d) : s[i] = d[i]
    BY <1>4, <1>6, <2>1, Zenon
  <2>4. s[Len(d) + 1] = Colon
    BY <1>4, <1>6, <2>1, Zenon
  <2>5. \A i \in 1 .. Len(x) : s[Len(d) + 2 + i] = x[i]
    BY <1>6, <2>2, Zenon
  <2> QED
    BY <1>4, <1>6, <2>3, <2>4, <2>5
<1>8. s = Join(d, x)
  BY <1>2, <1>5 DEF Join
<1> QED
  BY <1>6, <1>7, <1>8

\* Where the first name has no colon, the text that joins two names has only
\* one reading: the joint is its first colon.
LEMMA JoinedOnce ==
    ASSUME NEW d1 \in Seq(Letters), NEW d2 \in Seq(Letters),
           NEW x \in Seq(Letters), NEW y \in Seq(Letters),
           Plain(d1), Plain(d2), Join(d1, x) = Join(d2, y)
    PROVE  d1 = d2 /\ x = y
<1> DEFINE s == Join(d1, x)
           t == Join(d2, y)
<1>1. /\ Len(s) = Len(d1) + 2 + Len(x)
      /\ \A i \in 1 .. Len(d1) : s[i] = d1[i]
      /\ s[Len(d1) + 1] = Colon
      /\ \A i \in 1 .. Len(x) : s[Len(d1) + 2 + i] = x[i]
  BY Joined
<1>2. /\ Len(t) = Len(d2) + 2 + Len(y)
      /\ \A i \in 1 .. Len(d2) : t[i] = d2[i]
      /\ t[Len(d2) + 1] = Colon
      /\ \A i \in 1 .. Len(y) : t[Len(d2) + 2 + i] = y[i]
  BY Joined
<1>3. s = t
  OBVIOUS
<1>4. /\ \A i \in 1 .. Len(d1) : d1[i] # Colon
      /\ \A i \in 1 .. Len(d2) : d2[i] # Colon
  BY DEF Plain
<1>5. Len(d1) \in Nat /\ Len(d2) \in Nat /\ Len(x) \in Nat /\ Len(y) \in Nat
  OBVIOUS
<1> HIDE DEF s, t
<1>6. Len(d1) = Len(d2)
  <2>1. ~(Len(d1) < Len(d2))
    <3>1. SUFFICES ASSUME Len(d1) < Len(d2) PROVE FALSE
      OBVIOUS
    <3>2. Len(d1) + 1 \in 1 .. Len(d2)
      BY <1>5, <3>1
    <3> QED
      BY <1>1, <1>2, <1>3, <1>4, <3>2
  <2>2. ~(Len(d2) < Len(d1))
    <3>1. SUFFICES ASSUME Len(d2) < Len(d1) PROVE FALSE
      OBVIOUS
    <3>2. Len(d2) + 1 \in 1 .. Len(d1)
      BY <1>5, <3>1
    <3> QED
      BY <1>1, <1>2, <1>3, <1>4, <3>2
  <2> QED
    BY <1>5, <2>1, <2>2
<1>7. d1 = d2
  BY <1>1, <1>2, <1>3, <1>6, SeqEqual
<1>8. x = y
  BY <1>1, <1>2, <1>3, <1>5, <1>6, SeqEqual
<1> QED
  BY <1>7, <1>8

\* So a key belongs to one pair as long as the datasources have no colon.
LEMMA KeyOfOnePair ==
    ASSUME NEW q \in Pairs, NEW r \in Pairs, Plain(q[1]), Plain(r[1]), Key(q) = Key(r)
    PROVE  q = r
<1>1. /\ q = <<q[1], q[2]>> /\ r = <<r[1], r[2]>>
      /\ q[1] \in Datasources /\ q[2] \in Databases
      /\ r[1] \in Datasources /\ r[2] \in Databases
  BY ConnectionAssumption
<1>2. /\ q[1] \in Seq(Letters) /\ q[2] \in Seq(Letters)
      /\ r[1] \in Seq(Letters) /\ r[2] \in Seq(Letters)
  BY <1>1, ConnectionAssumption
<1>3. CASE q[1] \in NonSQL
  <2>1. r[1] \in NonSQL /\ q[1] = r[1]
    BY <1>3 DEF Key
  <2> QED
    BY <1>3, <2>1, ConnectionAssumption
<1>4. CASE q[1] \notin NonSQL
  <2>1. Join(q[1], q[2]) = Join(r[1], r[2])
    BY <1>4 DEF Key
  <2>2. q[1] = r[1] /\ q[2] = r[2]
    BY <1>2, <2>1, JoinedOnce
  <2> QED
    BY <1>1, <2>2
<1> QED
  BY <1>3, <1>4

\* A handler only ever holds a connection to the datasource and database it
\* asked for, unless a datasource's name has a colon in it.
THEOREM NoMixup == Spec => []RightDatabase
<1>1. Inv => RightDatabase
  <2> SUFFICES ASSUME Inv, NEW p \in Procs, proc[p].pc = "using",
                      Plain(owner[proc[p].conn][1]), Plain(proc[p].pair[1])
               PROVE  owner[proc[p].conn] = proc[p].pair
    BY DEF RightDatabase
  <2>1. proc[p].pair \in Pairs
    BY AtUsing DEF Inv
  <2> QED
    BY <2>1, KeyOfOnePair DEF Inv, UsedAreOwned
<1> QED
  BY <1>1, Invariance, PTL

-----------------------------------------------------------------------------
\* Between a failed ping and the eviction nothing takes the failure back.
EvictingHasFailed ==
    health.evicting # NoKey =>
        /\ health.evicting \in SQLKeys
        /\ health.snapshot[health.evicting] \in ConnIds
        /\ fails[health.snapshot[health.evicting]] > 0

LEMMA EvictingInvariance == Spec => []EvictingHasFailed
<1>1. Init => EvictingHasFailed
  BY DEF Init, EvictingHasFailed
<1>2. TypeOK /\ TypeOK' /\ EvictingHasFailed /\ [Next]_vars => EvictingHasFailed'
  <2> SUFFICES ASSUME TypeOK, TypeOK', EvictingHasFailed, [Next]_vars
               PROVE  EvictingHasFailed'
    OBVIOUS
  <2>1. ASSUME UNCHANGED <<health, fails>> PROVE EvictingHasFailed'
    BY <2>1 DEF EvictingHasFailed
  <2>2. ASSUME health'.evicting = NoKey PROVE EvictingHasFailed'
    BY <2>2 DEF EvictingHasFailed
  <2>3. CASE StartHealthCheck \/ StopHealthCheck \/ DisposeAll \/ HealthExit
    <3>1. /\ health'.evicting = health.evicting
          /\ health'.snapshot = health.snapshot
          /\ fails' = fails
      <4>1. CASE StartHealthCheck
        BY <4>1 DEF StartHealthCheck, TypeOK, Health
      <4>2. CASE StopHealthCheck
        BY <4>2 DEF StopHealthCheck, TypeOK, Health
      <4>3. CASE DisposeAll
        BY <4>3 DEF DisposeAll, TypeOK, Health
      <4>4. CASE HealthExit
        BY <4>4 DEF HealthExit, TypeOK, Health
      <4> QED
        BY <2>3, <4>1, <4>2, <4>3, <4>4
    <3> QED
      BY <3>1 DEF EvictingHasFailed
  <2>4. CASE HealthTick
    BY <2>2, <2>4 DEF HealthTick, AtSelect, TypeOK, Health
  <2>5. ASSUME NEW k \in SQLKeys, PingSucceeds(k) PROVE EvictingHasFailed'
    BY <2>2, <2>5 DEF PingSucceeds, Pinging, TypeOK, Health
  <2>6. ASSUME NEW k \in SQLKeys, PingFails(k) PROVE EvictingHasFailed'
    <3> DEFINE c == health.snapshot[k]
    <3>1. c \in ConnIds
      BY <2>6 DEF PingFails, Pinging, TypeOK, Health, ConnIds
    <3>2. fails'[c] > 0
      <4>1. fails' = [fails EXCEPT ![c] = IF fails[c] < MaxFailures THEN fails[c] + 1 ELSE fails[c]]
        BY <2>6 DEF PingFails
      <4>2. fails[c] \in 0 .. MaxFailures
        BY <3>1 DEF TypeOK
      <4> HIDE DEF c
      <4> QED
        BY <3>1, <4>1, <4>2 DEF TypeOK
    <3>3. \/ health'.evicting = NoKey
          \/ health'.evicting = k /\ health'.snapshot = health.snapshot
      BY <2>6 DEF PingFails, Pinging, TypeOK, Health
    <3> QED
      BY <3>1, <3>2, <3>3 DEF EvictingHasFailed
  <2>7. ASSUME NEW k \in SQLKeys, Evict(k) PROVE EvictingHasFailed'
    BY <2>2, <2>7 DEF Evict, TypeOK, Health
  <2> QED
    BY <2>1, <2>3, <2>4, <2>5, <2>6, <2>7
    DEF Next, vars, Reload, ReloadCallback, BeginRegistration, BeginUnregistration, Register,
        Validate, Undo, Unregister, InvalidateChanged, Flip, Get, GetServerInfo, Resolve, Hit,
        Open, OpenFails, Used, ReadInfo, StoreInfo
<1> QED
  BY <1>1, <1>2, TypeCorrect, PTL DEF Spec

\* The health check evicts no connection that did not itself fail a ping.
THEOREM EvictionJustified == Spec => EvictsOnlyFailed
<1>1. TypeOK /\ TypeOK' /\ EvictingHasFailed /\ [Next]_vars
        => [EvictStep => \A c \in ConnIds : (open[c] /\ ~open'[c]) => fails[c] > 0]_vars
  <2> SUFFICES ASSUME TypeOK, TypeOK', EvictingHasFailed, [Next]_vars, EvictStep
               PROVE  \A c \in ConnIds : (open[c] /\ ~open'[c]) => fails[c] > 0
    OBVIOUS
  <2>1. CASE \E k \in SQLKeys : Evict(k)
    <3>1. PICK k \in SQLKeys : Evict(k)
      BY <2>1
    <3>2. fails[health.snapshot[k]] > 0
      BY <3>1 DEF Evict, EvictingHasFailed, SQLKeys
    <3>3. ASSUME NEW c \in ConnIds, open[c], ~open'[c] PROVE c = health.snapshot[k]
      BY <3>1, <3>3 DEF Evict, CloseAndForget, TypeOK
    <3> QED
      BY <3>2, <3>3
  <2>2. CASE open' = open
    BY <2>2
  <2>3. CASE health'.evicting = health.evicting
    BY <2>3 DEF EvictStep
  <2>4. CASE DisposeAll \/ ReloadCallback \/ \E p \in Procs : InvalidateChanged(p)
    BY <2>3, <2>4 DEF DisposeAll, ReloadCallback, InvalidateChanged, TypeOK, Health
  <2>5. ASSUME NEW p \in Procs, Open(p) PROVE health' = health
    BY <2>5 DEF Open
  <2> QED
    BY <2>1, <2>2, <2>3, <2>4, <2>5
    DEF Next, vars, connVars, Reload, BeginRegistration, BeginUnregistration, Register, Validate,
        Undo, Unregister, Flip, Get, GetServerInfo, Resolve, Hit, OpenFails, Used, ReadInfo,
        StoreInfo, StartHealthCheck, HealthTick, HealthExit, PingSucceeds, PingFails,
        StopHealthCheck
<1> QED
  BY <1>1, TypeCorrect, EvictingInvariance, PTL DEF Spec, EvictsOnlyFailed

-----------------------------------------------------------------------------
(***************************************************************************)
(* What holds in place of two comments that the code does not keep         *)
(* (ReloadTakesEffect and DisposeEnds in ConnectionService).               *)
(***************************************************************************)

\* Invalidate finds every connection of its datasource.
LEMMA InvalidateFinds ==
    ASSUME NEW q \in Pairs
    PROVE  Key(q) \in KeysOf(q[1])
<1>1. Key(q) \in Keys
  OBVIOUS
<1>2. CASE q[1] \in NonSQL
  BY <1>1, <1>2 DEF KeysOf, Key
<1>3. CASE q[1] \notin NonSQL
  <2>1. Joint \in Seq(Letters) /\ q[1] \in Seq(Letters) /\ q[2] \in Seq(Letters)
    BY ConnectionAssumption DEF Joint
  <2>2. StartsWith(Join(q[1], q[2]), q[1] \o Joint)
    <3> DEFINE a == q[1] \o Joint
    <3>1. a \in Seq(Letters)
      BY <2>1
    <3> HIDE DEF a
    <3>2. StartsWith(a \o q[2], a)
      BY <2>1, <3>1 DEF StartsWith
    <3>3. a \o q[2] = Join(q[1], q[2])
      BY DEF a, Join
    <3> QED
      BY <3>2, <3>3 DEF a
  <2> QED
    BY <1>1, <1>3, <2>2 DEF KeysOf, Key
<1> QED
  BY <1>2, <1>3

\* The cache after closing.
LEMMA ClosedAreGone ==
    ASSUME NEW K, CloseAndForget(K)
    PROVE  \A k \in Keys : cache'[k] = IF k \in K THEN 0 ELSE cache[k]
BY DEF CloseAndForget

\* A handler that changes a datasource goes on with it, until it invalidates
\* or gives up.
LEMMA ChangeGoesOn ==
    ASSUME TypeOK, NEW p \in Procs, NEW d, Changes(p, d),
           \/ Register(p) \/ Validate(p) \/ Unregister(p)
           \/ Resolve(p) \/ Hit(p) \/ Open(p) \/ OpenFails(p)
    PROVE  Changes(p, d)'
<1>1. proc[p].pair \in Pairs /\ proc[p].pair[1] = d /\ d \in Datasources
  BY AtTry, AtRemoval, AtLock, AtUsing DEF Changes
<1>2. proc[p].why \in {"registration", "unregistration"}
  BY DEF Changes
<1>3. ASSUME NEW pc \in Tries \union Removals, NEW why \in {"registration", "unregistration"}, Step(p, pc, d, why)
      PROVE  Changes(p, d)'
  BY <1>1, <1>3 DEF Step, Changes, TypeOK
<1>4. ASSUME NEW c, Using(p, c) PROVE Changes(p, d)'
  BY <1>1, <1>2, <1>4 DEF Using, Changes, TypeOK
<1>5. CASE Register(p) \/ Validate(p) \/ Unregister(p)
  BY <1>1, <1>2, <1>3, <1>5 DEF Register, Validate, Unregister, Tries, Removals
<1>6. CASE Hit(p) \/ Open(p)
  BY <1>4, <1>6 DEF Hit, Open
<1>7. CASE OpenFails(p)
  <2>1. proc[p].pc = "lock" /\ Refused(p)
    BY <1>7 DEF OpenFails
  <2>2. proc[p].why = "registration"
    BY <1>2, <2>1, AtLock DEF Whys
  <2> QED
    BY <1>1, <1>3, <2>1, <2>2 DEF Refused, Tries
<1>8. CASE Resolve(p)
  <2>1. CASE config[d] = 0
    <3>1. proc[p].why = "registration"
      BY <1>2, <1>8, AtTry DEF Resolve, Tries, Whys
    <3> QED
      BY <1>1, <1>3, <1>8, <2>1, <3>1 DEF Resolve, Refused, Tries
  <2>2. CASE config[d] # 0
    BY <1>1, <1>2, <1>8, <2>2 DEF Resolve, Changes, TypeOK
  <2> QED
    BY <2>1, <2>2
<1> QED
  BY <1>5, <1>6, <1>7, <1>8

\* What can become of a datasource's configuration in a step: a change of it is
\* under way afterwards, or none was before and none was made, or everything
\* cached for it has been removed, or a registration has been undone.
Removed(d) ==
    /\ infoCache'[d] = NoInfo
    /\ \A k \in Keys : cache'[k] # 0 => owner'[cache'[k]][1] # d

LEMMA Fates ==
    ASSUME Inv, TypeOK', [Next]_vars, NEW d \in Datasources
    PROVE  \/ Applying(d)'
           \/ ~Applying(d) /\ config'[d] = config[d]
           \/ Removed(d)
           \/ Undone(d)
<1> SUFFICES ASSUME ~Applying(d)' PROVE \/ ~Applying(d) /\ config'[d] = config[d]
                                        \/ Removed(d) \/ Undone(d)
  OBVIOUS
<1>0. TypeOK
  BY DEF Inv
<1>1. ASSUME UNCHANGED <<config, reloading, proc>> PROVE ~Applying(d) /\ config'[d] = config[d]
  BY <1>1 DEF Applying, Changes
<1>2. CASE Reload
  BY <1>2 DEF Reload, Applying
<1>3. CASE ReloadCallback
  BY <1>3, ClosedAreGone DEF ReloadCallback, InvalidateAll, Removed
\* Of the other handlers' changes nothing becomes.
<1>4. ASSUME NEW p \in Procs, UNCHANGED reloading, Changes(p, d) => Changes(p, d)',
             \A r \in Procs : r # p => proc'[r] = proc[r]
      PROVE  ~Applying(d)
  BY <1>4 DEF Applying, Changes
<1>5. ASSUME NEW p \in Procs, Register(p) \/ Unregister(p) \/ Validate(p)
                              \/ Resolve(p) \/ Hit(p) \/ Open(p) \/ OpenFails(p)
      PROVE  ~Applying(d) /\ config'[d] = config[d]
  <2>1. Changes(p, d) => Changes(p, d)'
    BY <1>0, <1>5, ChangeGoesOn
  <2>2. UNCHANGED reloading /\ \A r \in Procs : r # p => proc'[r] = proc[r]
    BY <1>0, <1>5 DEF Register, Unregister, Validate, Resolve, Hit, Open, OpenFails, Refused,
       Step, Using, configVars, TypeOK
  <2>3. ~Changes(p, d)
    BY <2>1 DEF Applying
  <2>4. config'[d] = config[d]
    <3>1. CASE Register(p) \/ Unregister(p)
      <4>1. proc[p].pair[1] # d
        <5>1. CASE Register(p)
          <6>1. Step(p, "resolve", proc[p].pair[1], "registration") /\ proc[p].pair \in Pairs
            BY <1>0, <5>1, AtTry DEF Register, Tries
          <6> QED
            BY <1>0, <6>1 DEF Step, Applying, Changes, Tries, TypeOK
        <5>2. CASE Unregister(p)
          BY <1>0, <2>3, <5>2, AtRemoval DEF Unregister, Changes, Removals
        <5> QED
          BY <3>1, <5>1, <5>2
      <4> QED
        BY <1>0, <3>1, <4>1 DEF Register, Unregister, TypeOK
    <3>2. CASE Validate(p) \/ Resolve(p) \/ Hit(p) \/ Open(p) \/ OpenFails(p)
      BY <3>2 DEF Validate, Resolve, Hit, Open, OpenFails, configVars
    <3> QED
      BY <1>5, <3>1, <3>2
  <2> QED
    BY <1>4, <2>1, <2>2, <2>4
<1>6. ASSUME NEW p \in Procs, Undo(p) PROVE  \/ ~Applying(d) /\ config'[d] = config[d]
             \/ Undone(d)
  <2>1. CASE proc[p].pair[1] = d
    BY <1>6, <2>1 DEF Undone
  <2>2. CASE proc[p].pair[1] # d
    <3>1. UNCHANGED reloading /\ ~Changes(p, d) /\ \A r \in Procs : r # p => proc'[r] = proc[r]
      BY <1>0, <1>6, <2>2 DEF Undo, Changes, TypeOK
    <3>2. config'[d] = config[d]
      BY <1>0, <1>6, <2>2 DEF Undo, TypeOK
    <3> QED
      BY <1>4, <3>1, <3>2
  <2> QED
    BY <2>1, <2>2
<1>7. ASSUME NEW p \in Procs, InvalidateChanged(p)
      PROVE  \/ ~Applying(d) /\ config'[d] = config[d]
             \/ Removed(d)
  <2>1. CASE proc[p].pair[1] = d
    <3>1. CloseAndForget(KeysOf(d)) /\ infoCache' = [infoCache EXCEPT ![d] = NoInfo]
          /\ owner' = owner
      BY <1>7, <2>1 DEF InvalidateChanged, Invalidate
    <3>2. \A k \in Keys : cache'[k] = IF k \in KeysOf(d) THEN 0 ELSE cache[k]
      BY <3>1, ClosedAreGone
    <3>3. ASSUME NEW k \in Keys, cache'[k] # 0, owner'[cache'[k]][1] = d PROVE FALSE
      <4>1. cache[k] # 0 /\ owner[cache[k]][1] = d /\ k \notin KeysOf(d)
        BY <3>1, <3>2, <3>3
      <4> QED
        BY <4>1, InvalidateFinds DEF Inv, CachedAreOpen
    <3> QED
      BY <1>0, <3>1, <3>3 DEF Removed, TypeOK
  <2>2. CASE proc[p].pair[1] # d
    <3>1. UNCHANGED <<reloading, config>> /\ ~Changes(p, d)
          /\ \A r \in Procs : r # p => proc'[r] = proc[r]
      BY <1>0, <1>7, <2>2 DEF InvalidateChanged, Changes, TypeOK, configVars
    <3> QED
      BY <1>4, <3>1
  <2> QED
    BY <2>1, <2>2
<1>8. ASSUME NEW p \in Procs,
             \/ \E e \in Datasources : \/ BeginRegistration(p, e) \/ BeginUnregistration(p, e)
                                       \/ GetServerInfo(p, e)
             \/ \E q \in Pairs : Get(p, q)
             \/ Used(p) \/ ReadInfo(p) \/ StoreInfo(p)
      PROVE  ~Applying(d) /\ config'[d] = config[d]
  <2>1. ~Changes(p, d)
    BY <1>0, <1>8, AtUsing DEF BeginRegistration, BeginUnregistration, GetServerInfo, Get, Used, ReadInfo,
       StoreInfo, Changes, Idle, Tries, Removals
  <2>2. UNCHANGED <<reloading, config>> /\ \A r \in Procs : r # p => proc'[r] = proc[r]
    BY <1>0, <1>8 DEF BeginRegistration, BeginUnregistration, GetServerInfo, Get, Used, ReadInfo,
       StoreInfo, Step, TypeOK, configVars
  <2> QED
    BY <1>4, <2>1, <2>2
<1> QED
  BY <1>1, <1>2, <1>3, <1>5, <1>6, <1>7, <1>8
  DEF Next, vars, configVars, connVars, Flip, StartHealthCheck, HealthTick, HealthExit,
      PingSucceeds, PingFails, Evict, StopHealthCheck, DisposeAll

\* What is in the cache after a step was there before, or has just been opened ...
LEMMA CachedOrOpened ==
    ASSUME Inv, TypeOK', [Next]_vars, NEW k \in Keys, cache'[k] # 0
    PROVE  LET c == cache'[k]
           IN  \/ c = cache[k] /\ owner'[c] = owner[c] /\ dsn'[c] = dsn[c]
               \/ \E p \in Procs : /\ Open(p)
                                    /\ Key(proc[p].pair) = k
                                    /\ owner'[c] = proc[p].pair
                                    /\ dsn'[c] = proc[p].version
<1>0. TypeOK
  BY DEF Inv
<1>1. ASSUME UNCHANGED <<owner, dsn>>, cache'[k] \in {0, cache[k]}
      PROVE  cache'[k] = cache[k] /\ owner'[cache'[k]] = owner[cache'[k]]
             /\ dsn'[cache'[k]] = dsn[cache'[k]]
  BY <1>1
<1>2. ASSUME NEW p \in Procs, Open(p)
      PROVE  \/ /\ cache'[k] = cache[k] /\ owner'[cache'[k]] = owner[cache'[k]]
                /\ dsn'[cache'[k]] = dsn[cache'[k]]
             \/ /\ Key(proc[p].pair) = k /\ owner'[cache'[k]] = proc[p].pair
                /\ dsn'[cache'[k]] = proc[p].version
  <2> DEFINE q == proc[p].pair
             c == opened + 1
  <2>1. /\ q \in Pairs /\ Key(q) \in Keys /\ c \in ConnIds
        /\ owner' = [owner EXCEPT ![c] = q]
        /\ dsn' = [dsn EXCEPT ![c] = proc[p].version]
        /\ cache' = [cache EXCEPT ![Key(q)] = c]
    BY <1>0, <1>2, AtLock DEF Open
  <2>2. /\ owner \in [ConnIds -> Pairs \union {NoPair}]
        /\ dsn \in [ConnIds -> Versions] /\ cache \in [Keys -> 0 .. MaxConns]
    BY <1>0 DEF TypeOK
  <2>3. CASE Key(q) = k
    <3> HIDE DEF c, q
    <3>1. cache'[k] = c /\ owner'[c] = q /\ dsn'[c] = proc[p].version
      BY <2>1, <2>2, <2>3
    <3> QED
      BY <2>3, <3>1 DEF q
  <2>4. CASE Key(q) # k
    <3>1. cache'[k] = cache[k]
      BY <2>1, <2>2, <2>4
    <3>2. cache[k] \in ConnIds /\ cache[k] # c
      BY <1>0, <3>1 DEF Inv, CachedAreOpen, TypeOK, ConnIds
    <3> HIDE DEF c, q
    <3> QED
      BY <2>1, <2>2, <3>1, <3>2
  <2> QED
    BY <2>3, <2>4
<1>3. CASE ReloadCallback
  BY <1>1, <1>3, ClosedAreGone DEF ReloadCallback, InvalidateAll
<1>4. ASSUME NEW p \in Procs, InvalidateChanged(p)
      PROVE  UNCHANGED <<owner, dsn>> /\ cache'[k] \in {0, cache[k]}
  BY <1>4, ClosedAreGone DEF InvalidateChanged, Invalidate
<1>5. ASSUME NEW l \in SQLKeys, Evict(l)
      PROVE  UNCHANGED <<owner, dsn>> /\ cache'[k] \in {0, cache[k]}
  BY <1>5, ClosedAreGone DEF Evict
<1>6. CASE DisposeAll
  BY <1>1, <1>6, ClosedAreGone DEF DisposeAll
<1>7. CASE UNCHANGED <<cache, connVars>>
  BY <1>1, <1>7 DEF connVars
<1> QED
  BY <1>1, <1>2, <1>3, <1>4, <1>5, <1>6, <1>7
  DEF Next, vars, Reload, BeginRegistration, BeginUnregistration, Register, Validate, Undo,
      Unregister, Flip, Get, GetServerInfo, Resolve, Hit, OpenFails, Used, ReadInfo, StoreInfo,
      StartHealthCheck, HealthTick, HealthExit, PingSucceeds, PingFails, StopHealthCheck

\* ... and so has the metadata.
LEMMA KeptOrStored ==
    ASSUME Inv, [Next]_vars, NEW d \in Datasources
    PROVE  \/ infoCache'[d] \in {NoInfo, infoCache[d]}
           \/ \E p \in Procs : /\ StoreInfo(p)
                                /\ proc[p].pair[1] = d
                                /\ infoCache'[d] = proc[p].read
<1>0. TypeOK
  BY DEF Inv
<1>1. CASE ReloadCallback
  BY <1>1 DEF ReloadCallback, InvalidateAll
<1>2. ASSUME NEW p \in Procs, InvalidateChanged(p) PROVE infoCache'[d] \in {NoInfo, infoCache[d]}
  BY <1>0, <1>2 DEF InvalidateChanged, Invalidate, TypeOK
<1>3. ASSUME NEW p \in Procs, StoreInfo(p)
      PROVE  \/ infoCache'[d] = infoCache[d]
             \/ proc[p].pair[1] = d /\ infoCache'[d] = proc[p].read
  BY <1>0, <1>3 DEF StoreInfo, TypeOK
<1>4. CASE infoCache' = infoCache
  BY <1>4
<1> QED
  BY <1>1, <1>2, <1>3, <1>4
  DEF Next, vars, Reload, BeginRegistration, BeginUnregistration, Register, Validate, Undo,
      Unregister, Flip, Get, GetServerInfo, Resolve, Hit, Open, OpenFails, Used, ReadInfo,
      StartHealthCheck, HealthTick, HealthExit, PingSucceeds, PingFails, Evict,
      StopHealthCheck, DisposeAll

\* What is cached becomes outdated when a late handler puts it there or when a
\* failed registration is undone, and in no other way.
THEOREM OnlyLateOrUndone == Spec => OutdatedOnlyLateOrUndone
<1>1. ASSUME Inv, TypeOK', [Next]_vars, NEW k \in Keys, Outdated(k)', ~Outdated(k)
      PROVE  LateOpen(k) \/ Undone(owner[cache[k]][1])
  <2> DEFINE c == cache'[k]
  <2>0. PICK d : d = owner'[c][1]
    OBVIOUS
  <2>1. c # 0 /\ ~Applying(d)' /\ dsn'[c] # config'[d]
    BY <1>1, <2>0 DEF Outdated, OutdatedConn, Applying, Changes
  <2>2. CASE c = cache[k] /\ owner'[c] = owner[c] /\ dsn'[c] = dsn[c]
    <3>1. d \in Datasources /\ d = owner[cache[k]][1]
      BY <1>1, <2>0, <2>1, <2>2 DEF Inv, CachedAreOpen
    <3>2. ~Removed(d)
      BY <2>0, <2>1 DEF Removed
    <3>3. ~(~Applying(d) /\ config'[d] = config[d])
      BY <1>1, <2>1, <2>2, <3>1 DEF Outdated, OutdatedConn
    <3> HIDE DEF c
    <3>4. Undone(d)
      BY <1>1, <2>1, <3>1, <3>2, <3>3, Fates
    <3> QED
      BY <3>1, <3>4
  <2>3. CASE \E p \in Procs : /\ Open(p) /\ Key(proc[p].pair) = k
                              /\ owner'[c] = proc[p].pair /\ dsn'[c] = proc[p].version
    <3>1. PICK p \in Procs : /\ Open(p) /\ Key(proc[p].pair) = k
                             /\ owner'[c] = proc[p].pair /\ dsn'[c] = proc[p].version
      BY <2>3
    <3>2. config' = config
      BY <3>1 DEF Open, configVars
    <3> QED
      BY <2>0, <2>1, <3>1, <3>2 DEF LateOpen
  <2> QED
    BY <1>1, <2>1, <2>2, <2>3, CachedOrOpened
<1>2. ASSUME Inv, TypeOK', [Next]_vars, NEW d \in Datasources, OutdatedInfo(d)', ~OutdatedInfo(d)
      PROVE  LateInfo(d) \/ Undone(d)
  <2>1. ~Applying(d)' /\ infoCache'[d] \notin {NoInfo, <<d, config'[d]>>}
    BY <1>2 DEF OutdatedInfo
  <2>2. CASE infoCache'[d] \in {NoInfo, infoCache[d]}
    BY <1>2, <2>1, <2>2, Fates DEF OutdatedInfo, Removed
  <2>3. CASE \E p \in Procs : /\ StoreInfo(p) /\ proc[p].pair[1] = d
                              /\ infoCache'[d] = proc[p].read
    BY <2>1, <2>3 DEF StoreInfo, configVars, LateInfo
  <2> QED
    BY <1>2, <2>2, <2>3, KeptOrStored
<1>3. Inv /\ TypeOK' /\ [Next]_vars =>
        [/\ \A k \in Keys : Outdated(k)' /\ ~Outdated(k) =>
              LateOpen(k) \/ Undone(owner[cache[k]][1])
         /\ \A d \in Datasources : OutdatedInfo(d)' /\ ~OutdatedInfo(d) =>
              LateInfo(d) \/ Undone(d)]_vars
  BY <1>1, <1>2
<1> QED
  BY <1>3, Invariance, TypeCorrect, PTL DEF Spec, OutdatedOnlyLateOrUndone

\* The channel that StopHealthCheck waits for is never closed, because the field
\* through which the goroutine finds it is cleared first.
Unclosed ==
    /\ health.dispose = "no" =>
         /\ ~health.closed /\ ~health.cancelled
         /\ health.done <=> health.goroutine # "unborn"
    /\ health.dispose = "waiting" =>
         /\ ~health.closed /\ ~health.done
         /\ health.waits <=> health.goroutine # "unborn"
    /\ health.dispose = "ended" => health.goroutine = "unborn"

\* The shutdown ends only where no health check was ever started: once one was,
\* StopHealthCheck does not return and DisposeAll closes nothing, whatever the
\* goroutine, its pings and the handlers do.  No race is needed for it.
THEOREM DisposeEndsUnstarted == Spec => [](health.dispose = "ended" => health.goroutine = "unborn")
<1>1. Init => Unclosed
  BY DEF Init, Unclosed
<1>2. TypeOK /\ Unclosed /\ [Next]_vars => Unclosed'
  <2> SUFFICES ASSUME TypeOK, Unclosed, [Next]_vars PROVE Unclosed'
    OBVIOUS
  <2>0. health \in Health
    BY DEF TypeOK
  <2> DEFINE Same == /\ health'.dispose = health.dispose /\ health'.closed = health.closed
                     /\ health'.cancelled = health.cancelled /\ health'.done = health.done
                     /\ health'.goroutine = health.goroutine /\ health'.waits = health.waits
  <2>1. ASSUME Same PROVE Unclosed'
    BY <2>1 DEF Unclosed
  <2>2. CASE health' = health
    BY <2>1, <2>2
  <2>3. CASE HealthTick
    BY <2>0, <2>1, <2>3 DEF HealthTick, Health
  <2>4. ASSUME NEW k \in SQLKeys, PingSucceeds(k) \/ PingFails(k) \/ Evict(k) PROVE Unclosed'
    <3>1. CASE PingSucceeds(k)
      BY <2>0, <2>1, <3>1 DEF PingSucceeds, Health
    <3>2. CASE PingFails(k)
      BY <2>0, <2>1, <3>2 DEF PingFails, Health
    <3>3. CASE Evict(k)
      BY <2>0, <2>1, <3>3 DEF Evict, Health
    <3> QED
      BY <2>4, <3>1, <3>2, <3>3
  <2>5. CASE StartHealthCheck
    BY <2>0, <2>5 DEF StartHealthCheck, Unclosed, Health
  <2>6. CASE HealthExit
    <3>1. health.goroutine = "running" /\ health.cancelled
      BY <2>6 DEF HealthExit, AtSelect
    <3>2. health.dispose = "waiting"
      BY <2>0, <3>1 DEF Unclosed, Health
    <3>3. /\ health'.dispose = "waiting" /\ health'.goroutine = "exited"
          /\ health'.closed = health.done /\ health'.done = health.done
          /\ health'.waits = health.waits
      BY <2>0, <2>6, <3>2 DEF HealthExit, Health
    <3> QED
      BY <3>1, <3>2, <3>3 DEF Unclosed
  <2>7. CASE StopHealthCheck
    BY <2>0, <2>7 DEF StopHealthCheck, Unclosed, Health
  <2>8. CASE DisposeAll
    BY <2>0, <2>8 DEF DisposeAll, Unclosed, Health
  <2> HIDE DEF Same
  <2> QED
    BY <2>2, <2>3, <2>4, <2>5, <2>6, <2>7, <2>8
    DEF Next, vars, configVars, connVars, Reload, ReloadCallback, BeginRegistration,
        BeginUnregistration, Register, Validate, Undo, Unregister, InvalidateChanged, Flip, Get,
        GetServerInfo, Resolve, Hit, Open, OpenFails, Used, ReadInfo, StoreInfo
<1>3. Unclosed => (health.dispose = "ended" => health.goroutine = "unborn")
  BY DEF Unclosed
<1> QED
  BY <1>1, <1>2, <1>3, TypeCorrect, PTL DEF Spec
=============================================================================
