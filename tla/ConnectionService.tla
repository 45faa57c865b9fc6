-------------------------- MODULE ConnectionService --------------------------
(***************************************************************************)
(* The connection cache (internal/services/connection_service.go) among    *)
(* those who use it: request handlers that ask for a connection or for     *)
(* server metadata, the configuration that is reloaded, handlers that      *)
(* register or unregister a datasource, the health check that pings and    *)
(* evicts, and the shutdown.                                               *)
(*                                                                         *)
(* cs.mu makes each critical section one action.  What is read before the  *)
(* lock (the datasource's configuration) or copied out of it (the health   *)
(* check's snapshot, a connection handed to a caller, the server metadata  *)
(* on its way back) may be out of date when it is used.                    *)
(*                                                                         *)
(* A configuration is its version number, 0 when the datasource is not     *)
(* configured; a connection remembers the version its DSN was built from.  *)
(* Names are sequences of letters, because the cache joins two of them.    *)
(*                                                                         *)
(* Definitions under "Wrong:" are variants with a plausible bug.  They are *)
(* not part of the specification; each shows which property catches it.    *)
(***************************************************************************)
EXTENDS Naturals, FiniteSets, Sequences

CONSTANTS
    Letters,      \* what names are made of, among them
    Colon,        \* the one that joins them
    Datasources,
    NonSQL,       \* the datasources served by a NonSQLClient
    Databases,
    Pairs,        \* <<datasource, database>>, what connections are asked for
    Default,      \* the pair with the default database of each datasource
    Procs,        \* concurrent request handlers
    MaxFailures,  \* failed pings in a row that evict a connection
    MaxVersion,   \* bound: configuration versions
    MaxConns      \* bound: connections ever opened

ASSUME ConnectionAssumption ==
    /\ Colon \in Letters
    /\ \A name \in Datasources \union Databases : name \in Seq(Letters)
    /\ NonSQL \subseteq Datasources
    /\ Pairs \subseteq Datasources \X Databases
    /\ Default \in [Datasources -> Pairs]
    /\ \A d \in Datasources : Default[d][1] = d
    /\ \A q \in Pairs : q[1] \in NonSQL => q = Default[q[1]]
    /\ MaxFailures \in Nat \ {0}
    /\ MaxVersion \in Nat \ {0}
    /\ MaxConns \in Nat

VARIABLES
    config,      \* the snapshot: version of each datasource, 0 if absent
    version,     \* the newest version handed out
    reloading,   \* a reload stored its snapshot and runs its callbacks
    cache,       \* cs.sqlConns and cs.nonSQLClients: the connection of a key
    infoCache,   \* cs.serverInfoCache: the configuration it was read under
    opened,      \* how many connections were opened so far
    owner,       \* the pair a connection was opened for
    dsn,         \* version its DSN was built from
    open,        \* is it open?
    fails,       \* history: its failed health pings in a row
    up,          \* does the database of a pair answer?
    proc,        \* where each handler stands
    health       \* the health check: state, channel, snapshot, counts

configVars == <<config, version, reloading>>
connVars   == <<opened, owner, dsn, open>>
vars       == <<configVars, cache, infoCache, connVars, fails, up, proc, health>>

-----------------------------------------------------------------------------
(* The keys of the cache.                                                  *)

Joint == <<Colon, Colon>>

\* fmt.Sprintf("%s::%s", datasource, database).
Join(d, x) == d \o Joint \o x

\* Wrong: the key misses the database.
KeyOfDatasource(q) ==
    [map |-> IF q[1] \in NonSQL THEN "nonSQLClients" ELSE "sqlConns", text |-> q[1]]

\* A client serves every database of its datasource.
Key(q) ==
    IF q[1] \in NonSQL THEN [map |-> "nonSQLClients", text |-> q[1]]
                       ELSE [map |-> "sqlConns", text |-> Join(q[1], q[2])]

Keys    == {Key(q) : q \in Pairs}
SQLKeys == {k \in Keys : k.map = "sqlConns"}
NoKey   == [map |-> "none", text |-> <<>>]

StartsWith(text, prefix) ==
    Len(prefix) <= Len(text) /\ \A i \in 1 .. Len(prefix) : text[i] = prefix[i]

\* The keys that Invalidate takes for the datasource's.
KeysOf(d) ==
    {k \in Keys : IF k.map = "sqlConns" THEN StartsWith(k.text, d \o Joint) ELSE k.text = d}

-----------------------------------------------------------------------------
ConnIds  == 1 .. MaxConns
Versions == 0 .. MaxVersion
NoPair   == << <<>>, <<>> >>
NoInfo   == << <<>>, 0 >>

Idle     == [pc |-> "idle"]
Whys     == {"request", "info", "registration"}      \* what a connection is for
Tries    == {"register", "resolve", "undo"}
Removals == {"unregister", "invalidate"}
Procedure ==
    {Idle}
    \union [pc : Tries, pair : Pairs, why : Whys]
    \union [pc : Removals, pair : Pairs, why : {"registration", "unregistration"}]
    \union [pc : {"lock"}, pair : Pairs, why : Whys, version : Versions]
    \union [pc : {"using"}, pair : Pairs, why : Whys, conn : ConnIds]
    \union [pc : {"store"}, pair : Pairs, read : Datasources \X Versions]

Health ==
    [goroutine : {"unborn", "running", "exited"},
     cancel    : BOOLEAN,                        \* cs.healthCancel # nil
     done      : BOOLEAN,                        \* cs.healthDone # nil
     cancelled : BOOLEAN,                        \* ctx.Done()
     closed    : BOOLEAN,                        \* the channel was closed
     dispose   : {"no", "waiting", "ended"},     \* DisposeAll
     waits     : BOOLEAN,                        \* it found a channel to wait on
     snapshot  : [SQLKeys -> 0 .. MaxConns],     \* connections yet to ping
     evicting  : Keys \union {NoKey},            \* the key about to be evicted
     failures  : [SQLKeys -> Nat]]               \* failures in a row, per key

TypeOK ==
    /\ config \in [Datasources -> Versions]
    /\ version \in Versions
    /\ reloading \in BOOLEAN
    /\ cache \in [Keys -> 0 .. MaxConns]
    /\ infoCache \in [Datasources -> (Datasources \X Versions) \union {NoInfo}]
    /\ opened \in 0 .. MaxConns
    /\ owner \in [ConnIds -> Pairs \union {NoPair}]
    /\ dsn \in [ConnIds -> Versions]
    /\ open \in [ConnIds -> BOOLEAN]
    /\ fails \in [ConnIds -> 0 .. MaxFailures]
    /\ up \in [Pairs -> BOOLEAN]
    /\ proc \in [Procs -> Procedure]
    /\ health \in Health

Init ==
    /\ config = [d \in Datasources |-> 1]
    /\ version = 1
    /\ reloading = FALSE
    /\ cache = [k \in Keys |-> 0]
    /\ infoCache = [d \in Datasources |-> NoInfo]
    /\ opened = 0
    /\ owner = [c \in ConnIds |-> NoPair]
    /\ dsn = [c \in ConnIds |-> 0]
    /\ open = [c \in ConnIds |-> FALSE]
    /\ fails = [c \in ConnIds |-> 0]
    /\ up = [q \in Pairs |-> TRUE]
    /\ proc = [p \in Procs |-> Idle]
    /\ health = [goroutine |-> "unborn", cancel |-> FALSE, done |-> FALSE,
                 cancelled |-> FALSE, closed |-> FALSE,
                 dispose |-> "no", waits |-> FALSE,
                 snapshot |-> [k \in SQLKeys |-> 0], evicting |-> NoKey,
                 failures |-> [k \in SQLKeys |-> 0]]

-----------------------------------------------------------------------------
(* Closing.  Every section that removes connections from the cache closes  *)
(* them in the same critical section.                                      *)

\* Wrong: connections leave the cache without being closed.
ForgetOnly(K) ==
    /\ open' = open
    /\ cache' = [k \in Keys |-> IF k \in K THEN 0 ELSE cache[k]]

CloseAndForget(K) ==
    /\ open' = [c \in ConnIds |-> open[c] /\ ~ \E k \in K : cache[k] = c]
    /\ cache' = [k \in Keys |-> IF k \in K THEN 0 ELSE cache[k]]

Invalidate(d) ==
    /\ CloseAndForget(KeysOf(d))
    /\ infoCache' = [infoCache EXCEPT ![d] = NoInfo]
    /\ UNCHANGED <<opened, owner, dsn>>

\* Wrong: the metadata stays.
InvalidateConnections ==
    /\ CloseAndForget(Keys)
    /\ UNCHANGED <<infoCache, opened, owner, dsn>>

InvalidateAll ==
    /\ CloseAndForget(Keys)
    /\ infoCache' = [d \in Datasources |-> NoInfo]
    /\ UNCHANGED <<opened, owner, dsn>>

-----------------------------------------------------------------------------
(* The configuration changes.                                              *)

\* A reload stores a snapshot in which a datasource is as before, changed,
\* or gone (a changed one may also come back); its callbacks come after.
Reload ==
    /\ ~reloading
    /\ version < MaxVersion
    /\ version' = version + 1
    /\ \E d \in Datasources, v \in {0, version + 1} :
         config' = [config EXCEPT ![d] = v]
    /\ reloading' = TRUE
    /\ UNCHANGED <<cache, infoCache, connVars, fails, up, proc, health>>

\* The last of the container's callbacks; the reload lock is held until then.
ReloadCallback ==
    /\ reloading
    /\ InvalidateAll
    /\ reloading' = FALSE
    /\ UNCHANGED <<config, version, fails, up, proc, health>>

\* A handler goes on with another step of what it is about.
Step(p, pc, d, why) ==
    proc' = [proc EXCEPT ![p] = [pc |-> pc, pair |-> Default[d], why |-> why]]

\* The handlers that change the datasources begin with a look at them.
BeginRegistration(p, d) ==
    /\ proc[p] = Idle
    /\ config[d] = 0
    /\ Step(p, "register", d, "registration")
    /\ UNCHANGED <<configVars, cache, infoCache, connVars, fails, up, health>>

BeginUnregistration(p, d) ==
    /\ proc[p] = Idle
    /\ config[d] # 0
    /\ Step(p, "unregister", d, "unregistration")
    /\ UNCHANGED <<configVars, cache, infoCache, connVars, fails, up, health>>

\* The datasource is stored first, so that its connection can be tried.
Register(p) ==
    LET d == proc[p].pair[1]
    IN  /\ proc[p].pc = "register"
        /\ ~reloading
        /\ version < MaxVersion
        /\ version' = version + 1
        /\ config' = [config EXCEPT ![d] = version + 1]
        /\ Step(p, "resolve", d, "registration")
        /\ UNCHANGED <<reloading, cache, infoCache, connVars, fails, up, health>>

\* No connection could be had: the datasource is taken out again, and nothing
\* is invalidated.
Undo(p) ==
    /\ proc[p].pc = "undo"
    /\ ~reloading
    /\ config' = [config EXCEPT ![proc[p].pair[1]] = 0]
    /\ proc' = [proc EXCEPT ![p] = Idle]
    /\ UNCHANGED <<version, reloading, cache, infoCache, connVars, fails, up, health>>

\* An unregistration, or a registration whose connection does not answer,
\* takes the datasource out of the snapshot ...
Unregister(p) ==
    LET d == proc[p].pair[1]
    IN  /\ proc[p].pc = "unregister"
        /\ ~reloading
        /\ config' = [config EXCEPT ![d] = 0]
        /\ Step(p, "invalidate", d, proc[p].why)
        /\ UNCHANGED <<version, reloading, cache, infoCache, connVars, fails, up, health>>

\* ... and then its connections out of the cache, as does a registration that
\* succeeded.
InvalidateChanged(p) ==
    /\ proc[p].pc = "invalidate"
    /\ Invalidate(proc[p].pair[1])
    /\ proc' = [proc EXCEPT ![p] = Idle]
    /\ UNCHANGED <<configVars, fails, up, health>>

\* A database goes away or comes back.
Flip(q) ==
    /\ up' = [up EXCEPT ![q] = ~@]
    /\ UNCHANGED <<configVars, cache, infoCache, connVars, fails, proc, health>>

-----------------------------------------------------------------------------
(* GetSQLDB, GetNonSQLClient and GetServerInfo.                            *)

\* The configuration is read before cs.mu is taken; an unknown datasource is
\* an error.
Get(p, q) ==
    /\ proc[p] = Idle
    /\ config[q[1]] # 0
    /\ proc' = [proc EXCEPT ![p] = [pc |-> "lock", pair |-> q, why |-> "request",
                                    version |-> config[q[1]]]]
    /\ UNCHANGED <<configVars, cache, infoCache, connVars, fails, up, health>>

\* A hit in the metadata cache returns at once.  On a miss the lock is given
\* up and the datasource resolved twice: only the second result is used.
GetServerInfo(p, d) ==
    /\ proc[p] = Idle
    /\ infoCache[d] = NoInfo
    /\ Step(p, "resolve", d, "info")
    /\ UNCHANGED <<configVars, cache, infoCache, connVars, fails, up, health>>

\* What a handler does that gets no connection.
Refused(p) ==
    IF proc[p].why = "registration" THEN Step(p, "undo", proc[p].pair[1], "registration")
                                    ELSE proc' = [proc EXCEPT ![p] = Idle]

\* For the metadata and for the trial of a registration.
Resolve(p) ==
    LET d == proc[p].pair[1]
    IN  /\ proc[p].pc = "resolve"
        /\ IF config[d] = 0 THEN Refused(p)
           ELSE proc' = [proc EXCEPT ![p] = [pc |-> "lock", pair |-> Default[d],
                                             why |-> proc[p].why, version |-> config[d]]]
        /\ UNCHANGED <<configVars, cache, infoCache, connVars, fails, up, health>>

Using(p, c) ==
    proc' = [proc EXCEPT ![p] =
               [pc |-> "using", pair |-> proc[p].pair, why |-> proc[p].why, conn |-> c]]

\* Wrong: a missing entry is not noticed.
HitUnchecked(p) ==
    /\ proc[p].pc = "lock"
    /\ Using(p, cache[Key(proc[p].pair)])
    /\ UNCHANGED <<configVars, cache, infoCache, connVars, fails, up, health>>

Hit(p) ==
    /\ proc[p].pc = "lock"
    /\ cache[Key(proc[p].pair)] # 0
    /\ Using(p, cache[Key(proc[p].pair)])
    /\ UNCHANGED <<configVars, cache, infoCache, connVars, fails, up, health>>

\* Opened, pinged and cached under the lock: only a SQL connection that
\* answered is cached; some NonSQL clients are made without a ping.
Open(p) ==
    LET q == proc[p].pair
        c == opened + 1
    IN  /\ proc[p].pc = "lock"
        /\ cache[Key(q)] = 0
        /\ q[1] \in NonSQL \/ up[q]
        /\ c \in ConnIds
        /\ opened' = c
        /\ owner' = [owner EXCEPT ![c] = q]
        /\ dsn' = [dsn EXCEPT ![c] = proc[p].version]
        /\ open' = [open EXCEPT ![c] = TRUE]
        /\ cache' = [cache EXCEPT ![Key(q)] = c]
        /\ Using(p, c)
        /\ UNCHANGED <<configVars, infoCache, fails, up, health>>

\* The ping fails or times out: the new connection is closed at once and the
\* caller gets the error.
OpenFails(p) ==
    /\ proc[p].pc = "lock"
    /\ cache[Key(proc[p].pair)] = 0
    /\ Refused(p)
    /\ UNCHANGED <<configVars, cache, infoCache, connVars, fails, up, health>>

\* A connection that was closed meanwhile does not answer; closing a NonSQL
\* client need not keep it from answering.
MayAnswer(p) == open[proc[p].conn] \/ proc[p].pair[1] \in NonSQL

\* A caller is done with its connection.
Used(p) ==
    /\ proc[p].pc = "using"
    /\ proc[p].why \in {"request", "info"}
    /\ proc' = [proc EXCEPT ![p] = Idle]
    /\ UNCHANGED <<configVars, cache, infoCache, connVars, fails, up, health>>

\* The server answers the metadata query.
ReadInfo(p) ==
    LET c == proc[p].conn
    IN  /\ proc[p].pc = "using"
        /\ proc[p].why = "info"
        /\ MayAnswer(p)
        /\ proc' = [proc EXCEPT ![p] = [pc |-> "store", pair |-> proc[p].pair,
                                        read |-> <<owner[c][1], dsn[c]>>]]
        /\ UNCHANGED <<configVars, cache, infoCache, connVars, fails, up, health>>

\* The metadata is stored without a look at what happened meanwhile.
StoreInfo(p) ==
    /\ proc[p].pc = "store"
    /\ infoCache' = [infoCache EXCEPT ![proc[p].pair[1]] = proc[p].read]
    /\ proc' = [proc EXCEPT ![p] = Idle]
    /\ UNCHANGED <<configVars, cache, connVars, fails, up, health>>

\* A registration pings its connection once more.
Validate(p) ==
    /\ proc[p].pc = "using"
    /\ proc[p].why = "registration"
    /\ \/ Step(p, "unregister", proc[p].pair[1], "registration")
       \/ MayAnswer(p) /\ Step(p, "invalidate", proc[p].pair[1], "registration")
    /\ UNCHANGED <<configVars, cache, infoCache, connVars, fails, up, health>>

-----------------------------------------------------------------------------
(* The health check.                                                       *)

\* Launched once, by Container.Start.
StartHealthCheck ==
    /\ ~health.cancel
    /\ health.goroutine = "unborn"
    /\ health.dispose = "no"
    /\ health' = [health EXCEPT !.goroutine = "running", !.cancel = TRUE, !.done = TRUE]
    /\ UNCHANGED <<configVars, cache, infoCache, connVars, fails, up, proc>>

AtSelect ==
    /\ health.goroutine = "running"
    /\ health.evicting = NoKey
    /\ \A k \in SQLKeys : health.snapshot[k] = 0

\* Wrong: the counts start anew with every round of pings.
HealthTickForgets ==
    /\ AtSelect
    /\ \E k \in SQLKeys : cache[k] # 0
    /\ health' = [health EXCEPT !.snapshot = [k \in SQLKeys |-> cache[k]],
                                !.failures = [k \in SQLKeys |-> 0]]
    /\ UNCHANGED <<configVars, cache, infoCache, connVars, fails, up, proc>>

HealthTick ==
    /\ AtSelect
    /\ \E k \in SQLKeys : cache[k] # 0
    /\ health' = [health EXCEPT !.snapshot = [k \in SQLKeys |-> cache[k]]]
    /\ UNCHANGED <<configVars, cache, infoCache, connVars, fails, up, proc>>

Pinging(k) == health.evicting = NoKey /\ health.snapshot[k] # 0

\* A ping that succeeds clears the count of its key.
PingSucceeds(k) ==
    LET c == health.snapshot[k]
    IN  /\ Pinging(k)
        /\ open[c] /\ up[owner[c]] /\ ~health.cancelled
        /\ fails' = [fails EXCEPT ![c] = 0]
        /\ health' = [health EXCEPT !.failures[k] = 0, !.snapshot[k] = 0]
        /\ UNCHANGED <<configVars, cache, infoCache, connVars, up, proc>>

\* A ping fails on a closed connection, on a cancelled context, on a database
\* that is away, or because it times out.  The count belongs to the key.
PingFails(k) ==
    LET c == health.snapshot[k]
        n == health.failures[k] + 1
    IN  /\ Pinging(k)
        /\ fails' = [fails EXCEPT ![c] = IF @ < MaxFailures THEN @ + 1 ELSE @]
        /\ health' = IF n >= MaxFailures
                     THEN [health EXCEPT !.failures[k] = n, !.evicting = k]
                     ELSE [health EXCEPT !.failures[k] = n, !.snapshot[k] = 0]
        /\ UNCHANGED <<configVars, cache, infoCache, connVars, up, proc>>

\* Wrong: the cached connection is closed, whichever it is by now.
EvictUnchecked(k) ==
    /\ health.evicting = k
    /\ CloseAndForget({k})
    /\ health' = [health EXCEPT !.failures[k] = 0, !.snapshot[k] = 0, !.evicting = NoKey]
    /\ UNCHANGED <<configVars, infoCache, opened, owner, dsn, fails, up, proc>>

\* Back under the lock, the cache may hold another connection by now: that
\* one is left alone.
Evict(k) ==
    /\ health.evicting = k
    /\ IF cache[k] = health.snapshot[k]
       THEN CloseAndForget({k})
       ELSE UNCHANGED <<open, cache>>
    /\ health' = [health EXCEPT !.failures[k] = 0, !.snapshot[k] = 0, !.evicting = NoKey]
    /\ UNCHANGED <<configVars, infoCache, opened, owner, dsn, fails, up, proc>>

\* The deferred function closes the channel cs.healthDone names by then.
HealthExit ==
    /\ AtSelect
    /\ health.cancelled
    /\ health' = [health EXCEPT !.goroutine = "exited", !.closed = health.done]
    /\ UNCHANGED <<configVars, cache, infoCache, connVars, fails, up, proc>>

-----------------------------------------------------------------------------
(* Shutdown.                                                               *)

\* DisposeAll, first half: StopHealthCheck takes the cancel function and the
\* channel, clears both fields and cancels.
StopHealthCheck ==
    /\ health.dispose = "no"
    /\ health' = [health EXCEPT !.dispose = "waiting", !.waits = health.done,
                                !.cancelled = health.cancel,
                                !.cancel = FALSE, !.done = FALSE]
    /\ UNCHANGED <<configVars, cache, infoCache, connVars, fails, up, proc>>

\* Second half, once the channel it waits for is closed.  The metadata stays.
DisposeAll ==
    /\ health.dispose = "waiting"
    /\ health.waits => health.closed
    /\ CloseAndForget(Keys)
    /\ health' = [health EXCEPT !.dispose = "ended"]
    /\ UNCHANGED <<configVars, infoCache, opened, owner, dsn, fails, up, proc>>

-----------------------------------------------------------------------------
Next ==
    \/ Reload \/ ReloadCallback
    \/ \E q \in Pairs : Flip(q)
    \/ \E p \in Procs :
         \/ \E d \in Datasources : BeginRegistration(p, d) \/ BeginUnregistration(p, d)
         \/ Register(p) \/ Validate(p) \/ Undo(p) \/ Unregister(p) \/ InvalidateChanged(p)
         \/ \E q \in Pairs : Get(p, q)
         \/ \E d \in Datasources : GetServerInfo(p, d)
         \/ Resolve(p) \/ Hit(p) \/ Open(p) \/ OpenFails(p)
         \/ Used(p) \/ ReadInfo(p) \/ StoreInfo(p)
    \/ StartHealthCheck \/ HealthTick \/ HealthExit
    \/ \E k \in SQLKeys : PingSucceeds(k) \/ PingFails(k) \/ Evict(k)
    \/ StopHealthCheck \/ DisposeAll

Spec == Init /\ [][Next]_vars

(***************************************************************************)
(* Fairness: the health check's goroutine runs, its ticker fires, every    *)
(* ping returns within its timeout, and DisposeAll goes on when it can.    *)
(* No handler, reload or shutdown is bound to happen.                      *)
(***************************************************************************)
Fairness ==
    /\ WF_vars(HealthTick)
    /\ WF_vars(HealthExit)
    /\ \A k \in SQLKeys : /\ WF_vars(PingSucceeds(k) \/ PingFails(k))
                          /\ WF_vars(Evict(k))
    /\ WF_vars(DisposeAll)

FairSpec == Spec /\ Fairness

-----------------------------------------------------------------------------
(* Safety.                                                                 *)

\* No connection leaks and none is handed out dead: a connection is open
\* exactly while the cache holds it.  Every path that takes one out of the
\* cache (invalidation, eviction, disposal) closes it, and no path closes one
\* it leaves in.
OpenIffCached ==
    \A c \in ConnIds : open[c] <=> \E k \in Keys : cache[k] = c

\* A name that the cache's keys can be told apart by.
Plain(name) == \A i \in DOMAIN name : name[i] # Colon

\* A handler works on a connection to the datasource and database it asked
\* for, whatever was closed, evicted and re-opened since, as long as no
\* datasource has a colon in its name.
RightDatabase ==
    \A p \in Procs : proc[p].pc = "using" =>
        LET for == owner[proc[p].conn]
        IN  Plain(for[1]) /\ Plain(proc[p].pair[1]) => for = proc[p].pair

EvictStep == health.evicting # NoKey /\ health'.evicting = NoKey

\* The health check closes no connection that did not itself fail a ping: the
\* one that replaced it between the ping and the lock survives.
EvictsOnlyFailed ==
    [][EvictStep => \A c \in ConnIds : (open[c] /\ ~open'[c]) => fails[c] > 0]_vars

\* A change of the datasource is under way: of a reload until its callbacks
\* are through, of a handler until it has invalidated or given up.
Changes(p, d) ==
    /\ proc[p].pc \in Tries \union Removals \union {"lock", "using"}
    /\ proc[p].pair[1] = d
    /\ proc[p].why \in {"registration", "unregistration"}
Applying(d) == reloading \/ \E p \in Procs : Changes(p, d)

\* Otherwise what is cached for it is outdated if it is not of its configuration.
OutdatedConn(c) == ~Applying(owner[c][1]) /\ dsn[c] # config[owner[c][1]]
Outdated(k) == cache[k] # 0 /\ OutdatedConn(cache[k])
OutdatedInfo(d) == ~Applying(d) /\ infoCache[d] \notin {NoInfo, <<d, config[d]>>}

LateOpen(k) ==
    \E p \in Procs : /\ Open(p)
                      /\ Key(proc[p].pair) = k
                      /\ proc[p].version # config[proc[p].pair[1]]
LateInfo(d) ==
    \E p \in Procs : /\ StoreInfo(p)
                      /\ proc[p].pair[1] = d
                      /\ proc[p].read # <<d, config[d]>>
Undone(d) == \E p \in Procs : Undo(p) /\ proc[p].pair[1] = d

\* Where a connection of an old configuration comes from: a handler that had
\* read the configuration before a change opens it after the change has been
\* applied, or the change is a failed registration's undoing, which invalidates
\* nothing.  No hit, eviction, other datasource's change or shutdown makes a
\* cached connection outdated.  Of metadata the same holds with the handler
\* that stores it.
OutdatedOnlyLateOrUndone ==
    [][/\ \A k \in Keys : Outdated(k)' /\ ~Outdated(k) =>
            LateOpen(k) \/ Undone(owner[cache[k]][1])
       /\ \A d \in Datasources : OutdatedInfo(d)' /\ ~OutdatedInfo(d) =>
            LateInfo(d) \/ Undone(d)]_vars

(* Liveness.                                                               *)

\* A cached connection whose database went away for good is evicted while the
\* health check runs, without any caller having to trip over it.
FailingIsEvicted ==
    \A k \in SQLKeys, c \in ConnIds :
        (cache[k] = c /\ health.goroutine = "running")
            ~> (cache[k] # c \/ up[owner[c]] \/ health.cancelled)

(* What the comments say.                                                  *)

\* container.go:48-49 "invalidate cached connections so DSN/credential changes
\* take effect": once no change is being applied, cached connections use the
\* current configuration.  A handler that read the old one before the reload
\* caches its connection after the invalidation.
ReloadTakesEffect == \A k \in Keys : ~Outdated(k)

\* connection_service.go:274 and :341, "terminates the background health-check
\* goroutine", "closes all cached connections": DisposeAll comes to its end.
\* StopHealthCheck clears cs.healthDone before it waits for the channel, so the
\* goroutine finds nil there and closes nothing.
DisposeEnds == (health.dispose = "waiting") ~> (health.dispose = "ended")
=============================================================================
