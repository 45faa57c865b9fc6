--------------------------- MODULE ConfigService ---------------------------
(***************************************************************************)
(* The configuration: an immutable snapshot that requests replace name by  *)
(* name and a reload replaces as a whole, the YAML files both are meant to *)
(* agree with, the watcher that reloads when a file changes, and the tool  *)
(* table of the MCP server, which only its own requests change.            *)
(*                                                                         *)
(* A definition is who wrote it: a request that registers, or the          *)
(* operator.  What a definition says, and the opening of connections, are  *)
(* left out; ConnectionService has the latter.                             *)
(*                                                                         *)
(* Definitions under "Wrong:" are variants with a plausible bug, not part  *)
(* of the specification; each shows which property catches it.             *)
(***************************************************************************)
EXTENDS Naturals, Sequences, FiniteSets

CONSTANTS
  Datasources, Tools,  \* names, which also stand for datasource-<name>.yaml and tool-<name>.yaml
  Main,                \* another file, which the operator edits
  FileSeq,             \* every file once, in the order of ReadDir
  Requests,            \* requests that register or unregister, one name each, numbered as they come
  Edited,              \* definitions the operator writes
  Rules,               \* permission rules the operator writes
  Versions,            \* contents of Main the operator switches between
  None,                \* no definition
  MaxEdits,            \* bound on the operator's edits
  MaxFaults            \* bound on the failures of the file system

Names == Datasources \cup Tools
Files == Names \cup {Main}
Defs == Requests \cup Edited

ASSUME NamesAssumption ==
  /\ Main \notin Names
  /\ Datasources \cap Tools = {}
ASSUME DefsAssumption ==
  /\ None \notin Defs
  /\ Requests \subseteq Nat
  /\ Requests \cap Edited = {}
ASSUME FileSeqAssumption ==
  /\ FileSeq \in Seq(Files)
  /\ \A f \in Files : \E i \in DOMAIN FileSeq : FileSeq[i] = f
ASSUME VersionsAssumption ==
  Versions \subseteq [defs : [Names -> Edited \cup {None}], rules : SUBSET Rules]
ASSUME BoundsAssumption == MaxEdits \in Nat /\ MaxFaults \in Nat

VARIABLES
  files,    \* what each file defines; a missing, half-written or invalid file defines nothing
  snap,     \* cs.snap, its maps of datasources and tools together and its rules
  applied,  \* the rules the permission service works with
  tools,    \* the tool table of the MCP server
  load,     \* Reload under cs.mu: where it is, the next file, the snapshot under construction
  watch,    \* the watcher: off before Start, on, stopping, stopped
  events,   \* change notifications it has not taken
  timer,    \* its debounce timer is armed
  req,      \* what each request does, to which name, how far it got
  linked,   \* the file a request is writing still has its name in the directory
  edits,    \* the operator's edits so far
  faults,   \* the failures of the file system so far
  drift,    \* history: names (Main: the rules) that a known exception took away from the disk
  before    \* history: the registrations that were confirmed before an MCP
            \* client asked to unregister a tool

vars == <<files, snap, applied, tools, load, watch, events, timer, req, linked,
          edits, faults, drift, before>>
disk == <<files, events, linked, faults>>
watcher == <<load, watch, timer, applied>>

Content == [defs : [Names -> Defs \cup {None}], rules : SUBSET Rules]
Empty == [defs |-> [n \in Names |-> None], rules |-> {}]

Idle == [pc |-> "idle", op |-> "none", via |-> "none", name |-> Main]
Finished == {"idle", "ok", "unsaved", "rejected"}
Request ==
  [pc : Finished \cup {"store", "list", "validate", "undo", "persist", "write",
                       "delete", "unlist", "remove"},
   op : {"none", "register", "unregister"},
   via : {"none", "either", "http", "mcp"},
   name : Files]

TypeOK ==
  /\ files \in [Files -> Content]
  /\ snap \in Content
  /\ applied \in SUBSET Rules
  /\ tools \in [Tools -> Defs \cup {None}]
  /\ load \in [pc : {"idle", "read", "callbacks"}, next : Nat, snap : Content]
  /\ watch \in {"off", "on", "stopping", "stopped"}
  /\ events \in Nat
  /\ timer \in BOOLEAN
  /\ req \in [Requests -> Request]
  /\ \A r \in Requests : req[r].pc # "idle" => req[r].name \in Names
  /\ linked \in [Requests -> BOOLEAN]
  /\ edits \in 0 .. MaxEdits
  /\ faults \in 0 .. MaxFaults
  /\ drift \in SUBSET Files
  /\ before \in [Requests -> SUBSET Requests]

\* loadFileInto: the definitions of a file replace those of the files before
\* it, its rules are added.
LoadFileInto(file, into) ==
  [defs |-> [n \in Names |-> IF file.defs[n] # None THEN file.defs[n] ELSE into.defs[n]],
   rules |-> into.rules \cup file.rules]

\* What files fs say of a name: the last file that defines it.
OnDisk(fs, n) ==
  LET defining == {i \in DOMAIN FileSeq : fs[FileSeq[i]].defs[n] # None}
      last == CHOOSE i \in defining : \A j \in defining : j <= i
  IN IF defining = {} THEN None ELSE fs[FileSeq[last]].defs[n]
RulesOnDisk(fs) == UNION {fs[f].rules : f \in Files}

\* The first load, the services built from it and the tool table filled from
\* it; nobody else runs yet, but the watcher only starts afterwards.
Init ==
  /\ \E own \in [Names -> Edited \cup {None}], v \in Versions :
       files = [f \in Files |-> IF f = Main THEN v ELSE [Empty EXCEPT !.defs[f] = own[f]]]
  /\ snap = [defs |-> [n \in Names |-> OnDisk(files, n)], rules |-> RulesOnDisk(files)]
  /\ applied = snap.rules
  /\ tools = [n \in Tools |-> snap.defs[n]]
  /\ load = [pc |-> "idle", next |-> 1, snap |-> Empty]
  /\ watch = "off"
  /\ events = 0
  /\ timer = FALSE
  /\ req = [r \in Requests |-> Idle]
  /\ linked = [r \in Requests |-> FALSE]
  /\ edits = 0
  /\ faults = 0
  /\ drift = {}
  /\ before = [r \in Requests |-> {}]

-----------------------------------------------------------------------------
(* Small helpers.  A request needs cs.mu for one step only, and gets it when *)
(* no reload holds it.                                                       *)

LockFree == load.pc = "idle"
Known(n) == snap.defs[n] # None
Name(r) == req[r].name
At(r, pc) == req[r].pc = pc
Goto(r, pc) == req' = [req EXCEPT ![r].pc = pc]
SetDef(n, d) == snap' = [snap EXCEPT !.defs[n] = d]
Notified(n) == events' = events + (IF watch \in {"on", "stopping"} THEN n ELSE 0)
Fault == faults < MaxFaults /\ faults' = faults + 1
DriftIf(cond, n) == drift' = drift \cup (IF cond THEN {n} ELSE {})

-----------------------------------------------------------------------------
(* Registration.  Each handler looks the name up first, without the lock.    *)

Receive(r, op, via, n, pc) ==
  /\ watch \notin {"off", "stopped"}
  /\ At(r, "idle")
  /\ \A q \in Requests : q < r => ~At(q, "idle")
  /\ req' = [req EXCEPT ![r] = [pc |-> pc, op |-> op, via |-> via, name |-> n]]
  /\ before' = IF op = "unregister" /\ via = "mcp"
               THEN [before EXCEPT ![r] = {q \in Requests : At(q, "ok") /\ req[q].op = "register"}]
               ELSE before
  /\ UNCHANGED <<disk, watcher, snap, tools, edits, drift>>

\* A tool needs a datasource over HTTP; over MCP it does not.  Datasources are
\* handled alike over either.
RegisterTool(r, n) ==
  /\ ~Known(n)
  /\ \E d \in Datasources : Known(d)
  /\ Receive(r, "register", "http", n, "store")
McpRegisterTool(r, n) == ~Known(n) /\ Receive(r, "register", "mcp", n, "store")
RegisterDatasource(r, n) == ~Known(n) /\ Receive(r, "register", "either", n, "store")
McpRegisterDatasource(r, n) == ~Known(n) /\ Receive(r, "register", "either", n, "store")

\* ConfigService.RegisterTool and RegisterDatasource: under the lock, over
\* whatever has been stored under the name since the look-up.
Store(r) ==
  /\ At(r, "store")
  /\ LockFree
  /\ SetDef(Name(r), r)
  /\ Goto(r, IF Name(r) \in Datasources THEN "validate"
             ELSE IF req[r].via = "mcp" THEN "list" ELSE "persist")
  /\ UNCHANGED <<disk, watcher, tools, edits, drift, before>>

\* RegisterDynamicTool: its handler keeps the definition it was given.
ListTool(r) ==
  /\ At(r, "list")
  /\ tools' = [tools EXCEPT ![Name(r)] = r]
  /\ Goto(r, "persist")
  /\ UNCHANGED <<disk, watcher, snap, edits, drift, before>>

\* GetSQLDB or GetNonSQLClient, and a ping, of what is now under the name.
Validates(r) ==
  /\ At(r, "validate")
  /\ Known(Name(r))
  /\ Goto(r, "persist")
  /\ UNCHANGED <<disk, watcher, snap, tools, edits, drift, before>>

ValidationFails(r) ==
  /\ At(r, "validate")
  /\ Goto(r, "undo")
  /\ UNCHANGED <<disk, watcher, snap, tools, edits, drift, before>>

\* Wrong: the error path returns without taking the registration back.
UndoForgotten(r) ==
  /\ At(r, "undo")
  /\ Goto(r, "rejected")
  /\ UNCHANGED <<disk, watcher, snap, tools, edits, drift, before>>

\* The failed registration takes out whatever is under its name by now.
Undo(r) ==
  /\ At(r, "undo")
  /\ LockFree
  /\ SetDef(Name(r), None)
  /\ DriftIf(OnDisk(files, Name(r)) # None, Name(r))
  /\ Goto(r, "rejected")
  /\ UNCHANGED <<disk, watcher, tools, edits, before>>

\* PersistTool and PersistDatasource: os.WriteFile opens and truncates the file
\* and then writes it, without the lock.
Truncate(r) ==
  /\ At(r, "persist")
  /\ files' = [files EXCEPT ![Name(r)] = Empty]
  /\ linked' = [linked EXCEPT ![r] = TRUE]
  /\ Notified(1)
  /\ Goto(r, "write")
  /\ UNCHANGED <<faults, watcher, snap, tools, edits, drift, before>>

\* A file removed since it was opened stays removed; two definitions written
\* over each other may leave neither.
Write(r) ==
  /\ At(r, "write")
  /\ \E d \in {r} \cup (IF files[Name(r)] # Empty THEN {None} ELSE {}) :
       files' = IF linked[r] THEN [files EXCEPT ![Name(r)].defs[Name(r)] = d] ELSE files
  /\ Notified(IF linked[r] THEN 1 ELSE 0)
  /\ linked' = [linked EXCEPT ![r] = FALSE]
  /\ Goto(r, "ok")
  /\ UNCHANGED <<faults, watcher, snap, tools, edits, drift, before>>

\* The file cannot be opened, or not written; the registration stands.
PersistFails(r) ==
  /\ At(r, "persist") \/ At(r, "write")
  /\ Fault
  /\ linked' = [linked EXCEPT ![r] = FALSE]
  /\ Goto(r, "unsaved")
  /\ DriftIf(TRUE, Name(r))
  /\ UNCHANGED <<files, events, watcher, snap, tools, edits, before>>

-----------------------------------------------------------------------------
(* Removal.                                                                  *)

UnregisterTool(r, n) == Known(n) /\ Receive(r, "unregister", "http", n, "delete")
McpUnregisterTool(r, n) == Known(n) /\ Receive(r, "unregister", "mcp", n, "delete")
UnregisterDatasource(r, n) == Known(n) /\ Receive(r, "unregister", "either", n, "delete")
McpUnregisterDatasource(r, n) == Known(n) /\ Receive(r, "unregister", "either", n, "delete")

Delete(r) ==
  /\ At(r, "delete")
  /\ LockFree
  /\ SetDef(Name(r), None)
  /\ Goto(r, IF Name(r) \in Tools /\ req[r].via = "mcp" THEN "unlist" ELSE "remove")
  /\ UNCHANGED <<disk, watcher, tools, edits, drift, before>>

\* Wrong: the tool leaves the configuration only.
UnlistNothing(r) ==
  /\ At(r, "unlist")
  /\ Goto(r, "remove")
  /\ UNCHANGED <<disk, watcher, snap, tools, edits, drift, before>>

UnlistTool(r) ==
  /\ At(r, "unlist")
  /\ tools' = [tools EXCEPT ![Name(r)] = None]
  /\ Goto(r, "remove")
  /\ UNCHANGED <<disk, watcher, snap, edits, drift, before>>

\* RemoveToolFile and RemoveDatasourceFile.  A file without a definition may
\* be there or not; a definition in another file is not touched.
RemoveFile(r) ==
  /\ At(r, "remove")
  /\ files' = [files EXCEPT ![Name(r)] = Empty]
  /\ linked' = [q \in Requests |-> linked[q] /\ Name(q) # Name(r)]
  /\ \E n \in IF files[Name(r)] = Empty /\ linked' = linked THEN {0, 1} ELSE {1} : Notified(n)
  /\ DriftIf(OnDisk(files', Name(r)) # None, Name(r))
  /\ Goto(r, "ok")
  /\ UNCHANGED <<faults, watcher, snap, tools, edits, before>>

\* The handlers do not look at whether the file could be removed.
RemoveFails(r) ==
  /\ At(r, "remove")
  /\ Fault
  /\ DriftIf(OnDisk(files, Name(r)) # None, Name(r))
  /\ Goto(r, "ok")
  /\ UNCHANGED <<files, events, linked, watcher, snap, tools, edits, before>>

-----------------------------------------------------------------------------
(* The watcher and the reload.                                               *)

StartWatcher ==
  /\ watch = "off"
  /\ watch' = "on"
  /\ UNCHANGED <<disk, load, timer, applied, snap, tools, req, edits, drift, before>>

AtSelect == watch \in {"on", "stopping"} /\ load.pc = "idle"

\* Wrong: takes an event whether there is one or not.
TakeEventUnchecked ==
  /\ AtSelect
  /\ events' = events - 1
  /\ timer' = TRUE
  /\ UNCHANGED <<files, linked, faults, load, watch, applied, snap, tools, req, edits, drift, before>>

\* armDebounce
TakeEvent ==
  /\ AtSelect
  /\ events > 0
  /\ events' = events - 1
  /\ timer' = TRUE
  /\ UNCHANGED <<files, linked, faults, load, watch, applied, snap, tools, req, edits, drift, before>>

\* The debounce timer fires: Reload takes the lock and lists the directory.
\* What was out of step before is read again.
BeginReload ==
  /\ AtSelect
  /\ timer
  /\ timer' = FALSE
  /\ load' = [pc |-> "read", next |-> 1, snap |-> Empty]
  /\ drift' = {}
  /\ UNCHANGED <<disk, watch, applied, snap, tools, req, edits, before>>

\* ReadDir fails: the error is logged, the snapshot and the debounce stay.
ReadDirFails ==
  /\ AtSelect
  /\ timer
  /\ Fault
  /\ timer' = FALSE
  /\ drift' = Files
  /\ UNCHANGED <<files, events, linked, load, watch, applied, snap, tools, req, edits, before>>

ReadFile ==
  /\ load.pc = "read"
  /\ load.next \in DOMAIN FileSeq
  /\ load' = [load EXCEPT !.next = @ + 1, !.snap = LoadFileInto(files[FileSeq[load.next]], @)]
  /\ UNCHANGED <<disk, watch, timer, applied, snap, tools, req, edits, drift, before>>

\* A file that cannot be read is left out, with a warning.
ReadFileFails ==
  /\ load.pc = "read"
  /\ load.next \in DOMAIN FileSeq
  /\ Fault
  /\ load' = [load EXCEPT !.next = @ + 1]
  /\ LET file == files[FileSeq[load.next]] IN
       drift' = drift \cup {n \in Names : file.defs[n] # None}
                      \cup (IF file.rules # {} THEN {Main} ELSE {})
  /\ UNCHANGED <<files, events, linked, watch, timer, applied, snap, tools, req, edits, before>>

Swap ==
  /\ load.pc = "read"
  /\ load.next \notin DOMAIN FileSeq
  /\ snap' = load.snap
  /\ load' = [load EXCEPT !.pc = "callbacks"]
  /\ UNCHANGED <<disk, watch, timer, applied, tools, req, edits, drift, before>>

\* Wrong: what was notified during the reload is taken as done; a callback
\* takes the lock that Reload holds.
RunCallbacksDrains ==
  /\ load.pc = "callbacks"
  /\ applied' = snap.rules
  /\ load' = [pc |-> "idle", next |-> 1, snap |-> Empty]
  /\ events' = 0
  /\ UNCHANGED <<files, linked, faults, watch, timer, snap, tools, req, edits, drift, before>>

RunCallbacksRelock == LockFree /\ load.pc = "callbacks" /\ UNCHANGED vars

\* Permissions, metadata and connections follow, and MCP clients are told to
\* list the tools again; the lock is released.
RunCallbacks ==
  /\ load.pc = "callbacks"
  /\ applied' = snap.rules
  /\ load' = [pc |-> "idle", next |-> 1, snap |-> Empty]
  /\ UNCHANGED <<disk, watch, timer, snap, tools, req, edits, drift, before>>

StopWatcher ==
  /\ watch = "on"
  /\ watch' = "stopping"
  /\ UNCHANGED <<disk, load, timer, applied, snap, tools, req, edits, drift, before>>

\* Wrong: only the branch of the timer looks at the stop channel.
WatcherExitsArmed ==
  /\ AtSelect
  /\ timer
  /\ watch = "stopping"
  /\ watch' = "stopped"
  /\ UNCHANGED <<disk, load, timer, applied, snap, tools, req, edits, drift, before>>

WatcherExits ==
  /\ AtSelect
  /\ watch = "stopping"
  /\ watch' = "stopped"
  /\ UNCHANGED <<disk, load, timer, applied, snap, tools, req, edits, drift, before>>

-----------------------------------------------------------------------------
(* The operator saves a file, perhaps half of it first.                      *)

Edit ==
  /\ edits < MaxEdits
  /\ edits' = edits + 1
  /\ \E v \in Versions \ {files[Main]} :
       /\ files' = [files EXCEPT ![Main] = v]
       /\ drift' = IF watch = "off"
                   THEN drift \cup {n \in Names : v.defs[n] # files[Main].defs[n]} \cup {Main}
                   ELSE drift
  /\ Notified(1)
  /\ UNCHANGED <<linked, faults, watcher, snap, tools, req, before>>

-----------------------------------------------------------------------------

Arrive(r) ==
  \/ \E n \in Tools : \/ RegisterTool(r, n)
                      \/ McpRegisterTool(r, n)
                      \/ UnregisterTool(r, n)
                      \/ McpUnregisterTool(r, n)
  \/ \E n \in Datasources : \/ RegisterDatasource(r, n)
                            \/ McpRegisterDatasource(r, n)
                            \/ UnregisterDatasource(r, n)
                            \/ McpUnregisterDatasource(r, n)

Serve(r) ==
  \/ Store(r) \/ ListTool(r) \/ Validates(r) \/ ValidationFails(r) \/ Undo(r)
  \/ Truncate(r) \/ Write(r) \/ PersistFails(r)
  \/ Delete(r) \/ UnlistTool(r) \/ RemoveFile(r) \/ RemoveFails(r)

Watch ==
  \/ StartWatcher \/ TakeEvent \/ BeginReload \/ ReadDirFails \/ ReadFile \/ ReadFileFails
  \/ Swap \/ RunCallbacks \/ WatcherExits

Next ==
  \/ \E r \in Requests : Arrive(r) \/ Serve(r)
  \/ Watch
  \/ StopWatcher
  \/ Edit

Spec == Init /\ [][Next]_vars

\* Requests run to their end and the watcher's goroutine is scheduled.
FairSpec == Spec /\ (\A r \in Requests : WF_vars(Serve(r))) /\ WF_vars(Watch)

-----------------------------------------------------------------------------
(* Properties.                                                               *)

\* A datasource whose validation failed is not served, not on the disk, and no
\* reload brings it back once the caller was told: the handlers register first
\* and take it back by name, among rivals and reloads.
RejectedIsGone ==
  \A r \in Requests : At(r, "rejected") =>
    \A n \in Names : /\ snap.defs[n] # r
                     /\ load.snap.defs[n] # r
                     /\ \A f \in Files : files[f].defs[n] # r

\* Outside of a reload the permission service works with the rules of the
\* snapshot: callbacks run after the swap and before the lock is released.
RulesFollowSnapshot == LockFree => applied = snap.rules

\* When nothing is under way, what is served is what the files say, up to the
\* known exceptions: no change is lost between registration, file and watcher.
Quiet ==
  /\ watch = "on" /\ LockFree /\ events = 0 /\ ~timer
  /\ \A r \in Requests : req[r].pc \in Finished
InStep ==
  /\ \A n \in Names \ drift : snap.defs[n] = OnDisk(files, n)
  /\ Main \notin drift => snap.rules = RulesOnDisk(files)
ServedIsOnDisk == Quiet => InStep

\* A tool that was registered before an MCP client asked to unregister it
\* cannot be called any more once that client has its answer.
UnregisteredIsUncallable ==
  \A r \in Requests :
    /\ At(r, "ok") /\ req[r].op = "unregister" /\ req[r].via = "mcp" /\ Name(r) \in Tools
    => tools[Name(r)] \notin before[r]

\* Changes come to be served: registrations, removals and edits end up in step
\* with the disk unless the watcher stops ("Changes take effect within
\* seconds without restarting the server", docs/configuration.md:198).
ChangesTakeEffect == <>[](watch \in {"stopping", "stopped"} \/ InStep)

\* Watcher.Stop returns: the goroutine comes back to its select from whatever
\* reload it is in.
StopEnds == watch = "stopping" ~> watch = "stopped"
=============================================================================
