------------------------ MODULE ConfigServiceProofs ------------------------
(***************************************************************************)
(* Proofs about ConfigService: its types, that a rejected datasource is    *)
(* nowhere, that an unregistered tool cannot be called, that permissions   *)
(* follow the snapshot, and that what is served is what the files say.     *)
(***************************************************************************)
EXTENDS ConfigService, WellFoundedInduction, TLAPS

-----------------------------------------------------------------------------
(* What the files say.                                                       *)

\* A set of places in a sequence has a last one.
LEMMA LastExists ==
  ASSUME NEW n \in Nat, NEW S \in SUBSET (1 .. n), S # {}
  PROVE  \E i \in S : \A j \in S : j <= i
<1> DEFINE T == {n - i : i \in S}
<1>1. T \subseteq Nat /\ T # {}
  <2>1. \A i \in S : i \in Nat /\ n - i \in Nat  OBVIOUS
  <2>2. T \subseteq Nat  BY <2>1
  <2>3. PICK i \in S : TRUE  OBVIOUS
  <2>4. n - i \in T  OBVIOUS
  <2> QED  BY <2>2, <2>4
<1>2. IsWellFoundedOn(OpToRel(<, Nat), Nat)  BY NatLessThanWellFounded
<1>3. PICK x \in T : \A y \in T : ~(<<y, x>> \in OpToRel(<, Nat))
  <2> HIDE DEF T
  <2> QED  BY <1>1, <1>2, WFMin
<1>4. PICK i \in S : x = n - i  OBVIOUS
<1>5. ASSUME NEW j \in S PROVE j <= i
  <2>1. n - j \in T  OBVIOUS
  <2>2. ~(<<n - j, x>> \in OpToRel(<, Nat))  BY <1>3, <2>1
  <2>3. ~(n - j < x)  BY <1>1, <2>1, <2>2 DEF OpToRel
  <2> QED  BY <1>4, <2>3
<1> QED  BY <1>5

\* The definition d is the last one of n in the first k files of fs.
LastOf(fs, n, k, d) ==
  \/ /\ d = None
     /\ \A j \in 1 .. k : fs[FileSeq[j]].defs[n] = None
  \/ /\ d # None
     /\ \E i \in 1 .. k : /\ fs[FileSeq[i]].defs[n] = d
                          /\ \A j \in i + 1 .. k : fs[FileSeq[j]].defs[n] = None

\* There is no more than one last definition.
LEMMA LastIsUnique ==
  ASSUME NEW fs, NEW n, NEW k \in Nat, NEW d, NEW e,
         LastOf(fs, n, k, d), LastOf(fs, n, k, e)
  PROVE  d = e
<1>1. CASE d = None \/ e = None  BY <1>1 DEF LastOf
<1>2. CASE d # None /\ e # None
  <2>1. PICK i \in 1 .. k : /\ fs[FileSeq[i]].defs[n] = d
                            /\ \A j \in i + 1 .. k : fs[FileSeq[j]].defs[n] = None
    BY <1>2 DEF LastOf
  <2>2. PICK i2 \in 1 .. k : /\ fs[FileSeq[i2]].defs[n] = e
                             /\ \A j \in i2 + 1 .. k : fs[FileSeq[j]].defs[n] = None
    BY <1>2 DEF LastOf
  <2>3. i \in Nat /\ i2 \in Nat  OBVIOUS
  <2>4. CASE i < i2
    <3>1. i2 \in i + 1 .. k  BY <2>3, <2>4
    <3> QED  BY <1>2, <2>1, <2>2, <3>1
  <2>5. CASE i2 < i
    <3>1. i \in i2 + 1 .. k  BY <2>3, <2>5
    <3> QED  BY <1>2, <2>1, <2>2, <3>1
  <2>6. CASE i = i2  BY <2>1, <2>2, <2>6
  <2> QED  BY <2>3, <2>4, <2>5, <2>6
<1> QED  BY <1>1, <1>2

\* OnDisk is the last definition of all files.
LEMMA OnDiskIsLast ==
  ASSUME NEW fs, NEW n
  PROVE  LastOf(fs, n, Len(FileSeq), OnDisk(fs, n))
<1> DEFINE defining == {i \in DOMAIN FileSeq : fs[FileSeq[i]].defs[n] # None}
           last == CHOOSE i \in defining : \A j \in defining : j <= i
<1>1. DOMAIN FileSeq = 1 .. Len(FileSeq) /\ Len(FileSeq) \in Nat  BY FileSeqAssumption
<1>2. CASE defining = {}
  <2>1. OnDisk(fs, n) = None  BY <1>2 DEF OnDisk
  <2> QED  BY <1>1, <1>2, <2>1 DEF LastOf
<1>3. CASE defining # {}
  <2>1. defining \in SUBSET (1 .. Len(FileSeq))  BY <1>1
  <2>2. \E i \in defining : \A j \in defining : j <= i
    <3> HIDE DEF defining
    <3> QED  BY <1>1, <1>3, <2>1, LastExists
  <2>3. last \in defining /\ \A j \in defining : j <= last
    <3> HIDE DEF defining
    <3> QED  BY <2>2
  <2>4. OnDisk(fs, n) = fs[FileSeq[last]].defs[n]  BY <1>3 DEF OnDisk
  <2>5. \A j \in last + 1 .. Len(FileSeq) : fs[FileSeq[j]].defs[n] = None
    <3> SUFFICES ASSUME NEW j \in last + 1 .. Len(FileSeq)
                 PROVE  fs[FileSeq[j]].defs[n] = None
      OBVIOUS
    <3>1. last \in 1 .. Len(FileSeq)  BY <2>1, <2>3
    <3>2. j \in 1 .. Len(FileSeq) /\ ~(j <= last)
      <4> HIDE DEF last
      <4> QED  BY <1>1, <3>1
    <3>3. j \notin defining  BY <2>3, <3>2
    <3> QED  BY <1>1, <3>2, <3>3
  <2>6. last \in 1 .. Len(FileSeq) /\ fs[FileSeq[last]].defs[n] # None  BY <2>1, <2>3
  <2> QED
    <3> HIDE DEF last
    <3> QED  BY <2>4, <2>5, <2>6 DEF LastOf
<1> QED  BY <1>2, <1>3

\* A name is as the files say when the last definition found is.
LEMMA LastIsOnDisk ==
  ASSUME NEW fs, NEW n, NEW d, LastOf(fs, n, Len(FileSeq), d)
  PROVE  d = OnDisk(fs, n)
BY OnDiskIsLast, LastIsUnique, FileSeqAssumption

\* What is on the disk is one of the definitions in the files.
LEMMA OnDiskInFiles ==
  ASSUME NEW fs, NEW n
  PROVE  \/ OnDisk(fs, n) = None
         \/ \E f \in Files : OnDisk(fs, n) = fs[f].defs[n]
<1>1. LastOf(fs, n, Len(FileSeq), OnDisk(fs, n))  BY OnDiskIsLast
<1>2. \A i \in 1 .. Len(FileSeq) : FileSeq[i] \in Files  BY FileSeqAssumption
<1> QED  BY <1>1, <1>2 DEF LastOf

-----------------------------------------------------------------------------
(* Types.                                                                    *)

Stages == Finished \cup {"store", "list", "validate", "undo", "persist", "write",
                         "delete", "unlist", "remove"}

\* No content is a content.
LEMMA EmptyType == Empty \in Content
BY DEF Empty, Content

\* Moving on changes a request's place and nothing else.
LEMMA GotoType ==
  ASSUME TypeOK, NEW r \in Requests, NEW pc \in Stages \ {"idle"}, ~At(r, "idle"), Goto(r, pc)
  PROVE  /\ req' \in [Requests -> Request]
         /\ \A q \in Requests : req'[q].pc # "idle" => req'[q].name \in Names
         /\ \A q \in Requests : /\ req'[q].pc = IF q = r THEN pc ELSE req[q].pc
                                /\ req'[q].op = req[q].op
                                /\ req'[q].via = req[q].via
                                /\ req'[q].name = req[q].name
<1> DEFINE new == [req[r] EXCEPT !.pc = pc]
<1>1. req[r] \in Request  BY DEF TypeOK
<1>2. /\ new.pc = pc /\ new.op = req[r].op /\ new.via = req[r].via /\ new.name = req[r].name
      /\ new \in Request
  BY <1>1 DEF Request, Stages
<1>3. req' = [req EXCEPT ![r] = new]  BY DEF Goto
<1> HIDE DEF new
<1>4. req \in [Requests -> Request]  BY DEF TypeOK
<1>5. \A q \in Requests : req'[q] = IF q = r THEN new ELSE req[q]  BY <1>3, <1>4
<1>6. req[r].name \in Names  BY DEF TypeOK, At
<1>7. req' \in [Requests -> Request]  BY <1>2, <1>3, <1>4
<1> QED  BY <1>2, <1>5, <1>6, <1>7 DEF TypeOK

\* So does setting a name in the snapshot.
LEMMA SetDefType ==
  ASSUME TypeOK, NEW n \in Names, NEW d \in Defs \cup {None}, SetDef(n, d)
  PROVE  /\ snap' \in Content
         /\ snap'.rules = snap.rules
         /\ \A m \in Names : snap'.defs[m] = IF m = n THEN d ELSE snap.defs[m]
<1>1. snap \in Content  BY DEF TypeOK
<1> DEFINE defs == [snap.defs EXCEPT ![n] = d]
<1>2. snap' = [snap EXCEPT !.defs = defs]  BY DEF SetDef
<1>3. defs \in [Names -> Defs \cup {None}]  BY <1>1 DEF Content
<1>4. \A m \in Names : defs[m] = IF m = n THEN d ELSE snap.defs[m]  BY <1>1 DEF Content
<1> HIDE DEF defs
<1> QED  BY <1>1, <1>2, <1>3, <1>4 DEF Content

\* A file as its writer leaves it.
LEMMA FileType ==
  ASSUME TypeOK, NEW f \in Files, NEW content \in Content, files' = [files EXCEPT ![f] = content]
  PROVE  /\ files' \in [Files -> Content]
         /\ \A g \in Files : files'[g] = IF g = f THEN content ELSE files[g]
BY DEF TypeOK

\* A definition written into its file.
LEMMA WrittenType ==
  ASSUME TypeOK, NEW n \in Names, NEW d \in Defs \cup {None},
         files' = [files EXCEPT ![n].defs[n] = d]
  PROVE  /\ files' \in [Files -> Content]
         /\ \A g \in Files \ {n} : files'[g] = files[g]
         /\ files'[n].rules = files[n].rules
         /\ \A m \in Names : files'[n].defs[m] = IF m = n THEN d ELSE files[n].defs[m]
<1>1. n \in Files /\ files \in [Files -> Content] /\ files[n] \in Content  BY DEF TypeOK, Files
<1> DEFINE defs == [files[n].defs EXCEPT ![n] = d]
           content == [files[n] EXCEPT !.defs = defs]
<1>2. files' = [files EXCEPT ![n] = content]  OBVIOUS
<1>3. defs \in [Names -> Defs \cup {None}]  BY <1>1 DEF Content
<1>4. \A m \in Names : defs[m] = IF m = n THEN d ELSE files[n].defs[m]  BY <1>1 DEF Content
<1>5. content.defs = defs /\ content.rules = files[n].rules /\ content \in Content
  <2> HIDE DEF defs
  <2> QED  BY <1>1, <1>3 DEF Content
<1> HIDE DEF content
<1> QED  BY <1>1, <1>2, <1>4, <1>5

\* A file read into a snapshot under construction.
LEMMA LoadType ==
  ASSUME NEW file \in Content, NEW into \in Content
  PROVE  LoadFileInto(file, into) \in Content
BY DEF LoadFileInto, Content

\* What reading a file does to the reload.
LEMMA LoadStep ==
  ASSUME TypeOK, NEW into \in Content, load' = [load EXCEPT !.next = @ + 1, !.snap = into]
  PROVE  /\ load' \in [pc : {"idle", "read", "callbacks"}, next : Nat, snap : Content]
         /\ load'.pc = load.pc /\ load'.next = load.next + 1 /\ load'.snap = into
<1>1. load = [pc |-> load.pc, next |-> load.next, snap |-> load.snap]  BY DEF TypeOK
<1>2. load' = [pc |-> load.pc, next |-> load.next + 1, snap |-> into]  BY <1>1
<1> QED  BY <1>2 DEF TypeOK

\* Notifications are counted.
LEMMA NotifiedType ==
  ASSUME TypeOK, NEW n \in {0, 1}, Notified(n)
  PROVE  events' \in Nat /\ events' >= events /\ (watch = "on" /\ n = 1 => events' # 0)
                         /\ (events' = 0 => events = 0)
BY DEF TypeOK, Notified

\* A request under way has a name.
LEMMA NameType ==
  ASSUME TypeOK, NEW r \in Requests, ~At(r, "idle")
  PROVE  Name(r) \in Names /\ Name(r) \in Files
BY DEF TypeOK, At, Name, Files

\* Types survive the arrival of a request,
LEMMA ArriveType ==
  ASSUME TypeOK, NEW r \in Requests, Arrive(r)
  PROVE  TypeOK'
<1> USE DEF TypeOK
<1>1. PICK op \in {"register", "unregister"}, via \in {"either", "http", "mcp"}, n \in Names,
           pc \in {"store", "delete"} : Receive(r, op, via, n, pc)
  BY DEF Arrive, Names, RegisterTool, McpRegisterTool, UnregisterTool, McpUnregisterTool,
         RegisterDatasource, McpRegisterDatasource, UnregisterDatasource, McpUnregisterDatasource
<1> DEFINE new == [pc |-> pc, op |-> op, via |-> via, name |-> n]
<1>2. new \in Request /\ new.name \in Names  BY DEF Request, Files
<1>3. req' = [req EXCEPT ![r] = new]  BY <1>1 DEF Receive
<1> HIDE DEF new
<1>4. /\ req' \in [Requests -> Request]
      /\ \A q \in Requests : req'[q].pc # "idle" => req'[q].name \in Names
  BY <1>2, <1>3
<1>5. before' \in [Requests -> SUBSET Requests]  BY <1>1 DEF Receive
<1> QED  BY <1>1, <1>4, <1>5 DEF Receive, disk, watcher

\* every step of one,
LEMMA ServeType ==
  ASSUME TypeOK, NEW r \in Requests, Serve(r)
  PROVE  TypeOK'
<1>1. r \in Defs /\ None \in Defs \cup {None}  BY DEF Defs
<1>2. CASE Store(r)
  <2>1. ~At(r, "idle")  BY <1>2 DEF Store, At
  <2>2. snap' \in Content  BY <1>1, <1>2, <2>1, NameType, SetDefType DEF Store
  <2>3. /\ req' \in [Requests -> Request]
        /\ \A q \in Requests : req'[q].pc # "idle" => req'[q].name \in Names
    BY <1>2, <2>1, GotoType DEF Store, Stages
  <2> QED  BY <1>2, <2>2, <2>3 DEF Store, TypeOK, disk, watcher
<1>3. CASE ListTool(r)
  <2>1. ~At(r, "idle")  BY <1>3 DEF ListTool, At
  <2>2. tools' \in [Tools -> Defs \cup {None}]  BY <1>1, <1>3 DEF ListTool, TypeOK
  <2>3. /\ req' \in [Requests -> Request]
        /\ \A q \in Requests : req'[q].pc # "idle" => req'[q].name \in Names
    BY <1>3, <2>1, GotoType DEF ListTool, Stages
  <2> QED  BY <1>3, <2>2, <2>3 DEF ListTool, TypeOK, disk, watcher
<1>4. CASE Validates(r) \/ ValidationFails(r)
  <2>1. ~At(r, "idle")  BY <1>4 DEF Validates, ValidationFails, At
  <2>2. /\ req' \in [Requests -> Request]
        /\ \A q \in Requests : req'[q].pc # "idle" => req'[q].name \in Names
    BY <1>4, <2>1, GotoType DEF Validates, ValidationFails, Stages
  <2> QED  BY <1>4, <2>2 DEF Validates, ValidationFails, TypeOK, disk, watcher
<1>5. CASE Undo(r)
  <2>1. ~At(r, "idle")  BY <1>5 DEF Undo, At
  <2>2. snap' \in Content  BY <1>1, <1>5, <2>1, NameType, SetDefType DEF Undo
  <2>3. /\ req' \in [Requests -> Request]
        /\ \A q \in Requests : req'[q].pc # "idle" => req'[q].name \in Names
    BY <1>5, <2>1, GotoType DEF Undo, Stages, Finished
  <2>4. drift' \in SUBSET Files  BY <1>5, <2>1, NameType DEF Undo, DriftIf, TypeOK
  <2> QED  BY <1>5, <2>2, <2>3, <2>4 DEF Undo, TypeOK, disk, watcher
<1>6. CASE Truncate(r)
  <2>1. ~At(r, "idle")  BY <1>6 DEF Truncate, At
  <2>2. files' \in [Files -> Content]  BY <1>6, <2>1, NameType, EmptyType, FileType DEF Truncate
  <2>3. /\ req' \in [Requests -> Request]
        /\ \A q \in Requests : req'[q].pc # "idle" => req'[q].name \in Names
    BY <1>6, <2>1, GotoType DEF Truncate, Stages
  <2>4. events' \in Nat  BY <1>6, NotifiedType DEF Truncate
  <2>5. linked' \in [Requests -> BOOLEAN]  BY <1>6 DEF Truncate, TypeOK
  <2> QED  BY <1>6, <2>2, <2>3, <2>4, <2>5 DEF Truncate, TypeOK, watcher
<1>7. CASE Write(r)
  <2>1. ~At(r, "idle")  BY <1>7 DEF Write, At
  <2>2. files' \in [Files -> Content]
    <3>1. CASE linked[r]
      <4>1. PICK d \in Defs \cup {None} : files' = [files EXCEPT ![Name(r)].defs[Name(r)] = d]
        BY <1>1, <1>7, <3>1 DEF Write
      <4> QED  BY <2>1, <4>1, NameType, WrittenType
    <3>2. CASE ~linked[r]  BY <1>7, <3>2 DEF Write, TypeOK
    <3> QED  BY <3>1, <3>2
  <2>3. /\ req' \in [Requests -> Request]
        /\ \A q \in Requests : req'[q].pc # "idle" => req'[q].name \in Names
    BY <1>7, <2>1, GotoType DEF Write, Stages, Finished
  <2>4. events' \in Nat  BY <1>7, NotifiedType DEF Write
  <2>5. linked' \in [Requests -> BOOLEAN]  BY <1>7 DEF Write, TypeOK
  <2> QED  BY <1>7, <2>2, <2>3, <2>4, <2>5 DEF Write, TypeOK, watcher
<1>8. CASE PersistFails(r)
  <2>1. ~At(r, "idle")  BY <1>8 DEF PersistFails, At
  <2>2. /\ req' \in [Requests -> Request]
        /\ \A q \in Requests : req'[q].pc # "idle" => req'[q].name \in Names
    BY <1>8, <2>1, GotoType DEF PersistFails, Stages, Finished
  <2>3. drift' \in SUBSET Files  BY <1>8, <2>1, NameType DEF PersistFails, DriftIf, TypeOK
  <2>4. faults' \in 0 .. MaxFaults  BY <1>8, BoundsAssumption DEF PersistFails, Fault, TypeOK
  <2>5. linked' \in [Requests -> BOOLEAN]  BY <1>8 DEF PersistFails, TypeOK
  <2> QED  BY <1>8, <2>2, <2>3, <2>4, <2>5 DEF PersistFails, TypeOK, watcher
<1>9. CASE Delete(r)
  <2>1. ~At(r, "idle")  BY <1>9 DEF Delete, At
  <2>2. snap' \in Content  BY <1>1, <1>9, <2>1, NameType, SetDefType DEF Delete
  <2>3. /\ req' \in [Requests -> Request]
        /\ \A q \in Requests : req'[q].pc # "idle" => req'[q].name \in Names
    BY <1>9, <2>1, GotoType DEF Delete, Stages
  <2> QED  BY <1>9, <2>2, <2>3 DEF Delete, TypeOK, disk, watcher
<1>10. CASE UnlistTool(r)
  <2>1. ~At(r, "idle")  BY <1>10 DEF UnlistTool, At
  <2>2. tools' \in [Tools -> Defs \cup {None}]  BY <1>1, <1>10 DEF UnlistTool, TypeOK
  <2>3. /\ req' \in [Requests -> Request]
        /\ \A q \in Requests : req'[q].pc # "idle" => req'[q].name \in Names
    BY <1>10, <2>1, GotoType DEF UnlistTool, Stages
  <2> QED  BY <1>10, <2>2, <2>3 DEF UnlistTool, TypeOK, disk, watcher
<1>11. CASE RemoveFile(r)
  <2>1. ~At(r, "idle")  BY <1>11 DEF RemoveFile, At
  <2>2. files' \in [Files -> Content]  BY <1>11, <2>1, NameType, EmptyType, FileType DEF RemoveFile
  <2>3. /\ req' \in [Requests -> Request]
        /\ \A q \in Requests : req'[q].pc # "idle" => req'[q].name \in Names
    BY <1>11, <2>1, GotoType DEF RemoveFile, Stages, Finished
  <2>4. events' \in Nat
    <3>1. PICK n \in {0, 1} : Notified(n)  BY <1>11 DEF RemoveFile
    <3> QED  BY <3>1, NotifiedType
  <2>5. linked' \in [Requests -> BOOLEAN]  BY <1>11 DEF RemoveFile, TypeOK
  <2>6. drift' \in SUBSET Files  BY <1>11, <2>1, NameType DEF RemoveFile, DriftIf, TypeOK
  <2> QED  BY <1>11, <2>2, <2>3, <2>4, <2>5, <2>6 DEF RemoveFile, TypeOK, watcher
<1>12. CASE RemoveFails(r)
  <2>1. ~At(r, "idle")  BY <1>12 DEF RemoveFails, At
  <2>2. /\ req' \in [Requests -> Request]
        /\ \A q \in Requests : req'[q].pc # "idle" => req'[q].name \in Names
    BY <1>12, <2>1, GotoType DEF RemoveFails, Stages, Finished
  <2>3. drift' \in SUBSET Files  BY <1>12, <2>1, NameType DEF RemoveFails, DriftIf, TypeOK
  <2>4. faults' \in 0 .. MaxFaults  BY <1>12, BoundsAssumption DEF RemoveFails, Fault, TypeOK
  <2> QED  BY <1>12, <2>2, <2>3, <2>4 DEF RemoveFails, TypeOK, watcher
<1> QED  BY <1>2, <1>3, <1>4, <1>5, <1>6, <1>7, <1>8, <1>9, <1>10, <1>11, <1>12 DEF Serve

\* and the steps of the watcher and the operator.
LEMMA WatchType ==
  ASSUME TypeOK, Watch \/ StopWatcher \/ Edit
  PROVE  TypeOK'
<1>1. CASE StartWatcher \/ WatcherExits \/ StopWatcher
  BY <1>1 DEF StartWatcher, WatcherExits, StopWatcher, TypeOK, disk
<1>2. CASE TakeEvent  BY <1>2 DEF TakeEvent, TypeOK
<1>3. CASE BeginReload
  BY <1>3, EmptyType DEF BeginReload, TypeOK, disk
<1>4. CASE ReadDirFails
  <2>1. faults' \in 0 .. MaxFaults  BY <1>4, BoundsAssumption DEF ReadDirFails, Fault, TypeOK
  <2>2. drift' \in SUBSET Files  BY <1>4 DEF ReadDirFails
  <2>3. timer' \in BOOLEAN  BY <1>4 DEF ReadDirFails
  <2> QED  BY <1>4, <2>1, <2>2, <2>3 DEF ReadDirFails, TypeOK
<1>5. CASE ReadFile
  <2>1. FileSeq[load.next] \in Files  BY <1>5, FileSeqAssumption DEF ReadFile
  <2>2. LoadFileInto(files[FileSeq[load.next]], load.snap) \in Content
    BY <2>1, LoadType DEF TypeOK
  <2>3. load' \in [pc : {"idle", "read", "callbacks"}, next : Nat, snap : Content]
    BY <1>5, <2>2, LoadStep DEF ReadFile
  <2> QED  BY <1>5, <2>3 DEF ReadFile, TypeOK, disk
<1>6. CASE ReadFileFails
  <2>1. load' \in [pc : {"idle", "read", "callbacks"}, next : Nat, snap : Content]
    BY <1>6 DEF ReadFileFails, TypeOK
  <2>2. drift' \in SUBSET Files  BY <1>6 DEF ReadFileFails, TypeOK, Files
  <2>3. faults' \in 0 .. MaxFaults  BY <1>6, BoundsAssumption DEF ReadFileFails, Fault, TypeOK
  <2> QED  BY <1>6, <2>1, <2>2, <2>3 DEF ReadFileFails, TypeOK
<1>7. CASE Swap  BY <1>7 DEF Swap, TypeOK, disk
<1>8. CASE RunCallbacks
  BY <1>8, EmptyType DEF RunCallbacks, TypeOK, disk, Content
<1>9. CASE Edit
  <2>1. PICK v \in Versions : /\ files' = [files EXCEPT ![Main] = v]
                              /\ drift' \in SUBSET (drift \cup Names \cup {Main})
    BY <1>9 DEF Edit
  <2>2. v \in Content  BY VersionsAssumption DEF Content, Defs
  <2>3. files' \in [Files -> Content]  BY <2>1, <2>2, FileType DEF Files
  <2>4. drift' \in SUBSET Files  BY <2>1 DEF TypeOK, Files
  <2>5. edits' \in 0 .. MaxEdits  BY <1>9, BoundsAssumption DEF Edit, TypeOK
  <2>6. events' \in Nat  BY <1>9, NotifiedType DEF Edit
  <2> QED  BY <1>9, <2>3, <2>4, <2>5, <2>6 DEF Edit, TypeOK, watcher
<1> QED  BY <1>1, <1>2, <1>3, <1>4, <1>5, <1>6, <1>7, <1>8, <1>9 DEF Watch

\* At the start a file named after its definition has the operator's, or none.
LEMMA InitFiles ==
  ASSUME Init
  PROVE  /\ files \in [Files -> Content]
         /\ \A f \in Files, n \in Names : files[f].defs[n] \in Edited \cup {None}
<1>1. PICK own \in [Names -> Edited \cup {None}], v \in Versions :
        files = [f \in Files |-> IF f = Main THEN v ELSE [Empty EXCEPT !.defs[f] = own[f]]]
  BY DEF Init
<1> DEFINE file(f) == [Empty EXCEPT !.defs[f] = own[f]]
<1>2. ASSUME NEW f \in Names
      PROVE  /\ file(f) \in Content
             /\ \A n \in Names : file(f).defs[n] \in Edited \cup {None}
  <2> DEFINE defs == [Empty.defs EXCEPT ![f] = own[f]]
  <2>1. file(f) = [Empty EXCEPT !.defs = defs]  OBVIOUS
  <2>2. defs \in [Names -> Edited \cup {None}]  BY DEF Empty
  <2> HIDE DEF defs
  <2>3. file(f) = [defs |-> defs, rules |-> {}]  BY <2>1 DEF Empty
  <2> QED  BY <2>2, <2>3 DEF Content, Defs
<1>3. /\ v \in Content
      /\ \A n \in Names : v.defs[n] \in Edited \cup {None}
  BY VersionsAssumption DEF Content, Defs
<1> HIDE DEF file
<1>4. \A f \in Files : files[f] = IF f = Main THEN v ELSE file(f)  BY <1>1 DEF file
<1>5. \A f \in Files \ {Main} : f \in Names  BY DEF Files
<1>6. files = [f \in Files |-> files[f]]  BY <1>1
<1> QED  BY <1>2, <1>3, <1>4, <1>5, <1>6

\* Every variable keeps its type.
THEOREM ConfigTypeOK == Spec => []TypeOK
<1>1. Init => TypeOK
  <2> SUFFICES ASSUME Init PROVE TypeOK  OBVIOUS
  <2>1. files \in [Files -> Content]  BY InitFiles
  <2>2. \A n \in Names : OnDisk(files, n) \in Defs \cup {None}
    BY <2>1, OnDiskInFiles DEF Content
  <2>3. RulesOnDisk(files) \in SUBSET Rules  BY <2>1 DEF RulesOnDisk, Content
  <2>4. snap \in Content  BY <2>2, <2>3 DEF Init, Content
  <2>5. applied \in SUBSET Rules  BY <2>4 DEF Init, Content
  <2>6. tools \in [Tools -> Defs \cup {None}]  BY <2>4 DEF Init, Content, Names
  <2>7. load \in [pc : {"idle", "read", "callbacks"}, next : Nat, snap : Content]
    BY EmptyType DEF Init
  <2>8. req \in [Requests -> Request] /\ \A r \in Requests : req[r].pc = "idle"
    BY DEF Init, Idle, Request, Finished, Files
  <2>9. edits \in 0 .. MaxEdits /\ faults \in 0 .. MaxFaults  BY BoundsAssumption DEF Init
  <2>10. watch = "off" /\ events \in Nat /\ timer \in BOOLEAN /\ drift \in SUBSET Files  BY DEF Init
  <2>11. linked \in [Requests -> BOOLEAN] /\ before \in [Requests -> SUBSET Requests]  BY DEF Init
  <2> QED  BY <2>1, <2>4, <2>5, <2>6, <2>7, <2>8, <2>9, <2>10, <2>11 DEF TypeOK
<1>2. TypeOK /\ [Next]_vars => TypeOK'
  <2> SUFFICES ASSUME TypeOK, [Next]_vars PROVE TypeOK'  OBVIOUS
  <2>1. CASE \E r \in Requests : Arrive(r) \/ Serve(r)  BY <2>1, ArriveType, ServeType
  <2>2. CASE Watch \/ StopWatcher \/ Edit  BY <2>2, WatchType
  <2>3. CASE UNCHANGED vars  BY <2>3 DEF vars, TypeOK
  <2> QED  BY <2>1, <2>2, <2>3 DEF Next
<1> QED  BY <1>1, <1>2, PTL DEF Spec

-----------------------------------------------------------------------------
(* What a step of a request does.                                            *)

\* The way of a request.
Moves(r) ==
  \/ req[r].pc = "store" /\ req'[r].pc \in {"list", "validate", "persist"}
  \/ req[r].pc = "list" /\ req'[r].pc = "persist"
  \/ req[r].pc = "validate" /\ req'[r].pc \in {"persist", "undo"}
  \/ req[r].pc = "undo" /\ req'[r].pc = "rejected"
  \/ req[r].pc = "persist" /\ req'[r].pc \in {"write", "unsaved"}
  \/ req[r].pc = "write" /\ req'[r].pc \in {"ok", "unsaved"}
  \/ /\ req[r].pc = "delete"
     /\ req'[r].pc = IF req[r].name \in Tools /\ req[r].via = "mcp" THEN "unlist" ELSE "remove"
  \/ req[r].pc = "unlist" /\ req'[r].pc = "remove"
  \/ req[r].pc = "remove" /\ req'[r].pc = "ok"

\* Of a request's own record only the place changes, and no other record.
OnlyPlace(r) ==
  /\ req[r].pc \in Stages \ Finished
  /\ req[r].name \in Names
  /\ \A q \in Requests : /\ q # r => req'[q].pc = req[q].pc
                         /\ req'[q].op = req[q].op
                         /\ req'[q].via = req[q].via
                         /\ req'[q].name = req[q].name

\* Its effect on the snapshot, the files and the tool table, definition by definition.
OnSnap(r) ==
  /\ snap'.rules = snap.rules
  /\ \A n \in Names :
       snap'.defs[n] = IF n # req[r].name THEN snap.defs[n]
                       ELSE IF req[r].pc = "store" THEN r
                       ELSE IF req[r].pc \in {"undo", "delete"} THEN None
                       ELSE snap.defs[n]
  /\ req[r].pc \in {"store", "undo", "delete"} => load.pc = "idle"
OnFiles(r) ==
  \A f \in Files, n \in Names :
    \/ files'[f].defs[n] \in {files[f].defs[n], None}
    \/ /\ req[r].pc = "write" /\ req'[r].pc = "ok"
       /\ n = req[r].name
       /\ files'[f].defs[n] = r
OnTools(r) ==
  /\ \A n \in Tools : \/ tools'[n] = tools[n]
                      \/ req[r].pc = "list" /\ tools'[n] = r
                      \/ tools'[n] = None
  /\ req[r].pc = "unlist" /\ req[r].name \in Tools => tools'[req[r].name] = None

\* Where a step that only moves on leaves the requests.
LEMMA MoveEffect ==
  ASSUME TypeOK, NEW r \in Requests, NEW pc \in Stages \ {"idle"}, NEW from \in Stages \ Finished,
         At(r, from), Goto(r, pc)
  PROVE  OnlyPlace(r) /\ req[r].pc = from /\ req'[r].pc = pc
<1>1. from # "idle" /\ ~At(r, "idle")  BY DEF At, Finished
<1> QED  BY <1>1, GotoType, NameType DEF OnlyPlace, At, Name

\* What a step of a request does, seen from outside.
LEMMA ServeEffect ==
  ASSUME TypeOK, NEW r \in Requests, Serve(r)
  PROVE  /\ Moves(r) /\ OnlyPlace(r) /\ OnSnap(r) /\ OnFiles(r) /\ OnTools(r)
         /\ UNCHANGED <<load, applied, before, watch, timer, edits>>
<1>1. r \in Defs /\ None \in Defs \cup {None} /\ r # None  BY DefsAssumption DEF Defs
<1>2. CASE Store(r)
  <2>1. PICK pc \in {"validate", "list", "persist"} : Goto(r, pc)  BY <1>2 DEF Store
  <2>2. OnlyPlace(r) /\ req[r].pc = "store" /\ req'[r].pc = pc
    BY <1>2, <2>1, MoveEffect DEF Store, Stages, Finished
  <2>3. OnSnap(r)
    BY <1>1, <1>2, <2>2, SetDefType DEF Store, OnSnap, OnlyPlace, LockFree, Name
  <2> QED  BY <1>2, <2>2, <2>3 DEF Store, Moves, OnFiles, OnTools, disk, watcher
<1>3. CASE ListTool(r)
  <2>1. OnlyPlace(r) /\ req[r].pc = "list" /\ req'[r].pc = "persist"
    BY <1>3, MoveEffect DEF ListTool, Stages, Finished
  <2>2. OnTools(r)  BY <1>3, <2>1 DEF ListTool, OnTools, TypeOK
  <2> QED  BY <1>3, <2>1, <2>2 DEF ListTool, Moves, OnFiles, OnSnap, disk, watcher
<1>4. CASE Validates(r) \/ ValidationFails(r)
  <2>1. PICK pc \in {"persist", "undo"} : Goto(r, pc)
    BY <1>4 DEF Validates, ValidationFails
  <2>2. OnlyPlace(r) /\ req[r].pc = "validate" /\ req'[r].pc = pc
    BY <1>4, <2>1, MoveEffect DEF Validates, ValidationFails, Stages, Finished
  <2> QED
    BY <1>4, <2>2 DEF Validates, ValidationFails, Moves, OnFiles, OnSnap, OnTools, disk, watcher
<1>5. CASE Undo(r)
  <2>1. OnlyPlace(r) /\ req[r].pc = "undo" /\ req'[r].pc = "rejected"
    BY <1>5, MoveEffect DEF Undo, Stages, Finished
  <2>2. OnSnap(r)
    BY <1>1, <1>5, <2>1, SetDefType DEF Undo, OnSnap, OnlyPlace, LockFree, Name
  <2> QED  BY <1>5, <2>1, <2>2 DEF Undo, Moves, OnFiles, OnTools, disk, watcher
<1>6. CASE Truncate(r)
  <2>1. OnlyPlace(r) /\ req[r].pc = "persist" /\ req'[r].pc = "write"
    BY <1>6, MoveEffect DEF Truncate, Stages, Finished
  <2>2. \A f \in Files : files'[f] \in {files[f], Empty}
    BY <1>6, EmptyType, FileType, <2>1 DEF Truncate, OnlyPlace, Name, Files
  <2>3. OnFiles(r)  BY <2>2 DEF OnFiles, Empty
  <2> QED  BY <1>6, <2>1, <2>3 DEF Truncate, Moves, OnSnap, OnTools, watcher
<1>7. CASE Write(r)
  <2>1. OnlyPlace(r) /\ req[r].pc = "write" /\ req'[r].pc = "ok"
    BY <1>7, MoveEffect DEF Write, Stages, Finished
  <2>2. OnFiles(r)
    <3>1. CASE linked[r]
      <4>1. PICK d \in {r, None} : files' = [files EXCEPT ![Name(r)].defs[Name(r)] = d]
        BY <1>7, <3>1 DEF Write
      <4> QED  BY <1>1, <2>1, <4>1, WrittenType DEF OnFiles, OnlyPlace, Name
    <3>2. CASE ~linked[r]  BY <1>7, <3>2 DEF Write, OnFiles
    <3> QED  BY <3>1, <3>2
  <2> QED  BY <1>7, <2>1, <2>2 DEF Write, Moves, OnSnap, OnTools, watcher
<1>8. CASE PersistFails(r)
  <2>1. PICK from \in {"persist", "write"} : At(r, from)  BY <1>8 DEF PersistFails
  <2>2. OnlyPlace(r) /\ req[r].pc = from /\ req'[r].pc = "unsaved"
    BY <1>8, <2>1, MoveEffect DEF PersistFails, Stages, Finished
  <2> QED  BY <1>8, <2>2 DEF PersistFails, Moves, OnFiles, OnSnap, OnTools, watcher
<1>9. CASE Delete(r)
  <2>1. PICK pc \in {"unlist", "remove"} : Goto(r, pc)  BY <1>9 DEF Delete
  <2>2. OnlyPlace(r) /\ req[r].pc = "delete" /\ req'[r].pc = pc
    BY <1>9, <2>1, MoveEffect DEF Delete, Stages, Finished
  <2>3. OnSnap(r)
    BY <1>1, <1>9, <2>2, SetDefType DEF Delete, OnSnap, OnlyPlace, LockFree, Name
  <2>4. req'[r].pc = IF req[r].name \in Tools /\ req[r].via = "mcp" THEN "unlist" ELSE "remove"
    <3>1. CASE req[r].name \in Tools /\ req[r].via = "mcp"
      <4>1. Goto(r, "unlist")  BY <1>9, <3>1 DEF Delete, Name
      <4> QED  BY <1>9, <3>1, <4>1, MoveEffect DEF Delete, Stages, Finished
    <3>2. CASE ~(req[r].name \in Tools /\ req[r].via = "mcp")
      <4>1. Goto(r, "remove")  BY <1>9, <3>2 DEF Delete, Name
      <4> QED  BY <1>9, <3>2, <4>1, MoveEffect DEF Delete, Stages, Finished
    <3> QED  BY <3>1, <3>2
  <2> QED  BY <1>9, <2>2, <2>3, <2>4 DEF Delete, Moves, OnFiles, OnTools, disk, watcher
<1>10. CASE UnlistTool(r)
  <2>1. OnlyPlace(r) /\ req[r].pc = "unlist" /\ req'[r].pc = "remove"
    BY <1>10, MoveEffect DEF UnlistTool, Stages, Finished
  <2>2. OnTools(r)  BY <1>10, <2>1 DEF UnlistTool, OnTools, TypeOK, Name
  <2> QED  BY <1>10, <2>1, <2>2 DEF UnlistTool, Moves, OnFiles, OnSnap, disk, watcher
<1>11. CASE RemoveFile(r)
  <2>1. OnlyPlace(r) /\ req[r].pc = "remove" /\ req'[r].pc = "ok"
    BY <1>11, MoveEffect DEF RemoveFile, Stages, Finished
  <2>2. \A f \in Files : files'[f] \in {files[f], Empty}
    BY <1>11, EmptyType, FileType, <2>1 DEF RemoveFile, OnlyPlace, Name, Files
  <2>3. OnFiles(r)  BY <2>2 DEF OnFiles, Empty
  <2> QED  BY <1>11, <2>1, <2>3 DEF RemoveFile, Moves, OnSnap, OnTools, watcher
<1>12. CASE RemoveFails(r)
  <2>1. OnlyPlace(r) /\ req[r].pc = "remove" /\ req'[r].pc = "ok"
    BY <1>12, MoveEffect DEF RemoveFails, Stages, Finished
  <2> QED  BY <1>12, <2>1 DEF RemoveFails, Moves, OnFiles, OnSnap, OnTools, watcher
<1> QED  BY <1>2, <1>3, <1>4, <1>5, <1>6, <1>7, <1>8, <1>9, <1>10, <1>11, <1>12 DEF Serve

-----------------------------------------------------------------------------
(* The inductive invariant.                                                  *)

\* A file holds the definition of a registration only when that is confirmed.
FilesConfirmed ==
  \A f \in Files, n \in Names, r \in Requests :
    files[f].defs[n] = r => req[r].pc = "ok" /\ req[r].name = n

\* So does the snapshot that a reload puts together from the files.
LoadConfirmed ==
  \A n \in Names, r \in Requests :
    load.snap.defs[n] = r => req[r].pc = "ok" /\ req[r].name = n

\* The snapshot that is served may also hold one that is under way, under its
\* own name; one that failed was taken back.
SnapRegistered ==
  \A n \in Names, r \in Requests :
    snap.defs[n] = r => /\ req[r].pc \in {"list", "validate", "undo", "persist", "write", "ok", "unsaved"}
                        /\ req[r].name = n

\* Registrations and removals go different ways.
PlaceOfOp ==
  \A r \in Requests :
    /\ req[r].pc \in {"store", "list", "validate", "undo", "persist", "write"} => req[r].op = "register"
    /\ req[r].pc \in {"delete", "unlist", "remove"} => req[r].op = "unregister"

\* What was confirmed stays so; one that has left the table does not come back.
BeforeConfirmed == \A r \in Requests : \A q \in before[r] : req[q].pc = "ok"
Uncallable ==
  \A r \in Requests :
    /\ req[r].pc \in {"remove", "ok"} /\ req[r].op = "unregister" /\ req[r].via = "mcp"
    /\ req[r].name \in Tools
    => tools[req[r].name] \notin before[r]

\* Only between the swap and the callbacks do the rules differ.
RulesApplied == load.pc # "callbacks" => applied = snap.rules

Inv ==
  /\ TypeOK
  /\ FilesConfirmed /\ LoadConfirmed /\ SnapRegistered
  /\ PlaceOfOp /\ BeforeConfirmed /\ Uncallable
  /\ RulesApplied

\* The invariant holds at the start
LEMMA InitInv ==
  ASSUME Init, TypeOK
  PROVE  Inv
<1>1. \A f \in Files, n \in Names, r \in Requests : files[f].defs[n] # r
  BY InitFiles, DefsAssumption DEF Defs
<1>2. \A n \in Names, r \in Requests : OnDisk(files, n) # r
  BY <1>1, OnDiskInFiles, DefsAssumption DEF Defs
<1>3. SnapRegistered  BY <1>2 DEF Init, SnapRegistered
<1>4. FilesConfirmed  BY <1>1 DEF FilesConfirmed
<1>5. LoadConfirmed  BY DefsAssumption DEF Init, Empty, LoadConfirmed, Defs
<1>6. \A r \in Requests : req[r].pc = "idle" /\ before[r] = {}  BY DEF Init, Idle
<1>7. PlaceOfOp /\ BeforeConfirmed /\ Uncallable
  BY <1>6 DEF PlaceOfOp, BeforeConfirmed, Uncallable
<1>8. RulesApplied  BY DEF Init, RulesApplied
<1> QED  BY <1>3, <1>4, <1>5, <1>7, <1>8 DEF Inv

\* and is preserved by every step of a request,
LEMMA ServeInv ==
  ASSUME Inv, NEW r \in Requests, Serve(r)
  PROVE  Inv'
<1> TypeOK  BY DEF Inv
<1>1. /\ Moves(r) /\ OnlyPlace(r) /\ OnSnap(r) /\ OnFiles(r) /\ OnTools(r)
      /\ UNCHANGED <<load, applied, before, watch, timer, edits>>
  BY ServeEffect
<1>2. None \notin Requests  BY DefsAssumption DEF Defs
<1>3. \A q \in Requests : req[q].pc = "ok" => req'[q].pc = "ok" /\ req'[q].name = req[q].name
  BY <1>1 DEF Moves, OnlyPlace
<1>4. TypeOK'  BY ServeType
<1>5. FilesConfirmed'
  <2> SUFFICES ASSUME NEW f \in Files, NEW n \in Names, NEW q \in Requests, files'[f].defs[n] = q
               PROVE  req'[q].pc = "ok" /\ req'[q].name = n
    BY DEF FilesConfirmed
  <2>1. CASE files'[f].defs[n] = files[f].defs[n]  BY <1>3, <2>1 DEF Inv, FilesConfirmed
  <2>2. CASE files'[f].defs[n] = None  BY <1>2, <2>2
  <2>3. CASE req'[r].pc = "ok" /\ n = req[r].name /\ files'[f].defs[n] = r
    BY <1>1, <2>3 DEF OnlyPlace
  <2> QED  BY <1>1, <2>1, <2>2, <2>3 DEF OnFiles
<1>6. LoadConfirmed'  BY <1>1, <1>3 DEF Inv, LoadConfirmed
<1>7. SnapRegistered'
  <2> SUFFICES ASSUME NEW n \in Names, NEW q \in Requests, snap'.defs[n] = q
               PROVE  /\ req'[q].pc \in {"list", "validate", "undo", "persist", "write", "ok", "unsaved"}
                      /\ req'[q].name = n
    BY DEF SnapRegistered
  <2>1. CASE snap'.defs[n] = snap.defs[n] /\ q # r
    BY <1>1, <2>1 DEF Inv, SnapRegistered, OnlyPlace
  <2>2. CASE snap'.defs[n] = snap.defs[n] /\ q = r
    <3>1. req[r].name = n /\ req[r].pc \in {"list", "validate", "undo", "persist", "write", "ok", "unsaved"}
      BY <2>2 DEF Inv, SnapRegistered
    <3>2. req[r].pc # "undo"  BY <1>1, <1>2, <2>2, <3>1 DEF OnSnap
    <3> QED  BY <1>1, <2>2, <3>1, <3>2 DEF Moves, OnlyPlace, Finished
  <2>3. CASE n = req[r].name /\ req[r].pc = "store" /\ snap'.defs[n] = r
    BY <1>1, <2>3 DEF Moves, OnlyPlace
  <2>4. CASE snap'.defs[n] = None  BY <1>2, <2>4
  <2> QED  BY <1>1, <2>1, <2>2, <2>3, <2>4 DEF OnSnap
<1>8. PlaceOfOp'  BY <1>1 DEF Inv, PlaceOfOp, Moves, OnlyPlace
<1>9. BeforeConfirmed'
  BY <1>1, <1>3 DEF Inv, BeforeConfirmed, TypeOK
<1>10. Uncallable'
  <2> SUFFICES ASSUME NEW q \in Requests, req'[q].pc \in {"remove", "ok"}, req'[q].op = "unregister",
                      req'[q].via = "mcp", req'[q].name \in Tools
               PROVE  tools'[req'[q].name] \notin before[q]
    BY <1>1 DEF Uncallable
  <2> DEFINE n == req[q].name
  <2>1. req[q].op = "unregister" /\ req[q].via = "mcp" /\ req'[q].name = n /\ n \in Tools
    BY <1>1 DEF OnlyPlace
  <2>2. before[q] \subseteq Requests  BY DEF TypeOK
  <2>3. CASE tools'[n] = None  BY <1>2, <2>1, <2>2, <2>3
  <2>4. CASE req[r].pc = "list" /\ tools'[n] = r
    BY <2>1, <2>4 DEF Inv, BeforeConfirmed
  <2>5. CASE tools'[n] = tools[n] /\ tools'[n] # None
    <3>1. ~(q = r /\ req[r].pc = "unlist")  BY <1>1, <2>1, <2>5 DEF OnTools
    <3>2. req[q].pc \in {"remove", "ok"}
      BY <1>1, <2>1, <3>1 DEF Moves, OnlyPlace, Inv, PlaceOfOp
    <3> QED  BY <2>1, <2>5, <3>2 DEF Inv, Uncallable
  <2> QED  BY <1>1, <2>1, <2>3, <2>4, <2>5 DEF OnTools
<1>11. RulesApplied'  BY <1>1 DEF Inv, RulesApplied, OnSnap
<1> QED  BY <1>4, <1>5, <1>6, <1>7, <1>8, <1>9, <1>10, <1>11 DEF Inv

\* by its arrival,
LEMMA ArriveInv ==
  ASSUME Inv, NEW r \in Requests, Arrive(r)
  PROVE  Inv'
<1> TypeOK  BY DEF Inv
<1>1. PICK op \in {"register", "unregister"}, via \in {"either", "http", "mcp"}, n \in Names,
           pc \in {"store", "delete"} :
        /\ Receive(r, op, via, n, pc)
        /\ op = IF pc = "store" THEN "register" ELSE "unregister"
  BY DEF Arrive, Names, RegisterTool, McpRegisterTool, UnregisterTool, McpUnregisterTool,
         RegisterDatasource, McpRegisterDatasource, UnregisterDatasource, McpUnregisterDatasource
<1>2. /\ req[r].pc = "idle"
      /\ \A q \in Requests : q # r => req'[q] = req[q]
      /\ req'[r].pc = pc /\ req'[r].op = op
      /\ UNCHANGED <<files, load, snap, tools, applied>>
  BY <1>1 DEF Receive, At, TypeOK, disk, watcher
<1>3. \A q \in Requests : /\ q # r => before'[q] = before[q]
                          /\ \A p \in before'[r] : req[p].pc = "ok"
                          /\ before'[r] \subseteq Requests
  BY <1>1 DEF Receive, At, TypeOK, Inv, BeforeConfirmed
<1>4. TypeOK'  BY ArriveType
<1>5. FilesConfirmed'  BY <1>2 DEF Inv, FilesConfirmed
<1>6. LoadConfirmed'  BY <1>2 DEF Inv, LoadConfirmed
<1>7. SnapRegistered'  BY <1>2 DEF Inv, SnapRegistered
<1>8. PlaceOfOp'  BY <1>1, <1>2 DEF Inv, PlaceOfOp
<1>9. BeforeConfirmed'
  <2> SUFFICES ASSUME NEW q \in Requests, NEW p \in before'[q]
               PROVE  req'[p].pc = "ok"
    BY DEF BeforeConfirmed
  <2>1. p \in Requests /\ req[p].pc = "ok"  BY <1>3 DEF Inv, BeforeConfirmed, TypeOK
  <2> QED  BY <1>2, <2>1
<1>10. Uncallable'  BY <1>2, <1>3 DEF Inv, Uncallable
<1>11. RulesApplied'  BY <1>2 DEF Inv, RulesApplied
<1> QED  BY <1>4, <1>5, <1>6, <1>7, <1>8, <1>9, <1>10, <1>11 DEF Inv

\* and by the watcher and the operator.
LEMMA WatchInv ==
  ASSUME Inv, Watch \/ StopWatcher \/ Edit
  PROVE  Inv'
<1> TypeOK  BY DEF Inv
<1>1. TypeOK'  BY WatchType
<1>2. None \notin Requests  BY DefsAssumption DEF Defs
<1>3. UNCHANGED <<req, before, tools>>
  BY DEF Watch, StartWatcher, TakeEvent, BeginReload, ReadDirFails, ReadFile, ReadFileFails,
         Swap, RunCallbacks, WatcherExits, StopWatcher, Edit
<1>4. PlaceOfOp' /\ BeforeConfirmed' /\ Uncallable'
  BY <1>3 DEF Inv, PlaceOfOp, BeforeConfirmed, Uncallable
<1>5. \A n \in Names, r \in Requests : Empty.defs[n] # r  BY <1>2 DEF Empty
<1>6. CASE StartWatcher \/ TakeEvent \/ ReadDirFails \/ WatcherExits \/ StopWatcher
  <2>1. UNCHANGED <<files, load, snap, applied>>
    BY <1>6 DEF StartWatcher, TakeEvent, ReadDirFails, WatcherExits, StopWatcher, disk
  <2> QED
    BY <1>1, <1>3, <1>4, <2>1 DEF Inv, FilesConfirmed, LoadConfirmed, SnapRegistered, RulesApplied
<1>7. CASE BeginReload \/ RunCallbacks
  <2>1. /\ UNCHANGED <<files, snap>>
        /\ load'.snap = Empty
        /\ applied' = snap.rules
    BY <1>7 DEF BeginReload, RunCallbacks, AtSelect, disk, Inv, RulesApplied
  <2>2. LoadConfirmed'  BY <1>3, <1>5, <2>1 DEF LoadConfirmed
  <2>3. FilesConfirmed' /\ SnapRegistered'  BY <1>3, <2>1 DEF Inv, FilesConfirmed, SnapRegistered
  <2>4. RulesApplied'  BY <2>1 DEF RulesApplied
  <2> QED  BY <1>1, <1>4, <2>2, <2>3, <2>4 DEF Inv
<1>8. CASE ReadFile \/ ReadFileFails
  <2>1. /\ UNCHANGED <<files, snap, applied>>
        /\ load.pc = "read" /\ FileSeq[load.next] \in Files
    BY <1>8, FileSeqAssumption DEF ReadFile, ReadFileFails, disk
  <2> DEFINE file == files[FileSeq[load.next]]
  <2>2. /\ load'.pc = "read"
        /\ load'.snap \in {load.snap, LoadFileInto(file, load.snap)}
    <3>1. CASE ReadFile
      <4>1. LoadFileInto(file, load.snap) \in Content  BY <2>1, LoadType DEF TypeOK
      <4> QED  BY <2>1, <3>1, <4>1, LoadStep DEF ReadFile
    <3>2. CASE ReadFileFails  BY <2>1, <3>2 DEF ReadFileFails, TypeOK
    <3> QED  BY <1>8, <3>1, <3>2
  <2>3. \A n \in Names : load'.snap.defs[n] \in {load.snap.defs[n], file.defs[n]}
    BY <2>2 DEF LoadFileInto
  <2>4. LoadConfirmed'
    BY <1>3, <2>1, <2>3 DEF Inv, LoadConfirmed, FilesConfirmed
  <2>5. FilesConfirmed' /\ SnapRegistered'  BY <1>3, <2>1 DEF Inv, FilesConfirmed, SnapRegistered
  <2>6. RulesApplied'  BY <2>1, <2>2 DEF Inv, RulesApplied
  <2> QED  BY <1>1, <1>4, <2>4, <2>5, <2>6 DEF Inv
<1>9. CASE Swap
  <2>1. /\ UNCHANGED files
        /\ snap' = load.snap
        /\ load'.pc = "callbacks" /\ load'.snap = load.snap
    BY <1>9 DEF Swap, disk, TypeOK
  <2> QED
    BY <1>1, <1>3, <1>4, <2>1 DEF Inv, FilesConfirmed, LoadConfirmed, SnapRegistered, RulesApplied
<1>10. CASE Edit
  <2>1. PICK v \in Versions : files' = [files EXCEPT ![Main] = v]  BY <1>10 DEF Edit
  <2>2. v \in Content /\ \A n \in Names, r \in Requests : v.defs[n] # r
    BY VersionsAssumption, DefsAssumption DEF Content, Defs
  <2>3. \A f \in Files : files'[f] = IF f = Main THEN v ELSE files[f]
    BY <2>1, <2>2, FileType DEF Files
  <2>4. FilesConfirmed'  BY <1>3, <2>2, <2>3 DEF Inv, FilesConfirmed
  <2>5. UNCHANGED <<load, snap, applied>>  BY <1>10 DEF Edit, watcher
  <2>6. LoadConfirmed' /\ SnapRegistered' /\ RulesApplied'
    BY <1>3, <2>5 DEF Inv, LoadConfirmed, SnapRegistered, RulesApplied
  <2> QED  BY <1>1, <1>4, <2>4, <2>6 DEF Inv
<1> QED  BY <1>6, <1>7, <1>8, <1>9, <1>10 DEF Watch

\* Hence it holds throughout.
LEMMA InvHolds == Spec => []Inv
<1>1. Init /\ TypeOK => Inv  BY InitInv
<1>2. Inv /\ [Next]_vars => Inv'
  <2> SUFFICES ASSUME Inv, [Next]_vars PROVE Inv'  OBVIOUS
  <2>1. CASE \E r \in Requests : Arrive(r) \/ Serve(r)  BY <2>1, ArriveInv, ServeInv
  <2>2. CASE Watch \/ StopWatcher \/ Edit  BY <2>2, WatchInv
  <2>3. CASE UNCHANGED vars
    BY <2>3 DEF vars, Inv, TypeOK, FilesConfirmed, LoadConfirmed, SnapRegistered, PlaceOfOp,
                BeforeConfirmed, Uncallable, RulesApplied
  <2> QED  BY <2>1, <2>2, <2>3 DEF Next
<1> QED  BY <1>1, <1>2, ConfigTypeOK, PTL DEF Spec

\* A datasource whose validation failed is in no file and no snapshot.
THEOREM RejectedNowhere == Spec => []RejectedIsGone
<1>1. Inv => RejectedIsGone
  BY DEF Inv, RejectedIsGone, FilesConfirmed, LoadConfirmed, SnapRegistered, At
<1> QED  BY <1>1, InvHolds, PTL

\* Outside of a reload permissions are those of the snapshot.
THEOREM RulesAreCurrent == Spec => []RulesFollowSnapshot
<1>1. Inv => RulesFollowSnapshot  BY DEF Inv, RulesFollowSnapshot, RulesApplied, LockFree
<1> QED  BY <1>1, InvHolds, PTL

\* A tool unregistered over MCP cannot be called, unless it was registered since.
THEOREM UnregisteredGone == Spec => []UnregisteredIsUncallable
<1>1. Inv => UnregisteredIsUncallable
  BY DEF Inv, UnregisteredIsUncallable, Uncallable, At, Name
<1> QED  BY <1>1, InvHolds, PTL

-----------------------------------------------------------------------------
(* What is served is what the files say.                                     *)

\* Nothing is waiting to be reloaded, nor will a change go unnoticed.
Calm == watch \in {"off", "on"} /\ events = 0 /\ ~timer

\* No registration of n is stored and not written yet.
Settled(n) ==
  \A r \in Requests : req[r].name = n => req[r].pc \notin {"list", "validate", "undo", "persist"}

\* A name is served as the files say, but for a removal under way; during a
\* reload that holds of what was read so far, and then of what was swapped in.
NameServed(n) ==
  /\ load.pc = "idle" /\ Settled(n) =>
       \/ snap.defs[n] = OnDisk(files, n)
       \/ snap.defs[n] = None /\ \E r \in Requests : req[r].name = n /\ req[r].pc \in {"unlist", "remove"}
  /\ load.pc = "read" => LastOf(files, n, load.next - 1, load.snap.defs[n])
  /\ load.pc = "callbacks" => snap.defs[n] = OnDisk(files, n)

RulesRead(k) == UNION {files[FileSeq[j]].rules : j \in 1 .. k}
RulesServed ==
  /\ load.pc = "read" => load.snap.rules = RulesRead(load.next - 1)
  /\ load.pc # "read" => snap.rules = RulesOnDisk(files)

Served ==
  Calm => /\ \A n \in Names \ drift : NameServed(n)
          /\ Main \notin drift => RulesServed

NextInRange == load.next \in 1 .. Len(FileSeq) + 1
NothingYet == watch = "off" => load.pc = "idle" /\ \A r \in Requests : req[r].pc = "idle"

DiskInv == Served /\ NextInRange /\ NothingYet

\* Files that agree on a name have the same last definition of it.
LEMMA SameOnDisk ==
  ASSUME NEW fs, NEW gs, NEW n, \A f \in Files : fs[f].defs[n] = gs[f].defs[n]
  PROVE  OnDisk(fs, n) = OnDisk(gs, n)
<1>1. Len(FileSeq) \in Nat /\ \A i \in 1 .. Len(FileSeq) : FileSeq[i] \in Files
  BY FileSeqAssumption
<1>2. LastOf(fs, n, Len(FileSeq), OnDisk(fs, n))  BY OnDiskIsLast
<1>3. LastOf(gs, n, Len(FileSeq), OnDisk(fs, n))
  <2>1. \A i \in 1 .. Len(FileSeq) : fs[FileSeq[i]].defs[n] = gs[FileSeq[i]].defs[n]  BY <1>1
  <2>2. \A i \in 1 .. Len(FileSeq) : \A j \in i + 1 .. Len(FileSeq) : j \in 1 .. Len(FileSeq)
    BY <1>1
  <2> QED  BY <1>2, <2>1, <2>2 DEF LastOf
<1> QED  BY <1>3, LastIsOnDisk

\* One more file is read: its definition is the last one, if it has one.
LEMMA OneMore ==
  ASSUME NEW fs, NEW n, NEW k \in Nat, NEW d, LastOf(fs, n, k, d)
  PROVE  LET e == fs[FileSeq[k + 1]].defs[n]
         IN  LastOf(fs, n, k + 1, IF e # None THEN e ELSE d)
<1> DEFINE e == fs[FileSeq[k + 1]].defs[n]
<1>1. CASE e # None
  <2>1. k + 1 \in 1 .. k + 1 /\ \A j \in (k + 1) + 1 .. k + 1 : FALSE  OBVIOUS
  <2> QED  BY <1>1, <2>1 DEF LastOf
<1>2. CASE e = None
  <2>1. \A j \in 1 .. k + 1 : j \in 1 .. k \/ j = k + 1  OBVIOUS
  <2>2. CASE d = None  BY <1>2, <2>1, <2>2 DEF LastOf
  <2>3. CASE d # None
    <3>1. PICK i \in 1 .. k : /\ fs[FileSeq[i]].defs[n] = d
                              /\ \A j \in i + 1 .. k : fs[FileSeq[j]].defs[n] = None
      BY <2>3 DEF LastOf
    <3>2. i \in 1 .. k + 1 /\ \A j \in i + 1 .. k + 1 : j \in i + 1 .. k \/ j = k + 1  OBVIOUS
    <3>3. \A j \in i + 1 .. k + 1 : fs[FileSeq[j]].defs[n] = None  BY <1>2, <3>1, <3>2
    <3> QED  BY <1>2, <2>3, <3>1, <3>2, <3>3 DEF LastOf
  <2> QED  BY <2>2, <2>3
<1> QED  BY <1>1, <1>2

\* A step of a request that the watcher is not told of leaves the files alone,
\* and the name agrees with them or is known not to.
LEMMA ServeUnnoticed ==
  ASSUME TypeOK, NEW r \in Requests, Serve(r), watch = "on", events' = 0
  PROVE  /\ files' = files /\ events = 0 /\ drift \subseteq drift'
         /\ ~(req[r].pc = "persist" /\ req'[r].pc = "write")
         /\ req'[r].pc = "unsaved" => req[r].name \in drift'
         /\ req[r].pc \in {"undo", "remove"} =>
              req[r].name \in drift' \/ OnDisk(files, req[r].name) = None
<1>1. Moves(r) /\ OnlyPlace(r)  BY ServeEffect
<1>2. CASE Store(r) \/ ListTool(r) \/ Validates(r) \/ ValidationFails(r) \/ Delete(r) \/ UnlistTool(r)
  <2>1. req[r].pc \in {"store", "list", "validate", "delete", "unlist"}
    BY <1>2 DEF Store, ListTool, Validates, ValidationFails, Delete, UnlistTool, At
  <2>2. UNCHANGED <<files, events, drift>>
    BY <1>2 DEF Store, ListTool, Validates, ValidationFails, Delete, UnlistTool, disk
  <2> QED  BY <1>1, <2>1, <2>2 DEF Moves
<1>3. CASE Undo(r)
  BY <1>1, <1>3 DEF Undo, At, Moves, disk, DriftIf, Name
<1>4. CASE Truncate(r)  BY <1>4, NotifiedType DEF Truncate
<1>5. CASE Write(r)
  <2>1. CASE linked[r]  BY <1>5, <2>1, NotifiedType DEF Write
  <2>2. CASE ~linked[r]
    <3>1. files' = files /\ drift' = drift /\ req[r].pc = "write"  BY <1>5, <2>2 DEF Write, At
    <3>2. Notified(0)  BY <1>5, <2>2 DEF Write
    <3>3. events = 0  BY <3>2, NotifiedType
    <3>4. req'[r].pc = "ok"  BY <1>5, MoveEffect DEF Write, Stages, Finished
    <3> QED  BY <3>1, <3>3, <3>4
  <2> QED  BY <2>1, <2>2
<1>6. CASE PersistFails(r)
  <2>1. PICK from \in {"persist", "write"} : At(r, from)  BY <1>6 DEF PersistFails
  <2>2. req[r].pc = from /\ req'[r].pc = "unsaved"
    BY <1>6, <2>1, MoveEffect DEF PersistFails, Stages, Finished
  <2>3. req[r].name \in drift' /\ drift \subseteq drift' /\ UNCHANGED <<files, events>>
    BY <1>6 DEF PersistFails, DriftIf, Name
  <2> QED  BY <2>2, <2>3
<1>7. CASE RemoveFile(r)
  <2>1. PICK n \in IF files[Name(r)] = Empty /\ linked' = linked THEN {0, 1} ELSE {1} : Notified(n)
    BY <1>7 DEF RemoveFile
  <2>2. n = 0 /\ files[Name(r)] = Empty  BY <2>1, NotifiedType
  <2>3. events = 0  BY <2>1, <2>2, NotifiedType
  <2>4. files' = files  BY <1>7, <2>2 DEF RemoveFile, TypeOK
  <2>5. req[r].pc = "remove" /\ drift \subseteq drift'
        /\ (req[r].name \in drift' \/ OnDisk(files, req[r].name) = None)
    BY <1>7, <2>4 DEF RemoveFile, At, DriftIf, Name
  <2> QED  BY <1>1, <2>3, <2>4, <2>5 DEF Moves
<1>8. CASE RemoveFails(r)
  BY <1>1, <1>8 DEF RemoveFails, At, Moves, DriftIf, Name
<1> QED  BY <1>2, <1>3, <1>4, <1>5, <1>6, <1>7, <1>8 DEF Serve

\* Every step of a request preserves it.
LEMMA ServeDisk ==
  ASSUME TypeOK, DiskInv, NEW r \in Requests, Serve(r)
  PROVE  DiskInv'
<1>1. /\ Moves(r) /\ OnlyPlace(r) /\ OnSnap(r)
      /\ UNCHANGED <<load, watch, timer>>
  BY ServeEffect
<1>2. watch # "off"  BY <1>1 DEF DiskInv, NothingYet, OnlyPlace, Finished
<1>3. NextInRange' /\ NothingYet'  BY <1>1, <1>2 DEF DiskInv, NextInRange, NothingYet
<1>4. Served'
  <2> SUFFICES ASSUME Calm' PROVE (\A n \in Names \ drift' : NameServed(n)') /\ (Main \notin drift' => RulesServed')
    BY DEF Served
  <2>1. watch = "on" /\ events' = 0  BY <1>1, <1>2 DEF Calm
  <2>2. /\ files' = files /\ events = 0 /\ drift \subseteq drift'
        /\ ~(req[r].pc = "persist" /\ req'[r].pc = "write")
        /\ req'[r].pc = "unsaved" => req[r].name \in drift'
        /\ req[r].pc \in {"undo", "remove"} =>
             req[r].name \in drift' \/ OnDisk(files, req[r].name) = None
    BY <2>1, ServeUnnoticed
  <2>3. /\ \A n \in Names \ drift : NameServed(n)
        /\ Main \notin drift => RulesServed
    BY <1>1, <2>1, <2>2 DEF DiskInv, Served, Calm
  <2>4. ASSUME NEW n \in Names \ drift'
        PROVE  NameServed(n)'
    <3>1. NameServed(n)  BY <2>2, <2>3
    <3>2. load.pc = "read" => LastOf(files', n, load'.next - 1, load'.snap.defs[n])
      BY <1>1, <2>2, <3>1 DEF NameServed
    <3>3. load.pc = "callbacks" => snap'.defs[n] = OnDisk(files', n)
      BY <1>1, <2>2, <3>1 DEF NameServed, OnSnap
    <3>4. ASSUME load.pc = "idle", Settled(n)'
          PROVE  \/ snap'.defs[n] = OnDisk(files, n)
                 \/ /\ snap'.defs[n] = None
                    /\ \E q \in Requests : req'[q].name = n /\ req'[q].pc \in {"unlist", "remove"}
      <4>1. CASE n # req[r].name
        <5>1. Settled(n)  BY <1>1, <3>4, <4>1 DEF Settled, OnlyPlace
        <5>2. snap'.defs[n] = snap.defs[n]  BY <1>1, <4>1 DEF OnSnap
        <5> QED  BY <1>1, <3>1, <3>4, <4>1, <5>1, <5>2 DEF NameServed, OnlyPlace
      <4>2. CASE n = req[r].name
        <5>1. req'[r].pc \notin {"list", "validate", "undo", "persist"}
          BY <1>1, <3>4, <4>2 DEF Settled, OnlyPlace
        <5>2. \A q \in Requests \ {r} : req[q].name = n => req[q].pc \notin {"list", "validate", "undo", "persist"}
          BY <1>1, <3>4 DEF Settled, OnlyPlace
        <5>3. CASE req[r].pc = "undo"
          BY <1>1, <2>2, <4>2, <5>3 DEF OnSnap
        <5>4. CASE req[r].pc = "delete"
          BY <1>1, <4>2, <5>4 DEF OnSnap, OnlyPlace, Moves
        <5>5. CASE req[r].pc \in {"write", "unlist", "remove"}
          <6>1. snap'.defs[n] = snap.defs[n]  BY <1>1, <5>5 DEF OnSnap
          <6>2. Settled(n)  BY <5>2, <5>5 DEF Settled
          <6>3. \/ snap.defs[n] = OnDisk(files, n)
                \/ /\ snap.defs[n] = None
                   /\ \E q \in Requests : req[q].name = n /\ req[q].pc \in {"unlist", "remove"}
            BY <3>1, <3>4, <6>2 DEF NameServed
          <6>4. CASE snap.defs[n] = OnDisk(files, n)  BY <6>1, <6>4
          <6>5. CASE snap.defs[n] = None /\ req[r].pc = "remove"
            BY <2>2, <4>2, <6>1, <6>5
          <6>6. CASE snap.defs[n] = None /\ req[r].pc = "unlist"
            BY <1>1, <4>2, <6>1, <6>6 DEF Moves, OnlyPlace
          <6>7. ASSUME snap.defs[n] = None, NEW q \in Requests, req[q].name = n,
                       req[q].pc \in {"unlist", "remove"}, req[r].pc = "write"
                PROVE  \E p \in Requests : req'[p].name = n /\ req'[p].pc \in {"unlist", "remove"}
            BY <1>1, <6>7 DEF OnlyPlace
          <6> QED  BY <5>5, <6>1, <6>3, <6>4, <6>5, <6>6, <6>7
        <5> QED  BY <1>1, <2>2, <4>2, <5>1, <5>3, <5>4, <5>5 DEF Moves
      <4> QED  BY <4>1, <4>2
    <3> QED  BY <1>1, <2>2, <3>2, <3>3, <3>4 DEF NameServed
  <2>5. ASSUME Main \notin drift' PROVE RulesServed'
    <3>1. RulesServed  BY <2>2, <2>3, <2>5
    <3> QED  BY <1>1, <2>2, <3>1 DEF RulesServed, RulesRead, OnSnap
  <2> QED  BY <2>4, <2>5
<1> QED  BY <1>3, <1>4 DEF DiskInv

\* So does its arrival.
LEMMA ArriveDisk ==
  ASSUME TypeOK, DiskInv, NEW r \in Requests, Arrive(r)
  PROVE  DiskInv'
<1>1. PICK op \in {"register", "unregister"}, via \in {"either", "http", "mcp"}, n \in Names,
           pc \in {"store", "delete"} : Receive(r, op, via, n, pc)
  BY DEF Arrive, Names, RegisterTool, McpRegisterTool, UnregisterTool, McpUnregisterTool,
         RegisterDatasource, McpRegisterDatasource, UnregisterDatasource, McpUnregisterDatasource
<1>2. /\ req[r].pc = "idle" /\ watch # "off"
      /\ \A q \in Requests : q # r => req'[q] = req[q]
      /\ req'[r].pc = pc
      /\ UNCHANGED <<files, load, snap, events, timer, watch, drift>>
  BY <1>1 DEF Receive, At, TypeOK, disk, watcher
<1>3. NextInRange' /\ NothingYet'  BY <1>2 DEF DiskInv, NextInRange, NothingYet
<1>4. ASSUME NEW m \in Names, NameServed(m) PROVE NameServed(m)'
  <2>1. Settled(m)' => Settled(m)  BY <1>2 DEF Settled
  <2>2. ASSUME NEW q \in Requests, req[q].name = m, req[q].pc \in {"unlist", "remove"}
        PROVE  req'[q].name = m /\ req'[q].pc \in {"unlist", "remove"}
    BY <1>2, <2>2
  <2> QED  BY <1>2, <1>4, <2>1, <2>2 DEF NameServed
<1>5. RulesServed => RulesServed'  BY <1>2 DEF RulesServed, RulesRead
<1>6. Served'  BY <1>2, <1>4, <1>5 DEF DiskInv, Served, Calm
<1> QED  BY <1>3, <1>6 DEF DiskInv

\* The watcher, its stop and the operator preserve it: a reload reads what the
\* files say, unless somebody changes them, and that is notified.
LEMMA WatchDisk ==
  ASSUME TypeOK, DiskInv, Watch \/ StopWatcher \/ Edit
  PROVE  DiskInv'
<1>1. Len(FileSeq) \in Nat /\ DOMAIN FileSeq = 1 .. Len(FileSeq)  BY FileSeqAssumption
<1>2. load.pc # "idle" => watch # "off"  BY DEF DiskInv, NothingYet
<1>3. CASE StartWatcher
  <2>1. /\ UNCHANGED <<files, load, snap, req, events, timer, drift>>
        /\ watch = "off" /\ watch' = "on"
    BY <1>3 DEF StartWatcher, disk
  <2>2. NextInRange' /\ NothingYet'  BY <2>1 DEF DiskInv, NextInRange, NothingYet
  <2>3. \A n \in Names : NameServed(n) => NameServed(n)'  BY <2>1 DEF NameServed, Settled
  <2>4. RulesServed => RulesServed'  BY <2>1 DEF RulesServed, RulesRead
  <2> QED  BY <2>1, <2>2, <2>3, <2>4 DEF DiskInv, Served, Calm
<1>4. CASE TakeEvent \/ ReadDirFails \/ StopWatcher \/ WatcherExits
  <2>1. UNCHANGED load /\ watch' # "off"
    BY <1>4 DEF TakeEvent, ReadDirFails, StopWatcher, WatcherExits, AtSelect
  <2>2. Calm' => drift' = Files
    BY <1>4 DEF TakeEvent, ReadDirFails, StopWatcher, WatcherExits, Calm
  <2> QED  BY <2>1, <2>2 DEF DiskInv, NextInRange, NothingYet, Served, Files
<1>5. CASE BeginReload
  <2>1. /\ watch' # "off"
        /\ load'.pc = "read" /\ load'.next = 1 /\ load'.snap = Empty
    BY <1>5 DEF BeginReload, AtSelect
  <2>2. NextInRange' /\ NothingYet'  BY <1>1, <2>1 DEF NextInRange, NothingYet
  <2>3. \A n \in Names : NameServed(n)'
    BY <2>1 DEF NameServed, LastOf, Empty
  <2>4. RulesServed'  BY <2>1 DEF RulesServed, RulesRead, Empty
  <2> QED  BY <2>2, <2>3, <2>4 DEF DiskInv, Served
<1>6. CASE ReadFile \/ ReadFileFails
  <2> DEFINE file == files[FileSeq[load.next]]
             k == load.next - 1
  <2>1. /\ UNCHANGED <<files, snap, events, watch, timer>>
        /\ load.pc = "read" /\ load.next \in 1 .. Len(FileSeq) /\ FileSeq[load.next] \in Files
    BY <1>1, <1>6, FileSeqAssumption DEF ReadFile, ReadFileFails, disk
  <2>2. k \in Nat /\ k + 1 = load.next  BY <1>1, <2>1
  <2>3. /\ load'.pc = "read" /\ load'.next = load.next + 1
        /\ ReadFile => load'.snap = LoadFileInto(file, load.snap)
        /\ ReadFileFails => load'.snap = load.snap
    <3>1. CASE ReadFile
      <4>1. LoadFileInto(file, load.snap) \in Content  BY <2>1, LoadType DEF TypeOK
      <4>2. ~ReadFileFails \/ load'.snap = load.snap  BY <2>1 DEF ReadFileFails, TypeOK
      <4> QED  BY <2>1, <3>1, <4>1, <4>2, LoadStep DEF ReadFile
    <3>2. CASE ~ReadFile /\ ReadFileFails  BY <2>1, <3>2 DEF ReadFileFails, TypeOK
    <3> QED  BY <1>6, <3>1, <3>2
  <2>4. load'.next - 1 = k + 1 /\ load'.next \in 1 .. Len(FileSeq) + 1
    BY <1>1, <2>1, <2>3
  <2>5. NextInRange' /\ NothingYet'  BY <1>2, <2>1, <2>4 DEF NextInRange, NothingYet
  <2>6. drift \subseteq drift'  BY <1>6 DEF ReadFile, ReadFileFails
  <2>7. ASSUME NEW n \in Names \ drift', NameServed(n) PROVE NameServed(n)'
    <3>1. LastOf(files, n, k, load.snap.defs[n])  BY <2>1, <2>7 DEF NameServed
    <3>2. LET e == file.defs[n]
          IN  LastOf(files, n, k + 1, IF e # None THEN e ELSE load.snap.defs[n])
      <4> HIDE DEF k
      <4>1. files[FileSeq[k + 1]] = file  BY <2>2
      <4> QED  BY <2>2, <3>1, <4>1, OneMore
    <3>3. load'.snap.defs[n] = IF file.defs[n] # None THEN file.defs[n] ELSE load.snap.defs[n]
      <4>1. CASE ReadFile  BY <2>3, <4>1 DEF LoadFileInto
      <4>2. CASE ReadFileFails
        <5>1. file.defs[n] = None  BY <2>7, <4>2 DEF ReadFileFails
        <5> QED  BY <2>3, <4>2, <5>1
      <4> QED  BY <1>6, <4>1, <4>2
    <3>4. LastOf(files', n, load'.next - 1, load'.snap.defs[n])
      BY <2>1, <2>4, <3>2, <3>3
    <3> QED  BY <2>3, <3>4 DEF NameServed
  <2>8. ASSUME Main \notin drift', RulesServed PROVE RulesServed'
    <3>1. load.snap.rules = RulesRead(k)  BY <2>1, <2>8 DEF RulesServed
    <3>2. load'.snap.rules = load.snap.rules \cup file.rules
      <4>1. CASE ReadFile  BY <2>3, <4>1 DEF LoadFileInto
      <4>2. CASE ReadFileFails
        <5>1. file.rules = {}  BY <2>8, <4>2 DEF ReadFileFails
        <5> QED  BY <2>3, <4>2, <5>1
      <4> QED  BY <1>6, <4>1, <4>2
    <3>3. RulesRead(k + 1) = RulesRead(k) \cup file.rules
      <4> HIDE DEF k
      <4>1. 1 .. k + 1 = (1 .. k) \cup {k + 1}  BY <2>2
      <4>2. files[FileSeq[k + 1]] = file  BY <2>2
      <4> QED  BY <4>1, <4>2 DEF RulesRead
    <3>4. load'.snap.rules = UNION {files[FileSeq[j]].rules : j \in 1 .. k + 1}
      BY <3>1, <3>2, <3>3 DEF RulesRead
    <3>5. load'.snap.rules = UNION {files'[FileSeq[j]].rules : j \in 1 .. load'.next - 1}
      <4> HIDE DEF k
      <4> QED  BY <2>1, <2>4, <3>4
    <3> QED  BY <2>3, <3>5 DEF RulesServed, RulesRead
  <2>9. Served'
    BY <2>1, <2>6, <2>7, <2>8 DEF DiskInv, Served, Calm
  <2> QED  BY <2>5, <2>9 DEF DiskInv
<1>7. CASE Swap
  <2>1. /\ UNCHANGED <<files, events, watch, timer, drift>>
        /\ snap' = load.snap
        /\ load.pc = "read" /\ load.next \notin 1 .. Len(FileSeq)
        /\ load'.pc = "callbacks" /\ load'.next = load.next
    BY <1>1, <1>7 DEF Swap, disk, TypeOK
  <2>2. load.next - 1 = Len(FileSeq)  BY <1>1, <2>1 DEF DiskInv, NextInRange
  <2>3. NextInRange' /\ NothingYet'  BY <1>2, <2>1 DEF DiskInv, NextInRange, NothingYet
  <2>4. ASSUME NEW n \in Names, NameServed(n) PROVE NameServed(n)'
    <3>1. LastOf(files, n, Len(FileSeq), load.snap.defs[n])  BY <2>1, <2>2, <2>4 DEF NameServed
    <3>2. load.snap.defs[n] = OnDisk(files, n)  BY <3>1, LastIsOnDisk
    <3> QED  BY <2>1, <3>2 DEF NameServed
  <2>5. ASSUME RulesServed PROVE RulesServed'
    <3>1. load.snap.rules = RulesRead(Len(FileSeq))  BY <2>1, <2>2, <2>5 DEF RulesServed
    <3>2. RulesRead(Len(FileSeq)) = RulesOnDisk(files)
      BY <1>1, FileSeqAssumption DEF RulesRead, RulesOnDisk
    <3> QED  BY <2>1, <3>1, <3>2 DEF RulesServed
  <2> QED  BY <2>1, <2>3, <2>4, <2>5 DEF DiskInv, Served, Calm
<1>8. CASE RunCallbacks
  <2>1. /\ UNCHANGED <<files, events, watch, timer, drift, snap, req>>
        /\ load.pc = "callbacks" /\ load'.pc = "idle" /\ load'.next = 1
    BY <1>8 DEF RunCallbacks, disk
  <2>2. NextInRange' /\ NothingYet'  BY <1>1, <1>2, <2>1 DEF NextInRange, NothingYet
  <2>3. \A n \in Names : NameServed(n) => NameServed(n)'  BY <2>1 DEF NameServed
  <2>4. RulesServed => RulesServed'  BY <2>1 DEF RulesServed
  <2> QED  BY <2>1, <2>2, <2>3, <2>4 DEF DiskInv, Served, Calm
<1>9. CASE Edit
  <2>1. PICK v \in Versions :
          /\ files' = [files EXCEPT ![Main] = v]
          /\ drift' = IF watch = "off"
                      THEN drift \cup {n \in Names : v.defs[n] # files[Main].defs[n]} \cup {Main}
                      ELSE drift
    BY <1>9 DEF Edit
  <2>2. Notified(1) /\ UNCHANGED <<load, watch, timer, snap, req>>
    BY <1>9 DEF Edit, watcher
  <2>3. NextInRange' /\ NothingYet'  BY <2>2 DEF DiskInv, NextInRange, NothingYet
  <2>4. Served'
    <3>1. CASE watch # "off"
      <4>1. ~Calm'  BY <2>2, <3>1, NotifiedType DEF Calm
      <4> QED  BY <4>1 DEF Served
    <3>2. CASE watch = "off"
      <4>1. Main \in drift' /\ drift \subseteq drift'  BY <2>1, <3>2
      <4>2. Calm' => Calm  BY <2>2, <3>2, NotifiedType DEF Calm
      <4>3. load.pc = "idle"  BY <3>2 DEF DiskInv, NothingYet
      <4>4. ASSUME NEW n \in Names \ drift', NameServed(n) PROVE NameServed(n)'
        <5>1. v.defs[n] = files[Main].defs[n]  BY <2>1, <3>2, <4>4
        <5>2. \A f \in Files : files'[f].defs[n] = files[f].defs[n]  BY <2>1, <5>1 DEF TypeOK
        <5>3. OnDisk(files', n) = OnDisk(files, n)  BY <5>2, SameOnDisk
        <5> QED  BY <2>2, <4>3, <4>4, <5>3 DEF NameServed, Settled
      <4> QED  BY <4>1, <4>2, <4>4 DEF DiskInv, Served
    <3> QED  BY <3>1, <3>2
  <2> QED  BY <2>3, <2>4 DEF DiskInv
<1> QED  BY <1>3, <1>4, <1>5, <1>6, <1>7, <1>8, <1>9 DEF Watch

\* Hence it holds throughout.
LEMMA DiskInvHolds == Spec => []DiskInv
<1>1. Init => DiskInv
  <2> SUFFICES ASSUME Init PROVE DiskInv  OBVIOUS
  <2>1. NextInRange /\ NothingYet
    <3>1. Len(FileSeq) \in Nat  BY FileSeqAssumption
    <3> QED  BY <3>1 DEF Init, NextInRange, NothingYet, Idle
  <2>2. \A n \in Names : NameServed(n)  BY DEF Init, NameServed
  <2>3. RulesServed  BY DEF Init, RulesServed
  <2> QED  BY <2>1, <2>2, <2>3 DEF DiskInv, Served
<1>2. TypeOK /\ DiskInv /\ [Next]_vars => DiskInv'
  <2> SUFFICES ASSUME TypeOK, DiskInv, [Next]_vars PROVE DiskInv'  OBVIOUS
  <2>1. CASE \E r \in Requests : Arrive(r) \/ Serve(r)  BY <2>1, ArriveDisk, ServeDisk
  <2>2. CASE Watch \/ StopWatcher \/ Edit  BY <2>2, WatchDisk
  <2>3. CASE UNCHANGED vars
    BY <2>3 DEF vars, DiskInv, Served, Calm, NameServed, Settled, RulesServed, RulesRead,
                NextInRange, NothingYet
  <2> QED  BY <2>1, <2>2, <2>3 DEF Next
<1> QED  BY <1>1, <1>2, ConfigTypeOK, PTL DEF Spec

\* When nothing is under way the server serves what the files say.
THEOREM ServedAgrees == Spec => []ServedIsOnDisk
<1>1. DiskInv => ServedIsOnDisk
  <2> SUFFICES ASSUME DiskInv, Quiet PROVE InStep  BY DEF ServedIsOnDisk
  <2>1. Calm /\ load.pc = "idle"  BY DEF Quiet, Calm, LockFree
  <2>2. \A n \in Names : Settled(n) /\ ~\E r \in Requests : req[r].name = n /\ req[r].pc \in {"unlist", "remove"}
    BY DEF Quiet, Settled, Finished
  <2> QED  BY <2>1, <2>2 DEF DiskInv, Served, NameServed, RulesServed, InStep
<1> QED  BY <1>1, DiskInvHolds, PTL
=============================================================================
