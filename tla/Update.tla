-------------------------------- MODULE Update --------------------------------
(***************************************************************************)
(* adb-link update: fetch the latest release, pick the archive of this     *)
(* platform, download and extract it to temporary files, and put the new   *)
(* binary in the place of the running one, with the old one kept beside it *)
(* until the new one is in place.  Every call of the file system and the   *)
(* network may fail, and the process may be killed between any two.        *)
(*                                                                         *)
(* One update runs at a time; nothing in the code makes sure of that.      *)
(*                                                                         *)
(* Definitions under "Wrong:" are variants with a plausible bug, not part  *)
(* of the specification; each shows which property catches it.             *)
(***************************************************************************)
EXTENDS Naturals

CONSTANTS
  Releases,  \* numbered as they are published
  Says,      \* the version a release's binary says it is: a release, not always its own
  Built,     \* platforms a release has archives for
  Hosts,     \* platforms the program is updated on
  None       \* no file, no archive

Platforms == [os : {"linux", "darwin", "windows", "freebsd"}, arch : {"amd64", "arm64"}]

ASSUME ReleasesAssumption == Releases \subseteq Nat /\ Says \in [Releases -> Releases]
ASSUME PlatformsAssumption == Built \subseteq Platforms /\ Hosts \subseteq Platforms

File == [rel : Releases, plat : Platforms, whole : BOOLEAN, exec : BOOLEAN]
ASSUME NoneAssumption == None \notin File

VARIABLES
  host,     \* the platform
  latest,   \* the latest release
  exe,      \* the file at exePath
  bak,      \* the file at exePath.bak
  dl, bin,  \* this run's temporary files: the archive and the binary out of it
  pc,       \* the next call of the run, idle when no update runs
  run       \* what the run has found out, and how the last one ended

vars == <<host, latest, exe, bak, dl, bin, pc, run>>
places == <<exe, bak>>
temps == <<dl, bin>>

Steps == {"idle", "fetch", "select", "temp", "download", "extract", "unpack", "backup", "create",
          "copy", "chmod", "rollback", "discard", "return"}
Run == [from : Releases, rel : Releases, assets : SUBSET Built, asset : Platforms,
        outcome : {"none", "updated", "current", "error", "killed"}, faults : 0 .. 2]

TypeOK ==
  /\ host \in Hosts
  /\ latest \in Releases
  /\ exe \in File \cup {None} /\ bak \in File \cup {None}
  /\ dl \in File \cup {None} /\ bin \in File \cup {None}
  /\ pc \in Steps
  /\ run \in Run

Runnable(f) == f # None /\ f.whole /\ f.exec /\ f.plat = host

Init ==
  /\ host \in Hosts
  /\ latest \in Releases
  /\ \E r \in Releases : exe = [rel |-> r, plat |-> host, whole |-> TRUE, exec |-> TRUE]
  /\ bak = None
  /\ dl = None
  /\ bin = None
  /\ pc = "idle"
  /\ run = [from |-> exe.rel, rel |-> latest, assets |-> {}, asset |-> host,
            outcome |-> "none", faults |-> 0]

-----------------------------------------------------------------------------
(* Archives.                                                                 *)

Windows(p) == p.os = "windows"
OSPatterns(os) == CASE os = "darwin" -> {"darwin", "macos", "mac", "osx"}
                    [] os = "windows" -> {"windows", "win64", "win32", "win"}
                    [] OTHER -> {os}
ArchPatterns(arch) == CASE arch = "amd64" -> {"amd64", "x86_64", "x64"}
                        [] arch = "arm64" -> {"arm64", "aarch64"}
                        [] OTHER -> {arch}

\* strings.Contains, of the words an archive's name is made of.
Contains(word, p) == word = p \/ (word \in {"windows", "darwin"} /\ p = "win")
MatchesAny(word, patterns) == \E p \in patterns : Contains(word, p)

\* Wrong: any archive for the operating system.
MatchesSystem(a, h) ==
  /\ Windows(a) <=> Windows(h)
  /\ MatchesAny(a.os, OSPatterns(h.os))

\* An archive is a .zip exactly if it is for Windows.
Matches(a, h) ==
  /\ Windows(a) <=> Windows(h)
  /\ MatchesAny(a.os, OSPatterns(h.os))
  /\ MatchesAny(a.arch, ArchPatterns(h.arch))

-----------------------------------------------------------------------------
(* A run.                                                                    *)

Step(here, there) == pc = here /\ pc' = there
Fails == run' = [run EXCEPT !.outcome = "error", !.faults = @ + 1]

\* Wrong: goes on with what the last run found.
StartAsLeft ==
  /\ Runnable(exe)
  /\ Step("idle", "fetch")
  /\ run' = [run EXCEPT !.from = exe.rel]
  /\ dl' = None /\ bin' = None
  /\ UNCHANGED <<host, latest, places>>

Start ==
  /\ Runnable(exe)
  /\ Step("idle", "fetch")
  /\ run' = [run EXCEPT !.from = exe.rel, !.outcome = "none", !.faults = 0]
  /\ dl' = None /\ bin' = None
  /\ UNCHANGED <<host, latest, places>>

\* Archives of a release that was just published may be missing.  The version
\* comes from the source, which a release may have forgotten to raise.
FetchLatestRelease ==
  /\ IF Says[run.from] = latest
     THEN Step("fetch", "idle") /\ run' = [run EXCEPT !.outcome = "current"]
     ELSE /\ Step("fetch", "select")
          /\ \E assets \in SUBSET Built : run' = [run EXCEPT !.rel = latest, !.assets = assets]
  /\ UNCHANGED <<host, latest, places, temps>>

FetchFails ==
  /\ Step("fetch", "idle")
  /\ Fails
  /\ UNCHANGED <<host, latest, places, temps>>

\* The first that matches, in whatever order the release lists them.
SelectAsset ==
  /\ \/ /\ Step("select", "temp")
        /\ \E a \in run.assets : Matches(a, host) /\ run' = [run EXCEPT !.asset = a]
     \/ /\ Step("select", "idle")
        /\ ~\E a \in run.assets : Matches(a, host)
        /\ Fails
  /\ UNCHANGED <<host, latest, places, temps>>

\* A temporary file has mode 0600.
Incomplete == [rel |-> run.rel, plat |-> run.asset, whole |-> FALSE, exec |-> FALSE]
Complete == [Incomplete EXCEPT !.whole = TRUE]

CreateTemp ==
  /\ Step("temp", "download")
  /\ dl' = Incomplete
  /\ UNCHANGED <<host, latest, places, bin, run>>

CreateTempFails ==
  /\ Step("temp", "idle")
  /\ Fails
  /\ UNCHANGED <<host, latest, places, temps>>

Download ==
  /\ Step("download", "extract")
  /\ dl' = Complete
  /\ UNCHANGED <<host, latest, places, bin, run>>

DownloadFails ==
  /\ Step("download", "return")
  /\ Fails
  /\ UNCHANGED <<host, latest, places, temps>>

\* The archive has a binary of the name that is looked for here.
OpenArchive ==
  /\ Step("extract", "unpack")
  /\ Windows(run.asset) <=> Windows(host)
  /\ bin' = Incomplete
  /\ UNCHANGED <<host, latest, places, dl, run>>

OpenFails ==
  /\ Step("extract", "return")
  /\ Fails
  /\ UNCHANGED <<host, latest, places, temps>>

Unpack ==
  /\ Step("unpack", "backup")
  /\ bin' = Complete
  /\ UNCHANGED <<host, latest, places, dl, run>>

\* Wrong: leaves the removal to the caller, who is told of no file.
UnpackFailsLeaving ==
  /\ Step("unpack", "return")
  /\ Fails
  /\ UNCHANGED <<host, latest, places, temps>>

UnpackFails ==
  /\ Step("unpack", "return")
  /\ bin' = None
  /\ Fails
  /\ UNCHANGED <<host, latest, places, dl>>

Backup ==
  /\ Step("backup", "create")
  /\ bak' = exe
  /\ exe' = None
  /\ UNCHANGED <<host, latest, temps, run>>

BackupFails ==
  /\ Step("backup", "return")
  /\ Fails
  /\ UNCHANGED <<host, latest, places, temps>>

\* copyFile.  A file that os.Create makes is not executable.
Create ==
  /\ Step("create", "copy")
  /\ exe' = [bin EXCEPT !.whole = FALSE]
  /\ UNCHANGED <<host, latest, bak, temps, run>>

Copy ==
  /\ Step("copy", "chmod")
  /\ exe' = bin
  /\ UNCHANGED <<host, latest, bak, temps, run>>

\* Wrong: reports the error only.
CopyFailsAsIs ==
  /\ Step("create", "return") \/ Step("copy", "return")
  /\ Fails
  /\ UNCHANGED <<host, latest, places, temps>>

CopyFails ==
  /\ Step("create", "rollback") \/ Step("copy", "rollback")
  /\ Fails
  /\ UNCHANGED <<host, latest, places, temps>>

Chmod ==
  /\ Step("chmod", "discard")
  /\ exe' = [exe EXCEPT !.exec = TRUE]
  /\ UNCHANGED <<host, latest, bak, temps, run>>

\* Wrong: goes on as if the file were executable.
ChmodFailsUnnoticed ==
  /\ Step("chmod", "discard")
  /\ UNCHANGED <<host, latest, places, temps, run>>

ChmodFails ==
  /\ Step("chmod", "rollback")
  /\ Fails
  /\ UNCHANGED <<host, latest, places, temps>>

\* The old binary takes its place again; nobody looks whether it does.
Rollback ==
  /\ Step("rollback", "return")
  /\ exe' = bak
  /\ bak' = None
  /\ UNCHANGED <<host, latest, temps, run>>

RollbackFails ==
  /\ Step("rollback", "return")
  /\ run' = [run EXCEPT !.faults = @ + 1]
  /\ UNCHANGED <<host, latest, places, temps>>

\* The backup may stay: Windows does not remove the file of a running program.
RemoveBackup ==
  /\ Step("discard", "return")
  /\ bak' \in {None, bak}
  /\ run' = [run EXCEPT !.outcome = "updated"]
  /\ UNCHANGED <<host, latest, exe, temps>>

\* The deferred removals, that of the binary only if it was extracted; the
\* caller prints the outcome.
Return ==
  /\ Step("return", "idle")
  /\ dl' = None
  /\ bin' = IF bin # None /\ bin.whole THEN None ELSE bin
  /\ UNCHANGED <<host, latest, places, run>>

-----------------------------------------------------------------------------
(* What goes on around it.                                                   *)

Publish ==
  /\ latest' \in {r \in Releases : r > latest}
  /\ UNCHANGED <<host, exe, bak, dl, bin, pc, run>>

\* The process is killed, or the machine goes down.
Killed ==
  /\ pc # "idle"
  /\ pc' = "idle"
  /\ run' = [run EXCEPT !.outcome = "killed"]
  /\ UNCHANGED <<host, latest, places, temps>>

\* Whoever finds no binary that runs puts the backup back.
Restore ==
  /\ pc = "idle"
  /\ ~Runnable(exe)
  /\ Runnable(bak)
  /\ exe' = bak
  /\ bak' = None
  /\ UNCHANGED <<host, latest, temps, pc, run>>

Next ==
  \/ Start
  \/ FetchLatestRelease \/ FetchFails \/ SelectAsset
  \/ CreateTemp \/ CreateTempFails \/ Download \/ DownloadFails
  \/ OpenArchive \/ OpenFails \/ Unpack \/ UnpackFails
  \/ Backup \/ BackupFails \/ Create \/ Copy \/ CopyFails
  \/ Chmod \/ ChmodFails \/ Rollback \/ RollbackFails \/ RemoveBackup \/ Return
  \/ Publish \/ Killed \/ Restore

Spec == Init /\ [][Next]_vars

-----------------------------------------------------------------------------
(* Properties.                                                               *)

\* A binary that runs on this platform is in place or beside it, whole, at
\* every moment: whatever call fails and wherever the process is killed.
NeverWithoutBinary == Runnable(exe) \/ Runnable(bak)

\* When an update reports an error and no more than one call failed, the
\* binary it started from is in place and runs.
ErrorKeepsOld ==
  (run.outcome = "error" /\ run.faults <= 1 /\ pc = "idle")
  => Runnable(exe) /\ exe.rel = run.from

\* When an update reports success, the binary of the release it announced is
\* in place, whole, executable and for this platform.
UpdatedRuns ==
  (run.outcome = "updated" /\ pc = "idle") => Runnable(exe) /\ exe.rel = run.rel

\* An update that was not killed leaves no temporary file behind.
CleansUp == (run.outcome # "killed" /\ pc = "idle") => dl = None /\ bin = None
=============================================================================
