----------------------------- MODULE UpdateProofs -----------------------------
(***************************************************************************)
(* An update keeps a binary that runs, reports what it did and cleans up,  *)
(* for any releases and platforms.                                         *)
(*                                                                         *)
(* The invariant says where the old binary is and what has failed by then, *)
(* step by step: in place until the backup, beside it until the new one is *)
(* executable.                                                             *)
(***************************************************************************)
EXTENDS Update, TLAPS

Before == {"fetch", "select", "temp", "download", "extract", "unpack", "backup"}
Installing == {"create", "copy", "chmod", "rollback"}

\* Where the old binary is.
Kept ==
  /\ pc \in Before => Runnable(exe) /\ exe.rel = run.from
  /\ pc \in Installing => Runnable(bak) /\ bak.rel = run.from
  /\ pc \in {"return", "idle"} => NeverWithoutBinary

\* What the temporary files hold.
Extracted ==
  /\ pc \in {"download", "extract", "unpack", "backup", "create", "copy", "chmod", "discard"}
     => run.asset \in Built /\ Matches(run.asset, host)
  /\ pc = "extract" => dl = Complete
  /\ pc \in {"backup", "discard"} \cup Installing => bin = Complete
  /\ pc = "temp" => run.asset \in Built /\ Matches(run.asset, host)
  /\ pc \in {"fetch", "select", "temp"} => dl = None
  /\ pc \in {"fetch", "select", "temp", "download", "extract"} => bin = None
  /\ pc = "return" => bin = None \/ bin.whole

\* What the new binary is on its way.
Installed ==
  /\ pc = "chmod" => exe = Complete
  /\ pc = "discard" => Runnable(exe) /\ exe.rel = run.rel

\* What has failed so far.
Reported ==
  /\ pc \in Before \cup {"create", "copy", "chmod", "discard"} => run.outcome = "none" /\ run.faults = 0
  /\ pc = "rollback" => run.outcome = "error" /\ run.faults = 1
  /\ pc = "return" => run.outcome \in {"error", "updated"}
  /\ pc \in {"return", "idle"} =>
       /\ (run.outcome = "error" /\ run.faults <= 1) => Runnable(exe) /\ exe.rel = run.from
       /\ run.outcome = "updated" => Runnable(exe) /\ exe.rel = run.rel

IInv == TypeOK /\ Kept /\ Extracted /\ Installed /\ Reported /\ CleansUp

\* Only the archive of this very platform matches.
LEMMA MatchesOwn ==
  ASSUME NEW a \in Platforms, NEW h \in Platforms, Matches(a, h)
  PROVE  a = h
<1>1. a.os = h.os
  BY DEF Platforms, Matches, Windows, MatchesAny, Contains, OSPatterns
<1>2. a.arch = h.arch
  BY DEF Platforms, Matches, MatchesAny, Contains, ArchPatterns
<1> QED BY <1>1, <1>2 DEF Platforms

\* What a failing call leaves of the run's record.
LEMMA FailsFields ==
  ASSUME TypeOK, Fails, run.faults = 0
  PROVE  /\ run'.from = run.from /\ run'.rel = run.rel /\ run'.assets = run.assets
         /\ run'.asset = run.asset /\ run'.outcome = "error" /\ run'.faults = 1
         /\ run' \in Run
<1> DEFINE new == [run EXCEPT !.outcome = "error", !.faults = @ + 1]
<1>1. /\ new.from = run.from /\ new.rel = run.rel /\ new.assets = run.assets
      /\ new.asset = run.asset /\ new.outcome = "error" /\ new.faults = run.faults + 1
  BY DEF TypeOK, Run
<1>2. new \in Run
  <2> DEFINE told == [run EXCEPT !.outcome = "error"]
  <2>1. told \in Run
    BY DEF TypeOK, Run
  <2>2. new = [told EXCEPT !.faults = run.faults + 1]
    BY DEF TypeOK, Run
  <2>3. run.faults + 1 \in 0 .. 2
    OBVIOUS
  <2> HIDE DEF told, new
  <2> QED BY <2>1, <2>2, <2>3 DEF Run
<1>3. run' = new
  BY DEF Fails
<1> HIDE DEF new
<1> QED BY <1>1, <1>2, <1>3

\* The invariant holds at the start.
LEMMA InitIInv == Init => IInv
<1> SUFFICES ASSUME Init PROVE IInv
  OBVIOUS
<1>1. PICK r \in Releases : exe = [rel |-> r, plat |-> host, whole |-> TRUE, exec |-> TRUE]
  BY DEF Init
<1>2. exe \in File
  BY <1>1, PlatformsAssumption DEF Init, File
<1>5. Runnable(exe)
  BY <1>1, <1>2, NoneAssumption DEF Runnable
<1>3. TypeOK
  BY <1>1, <1>2, PlatformsAssumption DEF Init, TypeOK, Steps, Run
<1>4. run.outcome = "none"
  BY DEF Init
<1> QED
  BY <1>2, <1>3, <1>4, <1>5 DEF Init, IInv, Kept, Extracted, Installed, Reported, CleansUp, Before,
     Installing, NeverWithoutBinary

\* Every step preserves it.
LEMMA NextIInv == IInv /\ [Next]_vars => IInv'
<1> SUFFICES ASSUME IInv, [Next]_vars PROVE IInv'
  OBVIOUS
<1> USE ReleasesAssumption, PlatformsAssumption, NoneAssumption
    DEF IInv, TypeOK, Kept, Extracted, Installed, Reported, CleansUp, Before, Installing,
        File, Run, Steps, Runnable, NeverWithoutBinary, Step, vars, places, temps,
        Incomplete, Complete
<1>1. CASE Start
  <2> DEFINE new == [run EXCEPT !.from = exe.rel, !.outcome = "none", !.faults = 0]
  <2>3. exe \in File
    BY <1>1 DEF Start
  <2>4. exe.rel \in Releases
    BY <2>3
  <2>1. /\ new.from = exe.rel /\ new.outcome = "none" /\ new.faults = 0
        /\ new \in Run
    <3> DEFINE cleared == [run EXCEPT !.outcome = "none", !.faults = 0]
    <3>1. cleared \in Run
      <4> DEFINE told == [run EXCEPT !.outcome = "none"]
      <4>1. told \in Run
        OBVIOUS
      <4>2. cleared = [told EXCEPT !.faults = 0]
        OBVIOUS
      <4> HIDE DEF told, cleared
      <4> QED BY <4>1, <4>2
    <3>2. new = [cleared EXCEPT !.from = exe.rel]
      OBVIOUS
    <3>3. cleared.outcome = "none" /\ cleared.faults = 0
      OBVIOUS
    <3> HIDE DEF cleared, new
    <3> QED BY <2>4, <3>1, <3>2, <3>3
  <2>2. run' = new
    BY <1>1 DEF Start
  <2> HIDE DEF new
  <2> QED BY <1>1, <2>1, <2>2 DEF Start
<1>2. CASE FetchLatestRelease
  <2>1. CASE Says[run.from] = latest
    BY <1>2, <2>1 DEF FetchLatestRelease
  <2>2. CASE Says[run.from] # latest
    BY <1>2, <2>2 DEF FetchLatestRelease
  <2> QED BY <2>1, <2>2
<1>3. CASE FetchFails
  <2>1. Fails /\ run.faults = 0
    BY <1>3 DEF FetchFails
  <2> QED BY <1>3, <2>1, FailsFields DEF FetchFails
<1>4. CASE SelectAsset
  <2>1. CASE ~\E a \in run.assets : Matches(a, host)
    BY <1>4, <2>1, FailsFields DEF SelectAsset
  <2>2. ASSUME NEW a \in run.assets, Matches(a, host), run' = [run EXCEPT !.asset = a],
               Step("select", "temp")
        PROVE  IInv'
    <3> DEFINE new == [run EXCEPT !.asset = a]
    <3>1. /\ new.from = run.from /\ new.rel = run.rel /\ new.asset = a
          /\ new.outcome = run.outcome /\ new.faults = run.faults
          /\ new \in Run
      OBVIOUS
    <3>2. run' = new
      BY <2>2
    <3> HIDE DEF new
    <3> QED BY <1>4, <2>2, <3>1, <3>2 DEF SelectAsset
  <2> QED BY <1>4, <2>1, <2>2 DEF SelectAsset
<1>5. CASE CreateTemp BY <1>5 DEF CreateTemp
<1>6. CASE CreateTempFails
  <2>1. Fails /\ run.faults = 0
    BY <1>6 DEF CreateTempFails
  <2> QED BY <1>6, <2>1, FailsFields DEF CreateTempFails
<1>7. CASE Download BY <1>7 DEF Download
<1>8. CASE DownloadFails
  <2>1. Fails /\ run.faults = 0
    BY <1>8 DEF DownloadFails
  <2> QED BY <1>8, <2>1, FailsFields DEF DownloadFails
<1>9. CASE OpenArchive BY <1>9 DEF OpenArchive
<1>10. CASE OpenFails
  <2>1. Fails /\ run.faults = 0
    BY <1>10 DEF OpenFails
  <2> QED BY <1>10, <2>1, FailsFields DEF OpenFails
<1>11. CASE Unpack BY <1>11 DEF Unpack
<1>12. CASE UnpackFails
  <2>1. Fails /\ run.faults = 0
    BY <1>12 DEF UnpackFails
  <2> QED BY <1>12, <2>1, FailsFields DEF UnpackFails
<1>13. CASE Backup BY <1>13 DEF Backup
<1>14. CASE BackupFails
  <2>1. Fails /\ run.faults = 0
    BY <1>14 DEF BackupFails
  <2> QED BY <1>14, <2>1, FailsFields DEF BackupFails
<1>15. CASE Create BY <1>15 DEF Create
<1>16. CASE Copy BY <1>16 DEF Copy
<1>17. CASE CopyFails
  <2>1. Fails /\ run.faults = 0
    BY <1>17 DEF CopyFails
  <2>2. TypeOK' /\ Kept' /\ Extracted'
    BY <1>17, <2>1, FailsFields DEF CopyFails
  <2>3. Installed' /\ Reported' /\ CleansUp'
    BY <1>17, <2>1, FailsFields DEF CopyFails
  <2> QED BY <2>2, <2>3
<1>18. CASE Chmod
  <2>1. run.asset = host
    BY <1>18, MatchesOwn DEF Chmod
  <2>2. TypeOK' /\ Kept' /\ Extracted'
    BY <1>18, <2>1 DEF Chmod
  <2>3. Installed'
    BY <1>18, <2>1 DEF Chmod
  <2>4. Reported'
    BY <1>18, <2>1 DEF Chmod
  <2>5. CleansUp'
    BY <1>18 DEF Chmod
  <2> QED BY <2>2, <2>3, <2>4, <2>5
<1>19. CASE ChmodFails
  <2>1. Fails /\ run.faults = 0
    BY <1>19 DEF ChmodFails
  <2>2. TypeOK' /\ Kept' /\ Extracted'
    BY <1>19, <2>1, FailsFields DEF ChmodFails
  <2>3. Installed' /\ Reported' /\ CleansUp'
    BY <1>19, <2>1, FailsFields DEF ChmodFails
  <2> QED BY <2>2, <2>3
<1>20. CASE Rollback
  <2>5. TypeOK'
    BY <1>20 DEF Rollback
  <2>6. Kept'
    BY <1>20 DEF Rollback
  <2>7. Extracted'
    BY <1>20 DEF Rollback
  <2>8. Installed'
    BY <1>20 DEF Rollback
  <2>9. Reported'
    BY <1>20 DEF Rollback
  <2>10. CleansUp'
    BY <1>20 DEF Rollback
  <2> QED BY <2>5, <2>6, <2>7, <2>8, <2>9, <2>10
<1>21. CASE RollbackFails
  <2> DEFINE new == [run EXCEPT !.faults = @ + 1]
  <2>1. /\ new.outcome = "error" /\ new.faults = 2
        /\ new \in Run
    BY <1>21 DEF RollbackFails
  <2>2. run' = new
    BY <1>21 DEF RollbackFails
  <2> HIDE DEF new
  <2>5. TypeOK'
    BY <1>21, <2>1, <2>2 DEF RollbackFails
  <2>6. Kept'
    BY <1>21, <2>1, <2>2 DEF RollbackFails
  <2>7. Extracted'
    BY <1>21, <2>1, <2>2 DEF RollbackFails
  <2>8. Installed'
    BY <1>21, <2>1, <2>2 DEF RollbackFails
  <2>9. Reported'
    BY <1>21, <2>1, <2>2 DEF RollbackFails
  <2>10. CleansUp'
    BY <1>21, <2>1, <2>2 DEF RollbackFails
  <2> QED BY <2>5, <2>6, <2>7, <2>8, <2>9, <2>10
<1>22. CASE RemoveBackup
  <2> DEFINE new == [run EXCEPT !.outcome = "updated"]
  <2>1. /\ new.rel = run.rel /\ new.outcome = "updated"
        /\ new \in Run
    OBVIOUS
  <2>2. run' = new
    BY <1>22 DEF RemoveBackup
  <2> HIDE DEF new
  <2>5. TypeOK'
    BY <1>22, <2>1, <2>2 DEF RemoveBackup
  <2>6. Kept'
    BY <1>22, <2>1, <2>2 DEF RemoveBackup
  <2>7. Extracted'
    BY <1>22, <2>1, <2>2 DEF RemoveBackup
  <2>8. Installed'
    BY <1>22, <2>1, <2>2 DEF RemoveBackup
  <2>9. Reported'
    BY <1>22, <2>1, <2>2 DEF RemoveBackup
  <2>10. CleansUp'
    BY <1>22, <2>1, <2>2 DEF RemoveBackup
  <2> QED BY <2>5, <2>6, <2>7, <2>8, <2>9, <2>10
<1>23. CASE Return BY <1>23 DEF Return
<1>24. CASE Publish
  <2>5. TypeOK'
    BY <1>24 DEF Publish
  <2>6. Kept'
    BY <1>24 DEF Publish
  <2>7. Extracted'
    BY <1>24 DEF Publish
  <2>8. Installed'
    BY <1>24 DEF Publish
  <2>9. Reported'
    BY <1>24 DEF Publish
  <2>10. CleansUp'
    BY <1>24 DEF Publish
  <2> QED BY <2>5, <2>6, <2>7, <2>8, <2>9, <2>10
<1>25. CASE Killed BY <1>25 DEF Killed
<1>26. CASE Restore BY <1>26 DEF Restore
<1>27. CASE UNCHANGED vars
  <2>1. /\ host' = host /\ latest' = latest /\ exe' = exe /\ bak' = bak
        /\ dl' = dl /\ bin' = bin /\ pc' = pc /\ run' = run
    BY <1>27
  <2>5. TypeOK'
    BY <2>1
  <2>6. Kept'
    BY <2>1
  <2>7. Extracted'
    BY <2>1
  <2>8. Installed'
    BY <2>1
  <2>9. Reported'
    BY <2>1
  <2>10. CleansUp'
    BY <2>1
  <2> QED BY <2>5, <2>6, <2>7, <2>8, <2>9, <2>10
<1> QED
  BY <1>1, <1>2, <1>3, <1>4, <1>5, <1>6, <1>7, <1>8, <1>9, <1>10, <1>11, <1>12, <1>13, <1>14,
     <1>15, <1>16, <1>17, <1>18, <1>19, <1>20, <1>21, <1>22, <1>23, <1>24, <1>25, <1>26, <1>27
     DEF Next

\* The invariant holds throughout.
LEMMA SpecIInv == Spec => []IInv
BY InitIInv, NextIInv, PTL DEF Spec

\* An update's files and its record of the run stay what they are taken for.
THEOREM UpdateTypeOK == Spec => []TypeOK
<1>1. IInv => TypeOK
  BY DEF IInv
<1> QED BY <1>1, SpecIInv, PTL

\* A binary that runs on this platform is in place or beside it at every
\* moment, whatever call fails and wherever the process is killed.
THEOREM AlwaysABinary == Spec => []NeverWithoutBinary
<1>1. IInv => NeverWithoutBinary
  BY DEF IInv, TypeOK, Steps, Kept, Before, Installing, Installed, NeverWithoutBinary
<1> QED BY <1>1, SpecIInv, PTL

\* With an error and one failed call the old binary is in place.
THEOREM ErrorsKeepOld == Spec => []ErrorKeepsOld
<1>1. IInv => ErrorKeepsOld
  BY DEF IInv, Reported, ErrorKeepsOld
<1> QED BY <1>1, SpecIInv, PTL

\* With success the announced release is in place and runs.
THEOREM SuccessRuns == Spec => []UpdatedRuns
<1>1. IInv => UpdatedRuns
  BY DEF IInv, Reported, UpdatedRuns
<1> QED BY <1>1, SpecIInv, PTL

\* No temporary file is left by an update that was not killed.
THEOREM AlwaysCleansUp == Spec => []CleansUp
<1>1. IInv => CleansUp
  BY DEF IInv
<1> QED BY <1>1, SpecIInv, PTL
=============================================================================
