------------------------------- MODULE MCUpdate -------------------------------
(* The instance of Update that TLC checks.                                 *)
EXTENDS Update

On(os, arch) == [os |-> os, arch |-> arch]
ThreeReleases == 1 .. 3
\* The second release forgot to raise its version.
TheVersions  == [r \in 1 .. 3 |-> IF r = 2 THEN 1 ELSE r]
TheArchives  == {On("linux", "amd64"), On("linux", "arm64"), On("darwin", "amd64"),
                 On("darwin", "arm64"), On("windows", "amd64")}
TheHosts     == {On("linux", "amd64"), On("darwin", "arm64"), On("windows", "amd64"),
                 On("freebsd", "amd64")}
=============================================================================
