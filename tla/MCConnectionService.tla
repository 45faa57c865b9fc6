------------------------- MODULE MCConnectionService -------------------------
(* The instances of ConnectionService that TLC checks.                     *)
EXTENDS ConnectionService, TLC

CONSTANTS a, b, p1, p2

TheLetters     == {a, b, Colon}
A              == <<a>>
B              == <<b>>
TheDatasources == {A, B}
OneDatasource  == {A}
ServedB        == {B}
NoNonSQL       == {}
TheDatabases   == {A}
ThePairs       == {<<A, A>>, <<B, A>>}
OnePair        == {<<A, A>>}
TheDefaults    == [d \in Datasources |-> <<d, A>>]
TwoProcs       == {p1, p2}
OneProc        == {p1}

\* Databases "a" and "b::a", the second of one datasource only.
BA               == B \o Joint \o A
TwoDatabases     == {A, BA}
MorePairs        == ThePairs \union {<<A, BA>>}

ProcSymmetry == Permutations(Procs)
=============================================================================
