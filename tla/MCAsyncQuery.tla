---------------------------- MODULE MCAsyncQuery ----------------------------
(* The instances of AsyncQuery that TLC checks.                            *)
EXTENDS AsyncQuery, TLC

CONSTANTS q1, q2, c1, c2

\* One plain query and one tool; the two ids are not interchangeable.
TwoQueries == {q1, q2}
OneTool    == {q2}
NoTool     == {}
JustQ1     == {q1}
TwoClients == {c1, c2}
OneClient  == {c1}
=============================================================================
