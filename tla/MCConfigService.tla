-------------------------- MODULE MCConfigService --------------------------
(* The instance of ConfigService that TLC checks.                          *)
EXTENDS ConfigService

CONSTANTS d, t, main, old, rule

TheDatasources == {d}
TheTools    == {t}
TheFiles    == <<d, main, t>>
TwoRequests == 1 .. 2
TheEdits    == {old}
TheRules    == {rule}
NoVersion   == [defs |-> [n \in {d, t} |-> None], rules |-> {}]
OneVersion  == [defs |-> [n \in {d, t} |-> old], rules |-> {rule}]
TwoVersions == {NoVersion, OneVersion}
=============================================================================
