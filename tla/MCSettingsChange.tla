--------------------------- MODULE MCSettingsChange ---------------------------
(* Instances of SettingsChange for TLC.                                     *)
EXTENDS SettingsChange

CONSTANT p

FirstProvider == [x \in Sessions |-> p]

Targets == {{"appSettings"}, {"sessions", "appSettings"},
            {"sessions", "appSettings", "projectMemory"}}
=============================================================================
