---------------------------- MODULE MCCycleTrigger ----------------------------
(* Loops over the close of the regular session in Seoul and the opening of    *)
(* the one after it.                                                          *)
EXTENDS CycleTrigger

CONSTANTS admin, member

Both == {admin, member}
OnlyAdmin == {admin}
Seoul == {"KR"}
PossibleWeekends == {{}, {"KR"}}
=============================================================================
