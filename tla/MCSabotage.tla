----------------------------- MODULE MCSabotage -----------------------------
(***************************************************************************)
(* A small VS room for the sabotage: the two drawers and the GameMaster    *)
(* are connected, the guessers are not.                                    *)
(***************************************************************************)
EXTENDS Sabotage

CONSTANTS gm, dA, dB, gA, gB

MCDrawers == [t \in Team |-> IF t = "A" THEN {dA} ELSE {dB}]
MCGuessers == [t \in Team |-> IF t = "A" THEN {gA} ELSE {gB}]
MCOnline == {gm, dA, dB}
=============================================================================
