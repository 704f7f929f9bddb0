------------------------------ MODULE MCVSGame ------------------------------
(***************************************************************************)
(* A small VS room for TLC: a GameMaster, a drawer for each team, two      *)
(* guessers for team A and one for team B, as validate_vs_start_conditions *)
(* wants it.  Each run says who is still connected.                        *)
(***************************************************************************)
EXTENDS VSGame

CONSTANTS gm, dA, dB, gA, gA2, gB

MCDrawers == [t \in Team |-> IF t = "A" THEN {dA} ELSE {dB}]
MCGuessers == [t \in Team |-> IF t = "A" THEN {gA, gA2} ELSE {gB}]

OnlineAll == {gm, dA, dB, gA, gA2, gB}
OnlineGuess == {gm, gA, gB}
OnlinePaid == {gm, gA, gA2, gB}
OnlineDraw == {dA, dB, gA}
OnlineTeam == {gA, gA2}
OnlinePair == {dA, gA}
=============================================================================
