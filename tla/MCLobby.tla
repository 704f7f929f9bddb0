------------------------------ MODULE MCLobby ------------------------------
(***************************************************************************)
(* A room for TLC with four players, of whom three are enough for a VS     *)
(* game and two for a SINGLE one: the code asks for five and three, and    *)
(* what matters is that a player may be missing, or one team be larger.    *)
(* Players differ in nothing but what the role pick makes of them.         *)
(***************************************************************************)
EXTENDS Lobby, TLC

MCMinPlayers == [m \in Mode |-> IF m = "VS" THEN 3 ELSE 2]
Players == Permutations(Pid)
=============================================================================
