------------------------------ MODULE MCPlayers ------------------------------
(***************************************************************************)
(* The GameMaster and two more sockets, which may take over each other's   *)
(* pid and the GameMaster's.                                               *)
(***************************************************************************)
EXTENDS Players

CONSTANTS gm, s1, s2

MCSockets == {gm, s1, s2}
=============================================================================
