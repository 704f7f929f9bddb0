----------------------------- MODULE GameResult -----------------------------
(***************************************************************************)
(* What a game promises about its result, in either mode, whoever runs the *)
(* phases and however the handlers interleave: the players of one side that*)
(* has guessed the word get a point each, at most one; or, when the game   *)
(* has run out, the GameMaster does; and a game that is over stays over.   *)
(*                                                                         *)
(* A side is a team of a VS game, and a guesser with the drawer in a       *)
(* SINGLE game.  VSGame and SingleGame are shown to implement this module. *)
(***************************************************************************)
EXTENDS Naturals

CONSTANTS
  Player,    \* everybody who can get a point
  GM,        \* the GameMaster
  Side,      \* those who can win the game
  MembersOf  \* MembersOf[s]: the players of side s

VARIABLES
  points,  \* points of each player record
  right,   \* the sides that have a correct guess on record
  lost,    \* the game has run out: of rounds, or of time
  over,    \* the room is in GAME_END
  torn     \* the server stopped while the game was being ended

vars == <<points, right, lost, over, torn>>

Paid == {p \in Player : points[p] > 0}

\* p, one of the winners W, gets a point: the first one, and only winners have
\* got one so far, unless a crash came between.
Pay(p, W) ==
  /\ points[p] = 0 \/ torn
  /\ Paid \subseteq W \/ torn
  /\ points' = [points EXCEPT ![p] = @ + 1]
  /\ UNCHANGED <<right, lost, over, torn>>

\* The players of a side that was right are paid one after the other.
PaySide(s) == s \in right /\ \E p \in MembersOf[s] : Pay(p, MembersOf[s])

PayGM == lost /\ Pay(GM, {GM})

GuessedRight(s) ==
  /\ right' = right \cup {s}
  /\ UNCHANGED <<points, lost, over, torn>>

RunOut ==
  /\ lost' = TRUE
  /\ UNCHANGED <<points, right, over, torn>>

\* Whether it was scored or not: the GameMaster may end a game at any time,
\* also while the points are being given.
Close ==
  /\ over' = TRUE
  /\ UNCHANGED <<points, right, lost, torn>>

\* The server stops between the first and the last write of the end.
Tear ==
  /\ ~over
  /\ torn' = TRUE
  /\ UNCHANGED <<points, right, lost, over>>

\* A game of one round starts in its last one.
Init ==
  /\ points = [p \in Player |-> 0]
  /\ right = {}
  /\ lost \in BOOLEAN
  /\ over = FALSE
  /\ torn = FALSE

Next ==
  \/ \E s \in Side : PaySide(s) \/ GuessedRight(s)
  \/ PayGM \/ RunOut \/ Close \/ Tear

Spec == Init /\ [][Next]_vars
=============================================================================
