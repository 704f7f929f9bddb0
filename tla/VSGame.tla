------------------------------- MODULE VSGame -------------------------------
(***************************************************************************)
(* One game of a VS room, from the moment handle_vs_start_game has put the *)
(* room IN_GAME until it is in GAME_END: the strokes and the guesses of    *)
(* the players, the ticks (heartbeat, snapshot, phase_tick) that run the   *)
(* windows, the transition screens between them, the scoring in            *)
(* end_vs_game and the GameMaster's end_game.                              *)
(*                                                                         *)
(* Every connection is one coroutine that handles its messages in order.   *)
(* The handlers of different connections interleave at every Redis         *)
(* command, so a handler is a sequence of actions here, one for each       *)
(* command that reads or writes what another handler writes.  What it has  *)
(* read is kept in its record req[p] until it is used.                     *)
(*                                                                         *)
(* A handler takes its time stamp ts once, when it starts.  age[p] is how  *)
(* far the clock has moved since: the handler sees a deadline that is d    *)
(* seconds away as d + age[p] seconds away.                                *)
(***************************************************************************)
EXTENDS Integers, FiniteSets

CONSTANTS
  GM,             \* pid of the GameMaster, header.gm_pid
  Drawers,        \* Drawers[t]: the pids whose role is drawer of team t
  Guessers,       \* Guessers[t]: the pids whose role is guesser of team t
  Online,         \* the players whose clients are connected during the game
  Nobody,         \* the end lock is free
  MaxRounds,      \* round_config.max_rounds
  StrokeLimit,    \* round_config.strokes_per_phase
  DrawSec,        \* round_config.draw_window_sec
  GuessSec,       \* round_config.guess_window_sec
  TransitionSec,  \* TRANSITION_SEC
  MaxDelay,       \* bound on the seconds a handler is under way
  MaxInFlight     \* bound on the requests being handled at one time

Team == {"A", "B"}
Members(t) == Drawers[t] \cup Guessers[t]
Player == {GM} \cup Members("A") \cup Members("B")

ASSUME RolesAssumption ==
  /\ Drawers \in [Team -> SUBSET Player]
  /\ Guessers \in [Team -> SUBSET Player]
  /\ \A t \in Team : GM \notin Members(t)
  /\ Members("A") \cap Members("B") = {}
  /\ Online \subseteq Player
  /\ Nobody \notin Player

ASSUME ConfigAssumption ==
  /\ MaxRounds \in Nat \ {0}
  /\ StrokeLimit \in Nat \ {0}
  /\ DrawSec \in Nat
  /\ GuessSec \in Nat
  /\ TransitionSec \in Nat
  /\ MaxDelay \in Nat
  /\ MaxInFlight \in Nat

VARIABLES
  room,    \* the room header: state and round_no
  game,    \* the game hash: phase, its deadline, transition_*, team guesses
  budget,  \* the budget hash: strokes left to each team
  points,  \* points of each player record
  lock,    \* holder of the room's lock in _ROOM_VS_END_LOCKS
  req,     \* req[p]: where the handler of connection p is and what it read
  age,     \* age[p]: seconds since that handler took its time stamp
  hits,    \* history: teams with a guess recorded as CORRECT
  used,    \* history: strokes each team drew in the round of the game hash
  top      \* history: highest round_no the header has shown

vars == <<room, game, budget, points, lock, req, age, hits, used, top>>

(***************************************************************************)
(* Values.  A transition is the set of transition_* fields of the game     *)
(* hash.  The three deadlines draw_end_at, guess_end_at, transition_until  *)
(* are one field, left: the seconds the deadline of the current phase is   *)
(* still away.  team_guessed and team_guess_result are one field, guess:   *)
(* the code always writes the two together.                                *)
(***************************************************************************)
Result == {"none", "WRONG", "CORRECT", "NO_GUESS"}
Guesses == [Team -> Result]
NoGuesses == [t \in Team |-> "none"]

Transition ==
  {tr \in [next   : {"none", "GUESS", "DRAW", "GAME_END"},
           round  : 0..MaxRounds,
           reason : {"none", "CORRECT", "NO_WINNER"},
           winner : Team \cup {"none"}] : tr.next = "DRAW" => tr.round >= 1}
To(next, round, reason, winner) ==
  [next |-> next, round |-> round, reason |-> reason, winner |-> winner]
NoTransition == To("none", 0, "none", "none")
ToGuess == To("GUESS", 0, "none", "none")

Full == [t \in Team |-> StrokeLimit]

Idle == [pc |-> "idle", round |-> 0, guess |-> NoGuesses, due |-> FALSE,
         pend |-> NoTransition, owed |-> {}]

\* The request of p goes on at pc; what it has read so far is kept.
Goto(p, pc) == req' = [req EXCEPT ![p].pc = pc] /\ UNCHANGED age
\* The handler of p is done: it returns to the receive loop of its socket.
Return(p) == req' = [req EXCEPT ![p] = Idle] /\ age' = [age EXCEPT ![p] = 0]
\* The handler of p will call enter_vs_transition with the transition tr.
WillEnter(p, tr) ==
  /\ req' = [req EXCEPT ![p] = [Idle EXCEPT !.pc = "transition", !.pend = tr]]
  /\ UNCHANGED age

\* The handler of p finds the deadline of the current phase passed.
Due(p) == game.left + age[p] <= 0

\* What auto_advance_vs_phase calls when a transition screen is over.
Enter(next) == CASE next = "GUESS" -> "enter_guess"
                 [] next = "DRAW" -> "enter_draw"
                 [] next = "GAME_END" -> "end_check"

\* Mutants of AfterLostRound: a round too many, a round too few, and a round
\* number that is never raised.
RoundTooMany(rd) ==
  IF rd > MaxRounds THEN To("GAME_END", 0, "NO_WINNER", "none")
                    ELSE To("DRAW", rd + 1, "none", "none")
RoundTooFew(rd) ==
  IF rd + 1 >= MaxRounds THEN To("GAME_END", 0, "NO_WINNER", "none")
                         ELSE To("DRAW", rd + 1, "none", "none")
SameRoundAgain(rd) ==
  IF rd >= MaxRounds THEN To("GAME_END", 0, "NO_WINNER", "none")
                     ELSE To("DRAW", rd, "none", "none")

\* Where a round goes that nobody won: the next DRAW, or NO_WINNER after the
\* last one.  rd is the round_no of the header the handler read at its start.
AfterLostRound(rd) ==
  IF rd >= MaxRounds
  THEN To("GAME_END", 0, "NO_WINNER", "none")
  ELSE To("DRAW", rd + 1, "none", "none")

(***************************************************************************)
(* Requests.  A connection starts to handle a message by reading the       *)
(* header; outside IN_GAME the handler returns at once.                    *)
(***************************************************************************)
Begin(p, pc) ==
  /\ p \in Online
  /\ req[p].pc = "idle"
  /\ Cardinality({q \in Player : req[q].pc # "idle"}) < MaxInFlight
  /\ room.state = "IN_GAME"
  /\ req' = [req EXCEPT ![p] = [Idle EXCEPT !.pc = pc, !.round = room.round_no]]
  /\ UNCHANGED <<room, game, budget, points, lock, age, hits, used, top>>

\* heartbeat, snapshot or phase_tick: all end up in auto_advance_vs_phase.
BeginTick(p) == Begin(p, "advance")
BeginDraw(p) == (\E t \in Team : p \in Drawers[t]) /\ Begin(p, "draw")
BeginGuess(p) == (\E t \in Team : p \in Guessers[t]) /\ Begin(p, "guess")

\* Any request that finds the room out of IN_GAME changes nothing here.
RejectedAfterEnd(p) ==
  /\ p \in Online
  /\ req[p].pc = "idle"
  /\ room.state # "IN_GAME"
  /\ UNCHANGED vars

(***************************************************************************)
(* auto_advance_vs_phase                                                   *)
(***************************************************************************)
\* It reads the game hash and decides, for this phase, what to do.
Advance(p) ==
  /\ req[p].pc = "advance"
  /\ \/ /\ game.phase = "TRANSITION" /\ Due(p)
        /\ UNCHANGED age
        /\ \E next \in {"GUESS", "DRAW", "GAME_END"} :
             /\ game.trans.next = next
             /\ req' = [req EXCEPT ![p] = [Idle EXCEPT !.pc = Enter(next),
                                                       !.pend = game.trans]]
     \/ /\ game.phase = "DRAW"
        /\ UNCHANGED age
        /\ req' = [req EXCEPT ![p] = [Idle EXCEPT !.pc = "advance_draw",
                                                  !.due = Due(p)]]
     \/ /\ game.phase = "GUESS" /\ Due(p)
        /\ UNCHANGED age
        /\ req' = [req EXCEPT ![p].pc = "no_guess", ![p].guess = game.guess]
     \/ /\ \/ game.phase \in {"TRANSITION", "GUESS"} /\ ~Due(p)
           \/ game.phase = "VOTING"
        /\ Return(p)
  /\ UNCHANGED <<room, game, budget, points, lock, hits, used, top>>

\* Mutant: one team out of strokes is enough.
OneTeamDone(p) ==
  /\ req[p].pc = "advance_draw"
  /\ IF req[p].due \/ \E t \in Team : budget[t] <= 0
     THEN WillEnter(p, ToGuess)
     ELSE Return(p)
  /\ UNCHANGED <<room, game, budget, points, lock, hits, used, top>>

\* In DRAW it then reads the budget hash.
AdvanceDraw(p) ==
  /\ req[p].pc = "advance_draw"
  /\ IF req[p].due \/ \A t \in Team : budget[t] <= 0
     THEN WillEnter(p, ToGuess)
     ELSE Return(p)
  /\ UNCHANGED <<room, game, budget, points, lock, hits, used, top>>

\* The GUESS window is over: teams that did not guess get NO_GUESS.
NoGuess(p) ==
  /\ req[p].pc = "no_guess"
  /\ game' = [game EXCEPT !.guess =
       [t \in Team |-> IF req[p].guess[t] = "none" THEN "NO_GUESS"
                                                   ELSE req[p].guess[t]]]
  /\ WillEnter(p, AfterLostRound(req[p].round))
  /\ UNCHANGED <<room, budget, points, lock, hits, used, top>>

EnterTransition(p) ==
  /\ req[p].pc = "transition"
  /\ game' = [game EXCEPT !.phase = "TRANSITION", !.left = TransitionSec - age[p],
                          !.trans = req[p].pend]
  /\ Return(p)
  /\ UNCHANGED <<room, budget, points, lock, hits, used, top>>

EnterGuess(p) ==
  /\ req[p].pc = "enter_guess"
  /\ game' = [game EXCEPT !.phase = "GUESS", !.left = GuessSec - age[p],
                          !.trans = NoTransition]
  /\ Return(p)
  /\ UNCHANGED <<room, budget, points, lock, hits, used, top>>

\* enter_vs_draw_phase is three writes: the game hash, ...
EnterDraw(p) ==
  /\ req[p].pc = "enter_draw"
  /\ game' = [game EXCEPT !.phase = "DRAW", !.left = DrawSec - age[p],
                          !.round = req[p].pend.round,
                          !.trans = NoTransition, !.guess = NoGuesses,
                          !.winner = "none", !.reason = "none"]
  /\ used' = IF game.round = req[p].pend.round THEN used ELSE [t \in Team |-> 0]
  /\ Goto(p, "refill")
  /\ UNCHANGED <<room, budget, points, lock, hits, top>>

\* ... the budget hash, ...
Refill(p) ==
  /\ req[p].pc = "refill"
  /\ budget' = Full
  /\ Goto(p, "set_round")
  /\ UNCHANGED <<room, game, points, lock, hits, used, top>>

\* ... and the header.
SetRound(p) ==
  /\ req[p].pc = "set_round"
  /\ room' = [room EXCEPT !.round_no = req[p].pend.round]
  /\ top' = IF room'.round_no > top THEN room'.round_no ELSE top
  /\ Return(p)
  /\ UNCHANGED <<game, budget, points, lock, hits, used>>

(***************************************************************************)
(* handle_vs_draw_op                                                       *)
(***************************************************************************)
DrawRead(p) ==
  /\ req[p].pc = "draw"
  /\ IF game.phase # "DRAW" THEN Return(p)                  \* BAD_PHASE
     ELSE Goto(p, IF Due(p) THEN "advance" ELSE "stroke")
  /\ UNCHANGED <<room, game, budget, points, lock, hits, used, top>>

\* Mutant: a script that lets the last stroke be taken twice.
StrokeOnEmpty(p) ==
  /\ req[p].pc = "stroke"
  /\ \E t \in Team :
       /\ p \in Drawers[t]
       /\ IF budget[t] >= 0
          THEN /\ budget' = [budget EXCEPT ![t] = @ - 1]
               /\ used' = [used EXCEPT ![t] = @ + 1]
               /\ Goto(p, "advance")
          ELSE Return(p) /\ UNCHANGED <<budget, used>>
  /\ UNCHANGED <<room, game, points, lock, hits, top>>

\* The Lua script takes one stroke if there is one; then the handler calls
\* auto_advance_vs_phase with the header it read at its start.
Stroke(p) ==
  /\ req[p].pc = "stroke"
  /\ \E t \in Team :
       /\ p \in Drawers[t]
       /\ \/ /\ budget[t] >= 1
             /\ budget' = [budget EXCEPT ![t] = @ - 1]
             /\ used' = [used EXCEPT ![t] = IF @ > StrokeLimit THEN @ ELSE @ + 1]
             /\ Goto(p, "advance")
          \/ /\ budget[t] < 1                               \* NO_BUDGET
             /\ Return(p)
             /\ UNCHANGED <<budget, used>>
  /\ UNCHANGED <<room, game, points, lock, hits, top>>

(***************************************************************************)
(* handle_vs_guess                                                         *)
(***************************************************************************)
\* Mutant: a team that has guessed may guess again.
GuessAgain(p) ==
  /\ req[p].pc = "guess"
  /\ \E t \in Team :
       /\ p \in Guessers[t]
       /\ \/ (game.phase # "GUESS" \/ Due(p)) /\ Return(p)
          \/ /\ game.phase = "GUESS" /\ ~Due(p) /\ UNCHANGED age
             /\ \E result \in {"WRONG", "CORRECT"} :
                  req' = [req EXCEPT ![p].pc = "guess_write",
                                     ![p].guess = [game.guess EXCEPT ![t] = result]]
  /\ UNCHANGED <<room, game, budget, points, lock, hits, used, top>>

\* The text is compared with the secret word: either outcome is possible.
GuessRead(p) ==
  /\ req[p].pc = "guess"
  /\ \E t \in Team :
       /\ p \in Guessers[t]
       /\ \/ /\ game.phase # "GUESS"                        \* BAD_PHASE
             /\ Return(p)
          \/ /\ game.phase = "GUESS" /\ Due(p)              \* GUESS_EXPIRED
             /\ Goto(p, "advance")
          \/ /\ game.phase = "GUESS" /\ ~Due(p)
             /\ game.guess[t] # "none"                      \* TEAM_ALREADY_GUESSED
             /\ Return(p)
          \/ /\ game.phase = "GUESS" /\ ~Due(p)
             /\ game.guess[t] = "none"
             /\ UNCHANGED age
             /\ \E result \in {"WRONG", "CORRECT"} :
                  req' = [req EXCEPT ![p].pc = "guess_write",
                                     ![p].guess = [game.guess EXCEPT ![t] = result]]
  /\ UNCHANGED <<room, game, budget, points, lock, hits, used, top>>

\* Mutant: it asks whether both teams have guessed before it asks who was right.
BothGuessedFirst(p) ==
  /\ req[p].pc = "guess_write"
  /\ game' = [game EXCEPT !.guess = req[p].guess]
  /\ \E t \in Team :
       /\ p \in Guessers[t]
       /\ hits' = IF req[p].guess[t] = "CORRECT" THEN hits \cup {t} ELSE hits
       /\ IF \A u \in Team : req[p].guess[u] # "none"
          THEN WillEnter(p, AfterLostRound(req[p].round))
          ELSE IF req[p].guess[t] = "CORRECT"
          THEN WillEnter(p, To("GAME_END", 0, "CORRECT", t))
          ELSE Return(p)
  /\ UNCHANGED <<room, budget, points, lock, used, top>>

\* It writes back the results it read, with its own added.
GuessWrite(p) ==
  /\ req[p].pc = "guess_write"
  /\ game' = [game EXCEPT !.guess = req[p].guess]
  /\ \E t \in Team :
       /\ p \in Guessers[t]
       /\ \/ /\ req[p].guess[t] = "CORRECT"
             /\ hits' = hits \cup {t}
             /\ WillEnter(p, To("GAME_END", 0, "CORRECT", t))
          \/ /\ req[p].guess[t] # "CORRECT"
             /\ UNCHANGED hits
             /\ IF \A u \in Team : req[p].guess[u] # "none"
                THEN WillEnter(p, AfterLostRound(req[p].round))
                ELSE Return(p)
  /\ UNCHANGED <<room, budget, points, lock, used, top>>

(***************************************************************************)
(* end_vs_game, for the transition the tick found due                      *)
(***************************************************************************)
\* Mutant: it trusts the header that was read before the lock was taken.
EndUnchecked(p) ==
  /\ req[p].pc = "end_check"
  /\ lock = Nobody
  /\ lock' = p
  /\ Goto(p, "award")
  /\ UNCHANGED <<room, game, budget, points, hits, used, top>>

\* Under the room's end lock it reads the header again.
EndCheck(p) ==
  /\ req[p].pc = "end_check"
  /\ lock = Nobody
  /\ IF room.state = "IN_GAME"
     THEN lock' = p /\ Goto(p, "award")
     ELSE UNCHANGED lock /\ Return(p)
  /\ UNCHANGED <<room, game, budget, points, hits, used, top>>

\* Mutant: the teams are mixed up.
OpponentsOf(winner, reason) ==
  IF winner \in Team THEN UNION {Members(t) : t \in Team \ {winner}}
  ELSE IF reason = "NO_WINNER" THEN {GM} ELSE {}

\* Each connected player of the winning team; without a winner the GameMaster,
\* connected or not.
Winners(winner, reason) ==
  IF winner \in Team THEN Members(winner) \cap Online
  ELSE IF reason = "NO_WINNER" THEN {GM} ELSE {}

\* The request of p still owes a point to each of them.
Owe(p, owed) ==
  /\ req' = [req EXCEPT ![p].pc = IF owed = {} THEN "end_game" ELSE "pay",
                        ![p].owed = owed]
  /\ UNCHANGED age

\* It lists the players once, ...
Award(p) ==
  /\ req[p].pc = "award"
  /\ Owe(p, Winners(req[p].pend.winner, req[p].pend.reason))
  /\ UNCHANGED <<room, game, budget, points, lock, hits, used, top>>

\* Mutant: it stops at the first player of the team.
PayOnlyOne(p) ==
  /\ req[p].pc = "pay"
  /\ \E q \in req[p].owed : points' = [points EXCEPT ![q] = @ + 1]
  /\ Owe(p, {})
  /\ UNCHANGED <<room, game, budget, lock, hits, used, top>>

\* ... and raises the points of one winner after the other.
Pay(p) ==
  /\ req[p].pc = "pay"
  /\ \E q \in req[p].owed :
       /\ points' = [points EXCEPT ![q] = @ + 1]
       /\ Owe(p, req[p].owed \ {q})
  /\ UNCHANGED <<room, game, budget, lock, hits, used, top>>

EndGame(p) ==
  /\ req[p].pc = "end_game"
  /\ game' = [game EXCEPT !.phase = "VOTING", !.left = 0, !.trans = NoTransition,
                          !.winner = req[p].pend.winner, !.reason = req[p].pend.reason]
  /\ Goto(p, "end_room")
  /\ UNCHANGED <<room, budget, points, lock, hits, used, top>>

EndRoom(p) ==
  /\ req[p].pc = "end_room"
  /\ room' = [room EXCEPT !.state = "GAME_END"]
  /\ lock' = Nobody
  /\ Return(p)
  /\ UNCHANGED <<game, budget, points, hits, used, top>>

(***************************************************************************)
(* handle_end_game: the GameMaster ends the game.  It takes no lock and    *)
(* asks nothing of the state.                                              *)
(***************************************************************************)
BeginGMEnd ==
  /\ GM \in Online
  /\ req[GM].pc = "idle"
  /\ Cardinality({q \in Player : req[q].pc # "idle"}) < MaxInFlight
  /\ Goto(GM, "gm_game")
  /\ UNCHANGED <<room, game, budget, points, lock, hits, used, top>>

\* Mutant: the game is over but its vote is not opened.
GMEndWithoutVote ==
  /\ req[GM].pc = "gm_game"
  /\ game' = [game EXCEPT !.winner = "none", !.reason = "GM_END"]
  /\ Goto(GM, "gm_room")
  /\ UNCHANGED <<room, budget, points, lock, hits, used, top>>

GMEndGame ==
  /\ req[GM].pc = "gm_game"
  /\ game' = [game EXCEPT !.phase = "VOTING", !.left = 0,
                          !.winner = "none", !.reason = "GM_END"]
  /\ Goto(GM, "gm_room")
  /\ UNCHANGED <<room, budget, points, lock, hits, used, top>>

GMEndRoom ==
  /\ req[GM].pc = "gm_room"
  /\ room' = [room EXCEPT !.state = "GAME_END"]
  /\ Return(GM)
  /\ UNCHANGED <<game, budget, points, lock, hits, used, top>>

\* A second passes, for the deadline and for the handlers under way.
ClockTick ==
  /\ \A p \in Player : age[p] < MaxDelay
  /\ game' = [game EXCEPT !.left = IF @ > -MaxDelay THEN @ - 1 ELSE @]
  /\ age' = [p \in Player |-> IF req[p].pc = "idle" THEN age[p] ELSE age[p] + 1]
  /\ UNCHANGED <<room, budget, points, lock, req, hits, used, top>>

-----------------------------------------------------------------------------
\* What handle_vs_start_game leaves behind.
Init ==
  /\ room = [state |-> "IN_GAME", round_no |-> 1]
  /\ game = [phase |-> "DRAW", round |-> 1, left |-> DrawSec,
             trans |-> NoTransition, guess |-> NoGuesses,
             winner |-> "none", reason |-> "none"]
  /\ budget = Full
  /\ points = [p \in Player |-> 0]
  /\ lock = Nobody
  /\ req = [p \in Player |-> Idle]
  /\ age = [p \in Player |-> 0]
  /\ hits = {}
  /\ used = [t \in Team |-> 0]
  /\ top = 1

\* The next command of the request connection p is handling.
Step(p) ==
  \/ Advance(p) \/ AdvanceDraw(p) \/ NoGuess(p) \/ EnterTransition(p)
  \/ EnterGuess(p) \/ EnterDraw(p) \/ Refill(p) \/ SetRound(p)
  \/ DrawRead(p) \/ Stroke(p) \/ GuessRead(p) \/ GuessWrite(p)
  \/ EndCheck(p) \/ Award(p) \/ Pay(p) \/ EndGame(p) \/ EndRoom(p)

GMStep == GMEndGame \/ GMEndRoom

Next ==
  \/ \E p \in Player : BeginTick(p) \/ BeginDraw(p) \/ BeginGuess(p)
  \/ \E p \in Player : RejectedAfterEnd(p)
  \/ \E p \in Player : Step(p)
  \/ BeginGMEnd \/ GMStep
  \/ ClockTick

Spec == Init /\ [][Next]_vars

\* Time passes; a request that was begun is carried through; and while
\* clients are connected their heartbeats, one a second, get their turn.
Fairness ==
  /\ WF_vars(ClockTick)
  /\ \A p \in Player : WF_vars(Step(p))
  /\ WF_vars(GMStep)
  /\ SF_vars(\E p \in Player : BeginTick(p))

FairSpec == Spec /\ Fairness

-----------------------------------------------------------------------------
Phase == {"DRAW", "GUESS", "TRANSITION", "VOTING"}
Pc == {"idle", "advance", "advance_draw", "no_guess", "transition",
       "enter_guess", "enter_draw", "refill", "set_round", "draw", "stroke",
       "guess", "guess_write", "end_check", "award", "pay", "end_game",
       "end_room", "gm_game", "gm_room"}
Game == [phase : Phase, round : 1..MaxRounds, left : Int,
         trans : Transition, guess : Guesses, winner : Team \cup {"none"},
         reason : {"none", "CORRECT", "NO_WINNER", "GM_END"}]
Request == [pc : Pc, round : 0..MaxRounds, guess : Guesses, due : BOOLEAN,
            pend : Transition, owed : SUBSET Player]

\* The values of the variables; the budgets stay within the stroke limit.
TypeOK ==
  /\ room \in [state : {"IN_GAME", "GAME_END"}, round_no : 1..MaxRounds]
  /\ game \in Game
  /\ budget \in [Team -> 0..StrokeLimit]
  /\ points \in [Player -> Nat]
  /\ lock \in Player \cup {Nobody}
  /\ req \in [Player -> Request]
  /\ age \in [Player -> Nat]
  /\ hits \in SUBSET Team
  /\ used \in [Team -> Nat]
  /\ top \in 1..MaxRounds

Paid == {p \in Player : points[p] > 0}

\* However many ticks find the end of the game due at once, the game is scored
\* once: nobody gets two points, and either one team is paid or the GameMaster.
ScoredOnce ==
  /\ \A p \in Player : points[p] <= 1
  /\ \/ Paid \subseteq {GM}
     \/ \E t \in Team : Paid \subseteq Members(t)

\* A team is only paid for a guess of its own that was right.
PaidTeamGuessed ==
  \A t \in Team : Paid \cap Members(t) # {} => t \in hits

\* The winners the game hash names at the end have all got their point: what the
\* room is shown is what has been paid, whoever else is ending the game.
WinnersPaid == Winners(game.winner, game.reason) \subseteq Paid

\* The GameMaster is only paid when the last round has been reached.
NoWinnerOnlyAfterLastRound == GM \in Paid => top = MaxRounds

(***************************************************************************)
(* What the guides promise.  It holds when the handlers run one at a time  *)
(* (MaxInFlight = 1) and fails when they interleave.                       *)
(***************************************************************************)
\* "Each team gets one guess per round": once a guess of a team is recorded,
\* handle_vs_guess does not record another one over it.
OneGuessPerTeam ==
  [][\A t \in Team : {game.guess[t], game'.guess[t]} \subseteq {"WRONG", "CORRECT"}
                     => game'.guess[t] = game.guess[t]]_game

\* "Correct guess -> game ends": a game in which a correct guess was recorded
\* is not closed by end_vs_game as one that nobody won.
CorrectGuessWins ==
  game.phase = "VOTING" /\ game.reason = "NO_WINNER" => hits = {}

\* "Per-team stroke budget per DRAW window": in the DRAW window of one round
\* no team draws more strokes than strokes_per_phase.
StrokesPerWindow == \A t \in Team : used[t] <= StrokeLimit

\* DRAW is left for GUESS only when its time is up or both teams have drawn
\* the strokes of this window; a budget of the round before does not count.
DrawWindowNotCutShort ==
  [][\A p \in Player : AdvanceDraw(p) /\ req'[p].pc = "transition"
       => req[p].due \/ \A t \in Team : used[t] >= StrokeLimit]_vars

\* "GAME_END + VOTING": a room in GAME_END gets to its vote, which only the
\* VOTING phase allows.
EndReachesVoting == (room.state = "GAME_END") ~> (game.phase = "VOTING")

\* What a game promises about its result.
Outcome == INSTANCE GameResult WITH
  Side <- Team, MembersOf <- [t \in Team |-> Members(t)], right <- hits,
  lost <- (top = MaxRounds), over <- (room.state = "GAME_END"), torn <- FALSE

\* A VS game, with all its windows, screens and overlapping handlers, gives its
\* points as GameResult says: at most one to each player, and only to those of
\* the side that earned them.
ImplementsResult == Outcome!Spec

\* Under FairSpec no interleaving of ticks, strokes and guesses can keep a
\* game from ending: the windows close, the rounds run out.
GameEnds == <>(room.state = "GAME_END")
=============================================================================
