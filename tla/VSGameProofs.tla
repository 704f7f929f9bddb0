---------------------------- MODULE VSGameProofs ----------------------------
(***************************************************************************)
(* What holds of a VS game for every room, every bound on the rounds and   *)
(* every number of requests in flight.                                     *)
(***************************************************************************)
EXTENDS VSGame, TLAPS

(***************************************************************************)
(* The inductive invariant.  Beside the types it says what the requests in *)
(* flight and the transition screen still carry.                           *)
(***************************************************************************)
\* A request inside enter_vs_draw_phase carries a transition to DRAW.
DrawPending ==
  \A p \in Player : req[p].pc \in {"enter_draw", "refill", "set_round"}
                      => req[p].pend.next = "DRAW"

\* Whoever is past the check of end_vs_game holds the end lock.
EnderHoldsLock ==
  \A p \in Player :
    req[p].pc \in {"award", "pay", "end_game", "end_room"} => lock = p

\* Whom the request of p has to pay.
Creditors(p) == Winners(req[p].pend.winner, req[p].pend.reason)

\* Who has been paid is at any moment of end_vs_game known from its request.
PaidInTurn ==
  \A p \in Player :
    /\ req[p].pc = "award" => Paid = {}
    /\ req[p].pc = "pay" => req[p].owed \subseteq Creditors(p) /\ Paid = Creditors(p) \ req[p].owed
    /\ req[p].pc \in {"end_game", "end_room"} => Paid = Creditors(p)

\* Once something is paid the room is in GAME_END or the payer still holds the
\* lock.
PaidThenEnded ==
  \/ Paid = {}
  \/ room.state = "GAME_END"
  \/ \E p \in Player : lock = p /\ req[p].pc \in {"pay", "end_game", "end_room"}

\* A transition that credits a team credits one that has had a correct guess
\* (h: those teams), and one that says NO_WINNER was decided when the last
\* round had been shown (n: the highest round shown).
Sound(tr, h, n) ==
  /\ tr.winner \in h \cup {"none"}
  /\ tr.reason = "NO_WINNER" => n = MaxRounds

\* So are the transition on the screen and those on their way; and no round
\* number that was read is beyond the highest shown.
HonestPending ==
  /\ room.round_no <= top
  /\ Sound(game.trans, hits, top)
  /\ \A p \in Player : Sound(req[p].pend, hits, top) /\ req[p].round <= top

Typed == TypeOK /\ DrawPending
Scoring == EnderHoldsLock /\ PaidInTurn /\ PaidThenEnded /\ ScoredOnce
Honest == HonestPending /\ PaidTeamGuessed /\ NoWinnerOnlyAfterLastRound

-----------------------------------------------------------------------------
\* The values the actions write are of the right kind.
LEMMA ValuesTyped ==
  /\ NoGuesses \in Guesses
  /\ NoTransition \in Transition
  /\ ToGuess \in Transition
  /\ Full \in [Team -> 0..StrokeLimit]
  /\ Idle \in Request
  /\ \A rd \in 0..MaxRounds : AfterLostRound(rd) \in Transition
<1> USE ConfigAssumption
<1>1. NoGuesses \in Guesses
  BY DEF NoGuesses, Guesses, Result
<1>2. NoTransition \in Transition
  BY DEF NoTransition, To, Transition
<1>3. ToGuess \in Transition
  BY DEF ToGuess, To, Transition
<1>4. Full \in [Team -> 0..StrokeLimit]
  BY DEF Full
<1>5. Idle \in Request
  BY <1>1, <1>2 DEF Idle, Pc, Request
<1>6. ASSUME NEW rd \in 0..MaxRounds PROVE AfterLostRound(rd) \in Transition
  <2>1. CASE rd >= MaxRounds
    BY <2>1 DEF AfterLostRound, To, Transition
  <2>2. CASE rd < MaxRounds
    BY <2>2 DEF AfterLostRound, To, Transition
  <2> QED
    BY <2>1, <2>2
<1> QED
  BY <1>1, <1>2, <1>3, <1>4, <1>5, <1>6

\* What the writes of the game hash put in it.
LEMMA ScreenTyped ==
  ASSUME game \in Game, NEW phase \in Phase, NEW left \in Int,
         NEW trans \in Transition
  PROVE  [game EXCEPT !.phase = phase, !.left = left, !.trans = trans] \in Game
  BY DEF Game

\* The game hash stays well formed when end_vs_game or end_game writes its result,
LEMMA ResultTyped ==
  ASSUME NEW g \in Game, NEW left \in Int, NEW winner \in Team \cup {"none"},
         NEW reason \in {"none", "CORRECT", "NO_WINNER", "GM_END"}
  PROVE  [g EXCEPT !.phase = "VOTING", !.left = left,
                   !.winner = winner, !.reason = reason] \in Game
  BY DEF Game, Phase

\* and when enter_vs_draw_phase resets the fields of a round.
LEMMA RoundTyped ==
  ASSUME NEW g \in Game, NEW round \in 1..MaxRounds
  PROVE  [g EXCEPT !.round = round, !.guess = NoGuesses,
                   !.winner = "none", !.reason = "none"] \in Game
  BY ValuesTyped DEF Game

\* The GameMaster is one of the players.
LEMMA GMIsPlayer == GM \in Player
  BY DEF Player

\* A game that has just been started is well formed.
LEMMA InitTyped == Init => Typed
  <1> SUFFICES ASSUME Init PROVE Typed
    OBVIOUS
  <1> USE ValuesTyped, ConfigAssumption DEF Init
  <1>1. TypeOK
    BY DEF TypeOK, Phase, Team, Game
  <1>2. DrawPending
    BY DEF DrawPending, Idle
  <1> QED
    BY <1>1, <1>2 DEF Typed

\* The requests, their ages and the transitions to DRAW among them.
Kept ==
  /\ req \in [Player -> Request]
  /\ age \in [Player -> Nat]
  /\ DrawPending

\* The three ways a handler moves on keep its request well formed.
LEMMA NewRequest ==
  ASSUME Kept, NEW p \in Player, NEW r \in Request,
         req' = [req EXCEPT ![p] = r], age' \in [Player -> Nat],
         r.pc \in {"enter_draw", "refill", "set_round"} => r.pend.next = "DRAW"
  PROVE  Kept'
  BY DEF Kept, DrawPending

\* A handler that returns.
LEMMA ReturnTyped ==
  ASSUME Kept, NEW p \in Player, Return(p)
  PROVE  Kept'
<1>1. Idle.pc = "idle"
  BY DEF Idle
<1> QED
  BY <1>1, NewRequest, ValuesTyped DEF Return, Kept

\* A handler that goes on with what it has read.
LEMMA GotoTyped ==
  ASSUME Kept, NEW p \in Player,
         NEW pc \in Pc, Goto(p, pc),
         pc \in {"enter_draw", "refill", "set_round"} => req[p].pend.next = "DRAW"
  PROVE  Kept'
<1> DEFINE r == [req[p] EXCEPT !.pc = pc]
<1>1. r \in Request /\ r.pc = pc /\ r.pend = req[p].pend
  BY DEF Request, Kept
<1>2. req' = [req EXCEPT ![p] = r] /\ age' \in [Player -> Nat]
  BY DEF Goto, Kept
<1> HIDE DEF r
<1> QED
  BY <1>1, <1>2, NewRequest

\* A handler that is about to call enter_vs_transition.
LEMMA WillEnterTyped ==
  ASSUME Kept, NEW p \in Player,
         NEW tr \in Transition, WillEnter(p, tr)
  PROVE  Kept'
<1> DEFINE r == [Idle EXCEPT !.pc = "transition", !.pend = tr]
<1>1. r \in Request /\ r.pc = "transition"
  BY ValuesTyped DEF Request, Idle, Pc
<1>2. req' = [req EXCEPT ![p] = r] /\ age' \in [Player -> Nat]
  BY DEF WillEnter, Kept
<1> HIDE DEF r
<1> QED
  BY <1>1, <1>2, NewRequest

\* A handler of end_vs_game that knows whom it owes a point.
LEMMA OweTyped ==
  ASSUME Kept, NEW p \in Player, NEW owed \in SUBSET Player, Owe(p, owed)
  PROVE  Kept'
<1> DEFINE pc == IF owed = {} THEN "end_game" ELSE "pay"
           r == [req[p] EXCEPT !.pc = pc, !.owed = owed]
<1>0. req[p] \in Request /\ pc \in {"end_game", "pay"} /\ pc \in Pc
  BY DEF Kept, Pc
<1> HIDE DEF pc
<1>1. r \in Request /\ r.pc \in {"end_game", "pay"}
  BY <1>0 DEF Request
<1>2. req' = [req EXCEPT ![p] = r] /\ age' \in [Player -> Nat]
  BY DEF Owe, Kept, pc
<1> HIDE DEF r
<1> QED
  BY <1>1, <1>2, NewRequest

\* The winners are of one side.
LEMMA WinnersOfOneSide ==
  ASSUME NEW winner, NEW reason
  PROVE  /\ Winners(winner, reason) \subseteq Player
         /\ \/ Winners(winner, reason) \subseteq {GM}
            \/ \E t \in Team : Winners(winner, reason) \subseteq Members(t)
  BY RolesAssumption, GMIsPlayer DEF Winners

\* A handler that has just read the header.
LEMMA BeginTyped ==
  ASSUME Typed, NEW p \in Player, NEW pc \in {"advance", "draw", "guess"},
         Begin(p, pc)
  PROVE  Typed'
<1> DEFINE r == [Idle EXCEPT !.pc = pc, !.round = room.round_no]
<1>1. r \in Request /\ r.pc = pc
  <2>1. pc \in Pc /\ room.round_no \in 0..MaxRounds
    BY ConfigAssumption DEF Pc, Typed, TypeOK
  <2> QED
    BY <2>1, ValuesTyped DEF Request, Idle
<1>2. req' = [req EXCEPT ![p] = r]
  BY DEF Begin
<1> HIDE DEF r
<1>3. Kept'
  BY <1>1, <1>2, NewRequest DEF Begin, Typed, TypeOK, Kept
<1> QED
  BY <1>3 DEF Begin, Typed, TypeOK, Kept

\* auto_advance_vs_phase and what it calls.
LEMMA AdvanceTyped ==
  ASSUME Typed, NEW p \in Player,
         \/ Advance(p) \/ AdvanceDraw(p) \/ NoGuess(p) \/ EnterTransition(p)
         \/ EnterGuess(p) \/ EnterDraw(p) \/ Refill(p) \/ SetRound(p)
  PROVE  Typed'
<1> USE DEF Typed, TypeOK, Kept
<1>1. CASE Advance(p)
  <2>1. Kept'
    <3>1. ASSUME NEW next \in {"GUESS", "DRAW", "GAME_END"}, game.trans.next = next,
                 req' = [req EXCEPT ![p] = [Idle EXCEPT !.pc = Enter(next),
                                                       !.pend = game.trans]],
                 UNCHANGED age
          PROVE  Kept'
      <4> DEFINE r == [Idle EXCEPT !.pc = Enter(next), !.pend = game.trans]
      <4>1. game.trans \in Transition
        BY DEF Game
      <4>2. r \in Request /\ r.pc = Enter(next) /\ r.pend = game.trans
        <5>1. Enter(next) \in Pc
          BY <3>1 DEF Enter, Pc
        <5> QED
          BY <4>1, <5>1, ValuesTyped DEF Request, Idle
      <4>3. r.pc \in {"enter_draw", "refill", "set_round"} => r.pend.next = "DRAW"
        BY <3>1, <4>2 DEF Enter
      <4>4. req' = [req EXCEPT ![p] = r]
        BY <3>1
      <4> HIDE DEF r
      <4> QED
        BY <3>1, <4>2, <4>3, <4>4, NewRequest
    <3>2. CASE /\ req' = [req EXCEPT ![p] = [Idle EXCEPT !.pc = "advance_draw",
                                                        !.due = Due(p)]]
               /\ UNCHANGED age
      <4> DEFINE r == [Idle EXCEPT !.pc = "advance_draw", !.due = Due(p)]
      <4>0. Due(p) \in BOOLEAN
        BY DEF Due
      <4>1. r \in Request /\ r.pc = "advance_draw"
        BY <4>0, ValuesTyped DEF Request, Idle, Pc
      <4>2. req' = [req EXCEPT ![p] = r]
        BY <3>2
      <4> HIDE DEF r
      <4> QED
        BY <3>2, <4>1, <4>2, NewRequest
    <3>3. CASE /\ req' = [req EXCEPT ![p].pc = "no_guess", ![p].guess = game.guess]
               /\ UNCHANGED age
      <4> DEFINE r == [req[p] EXCEPT !.pc = "no_guess", !.guess = game.guess]
      <4>0. req[p] \in Request /\ "no_guess" \in Pc /\ game.guess \in Guesses
        BY DEF Pc, Game
      <4>1. r \in Request /\ r.pc = "no_guess"
        BY <4>0 DEF Request
      <4>2. req' = [req EXCEPT ![p] = r]
        BY <3>3
      <4> HIDE DEF r
      <4> QED
        BY <3>3, <4>1, <4>2, NewRequest
    <3>4. CASE Return(p)
      BY <3>4, ReturnTyped
    <3> QED
      BY <1>1, <3>1, <3>2, <3>3, <3>4 DEF Advance
  <2> QED
    BY <1>1, <2>1 DEF Advance
<1>2. CASE AdvanceDraw(p)
  <2>1. Kept'
    BY <1>2, ReturnTyped, WillEnterTyped, ValuesTyped DEF AdvanceDraw
  <2> QED
    BY <1>2, <2>1 DEF AdvanceDraw
<1>3. CASE NoGuess(p)
  <2>1. req[p] \in Request
    OBVIOUS
  <2>2. Kept'
    BY <1>3, <2>1, WillEnterTyped, ValuesTyped DEF NoGuess, Request
  <2>3. game' \in Game
    <3>1. [t \in Team |-> IF req[p].guess[t] = "none" THEN "NO_GUESS"
                                                     ELSE req[p].guess[t]] \in Guesses
      BY <2>1 DEF Request, Guesses, Result
    <3> QED
      BY <1>3, <3>1 DEF NoGuess, Game
  <2> QED
    BY <1>3, <2>2, <2>3 DEF NoGuess
<1>4. CASE EnterTransition(p)
  <2>1. Kept'
    BY <1>4, ReturnTyped DEF EnterTransition
  <2>2. req[p].pend \in Transition /\ TransitionSec - age[p] \in Int
    BY ConfigAssumption DEF Request
  <2>3. game' \in Game
    BY <1>4, <2>2, ScreenTyped DEF EnterTransition, Phase
  <2> QED
    BY <1>4, <2>1, <2>3 DEF EnterTransition
<1>5. CASE EnterGuess(p)
  <2>1. Kept'
    BY <1>5, ReturnTyped DEF EnterGuess
  <2>2. GuessSec - age[p] \in Int
    BY ConfigAssumption
  <2>3. game' \in Game
    BY <1>5, <2>2, ScreenTyped, ValuesTyped DEF EnterGuess, Phase
  <2> QED
    BY <1>5, <2>1, <2>3 DEF EnterGuess
<1>6. CASE EnterDraw(p)
  <2>1. req[p].pend \in Transition /\ req[p].pend.next = "DRAW"
    BY <1>6 DEF EnterDraw, Request, DrawPending
  <2>2. req[p].pend.round \in 1..MaxRounds
    BY <2>1, ConfigAssumption DEF Transition
  <2>3. Kept'
    BY <1>6, <2>1, GotoTyped DEF EnterDraw, Pc
  <2>4. DrawSec - age[p] \in Int
    BY ConfigAssumption
  <2>5. game' \in Game
    <3> DEFINE g == [game EXCEPT !.phase = "DRAW", !.left = DrawSec - age[p],
                                 !.trans = NoTransition]
    <3>1. g \in Game
      BY <2>4, ScreenTyped, ValuesTyped DEF Phase
    <3>2. game' = [g EXCEPT !.round = req[p].pend.round, !.guess = NoGuesses,
                            !.winner = "none", !.reason = "none"]
      BY <1>6 DEF EnterDraw, Game
    <3> HIDE DEF g
    <3> QED
      BY <2>2, <3>1, <3>2, RoundTyped
  <2>6. used' \in [Team -> Nat]
    BY <1>6 DEF EnterDraw
  <2> QED
    BY <1>6, <2>3, <2>5, <2>6 DEF EnterDraw
<1>7. CASE Refill(p)
  <2>1. Kept'
    BY <1>7, GotoTyped DEF Refill, Pc, DrawPending
  <2> QED
    BY <1>7, <2>1, ValuesTyped DEF Refill
<1>8. CASE SetRound(p)
  <2>1. req[p].pend \in Transition /\ req[p].pend.next = "DRAW"
    BY <1>8 DEF SetRound, Request, DrawPending
  <2>2. req[p].pend.round \in 1..MaxRounds
    BY <2>1, ConfigAssumption DEF Transition
  <2>3. Kept'
    BY <1>8, ReturnTyped DEF SetRound
  <2>4. /\ room' \in [state : {"IN_GAME", "GAME_END"}, round_no : 1..MaxRounds]
        /\ top' \in 1..MaxRounds
    BY <1>8, <2>2 DEF SetRound
  <2> QED
    BY <1>8, <2>3, <2>4 DEF SetRound
<1> QED
  BY <1>1, <1>2, <1>3, <1>4, <1>5, <1>6, <1>7, <1>8

\* handle_vs_draw_op and handle_vs_guess.
LEMMA PlayTyped ==
  ASSUME Typed, NEW p \in Player,
         DrawRead(p) \/ Stroke(p) \/ GuessRead(p) \/ GuessWrite(p)
  PROVE  Typed'
<1> USE DEF Typed, TypeOK, Kept
<1>1. CASE DrawRead(p)
  <2>1. Kept'
    BY <1>1, ReturnTyped, GotoTyped DEF DrawRead, Pc
  <2> QED
    BY <1>1, <2>1 DEF DrawRead
<1>2. CASE Stroke(p)
  <2>1. Kept'
    BY <1>2, ReturnTyped, GotoTyped DEF Stroke, Pc
  <2>2. budget' \in [Team -> 0..StrokeLimit] /\ used' \in [Team -> Nat]
    BY <1>2, ConfigAssumption DEF Stroke
  <2> QED
    BY <1>2, <2>1, <2>2 DEF Stroke
<1>3. CASE GuessRead(p)
  <2>1. Kept'
    <3>1. ASSUME NEW t \in Team, NEW result \in {"WRONG", "CORRECT"},
                 req' = [req EXCEPT ![p].pc = "guess_write",
                                    ![p].guess = [game.guess EXCEPT ![t] = result]],
                 UNCHANGED age
          PROVE  Kept'
      <4> DEFINE r == [req[p] EXCEPT !.pc = "guess_write",
                                     !.guess = [game.guess EXCEPT ![t] = result]]
      <4>1. [game.guess EXCEPT ![t] = result] \in Guesses
        BY DEF Game, Guesses, Result
      <4>0. req[p] \in Request /\ "guess_write" \in Pc
        BY DEF Pc
      <4>2. r \in Request /\ r.pc = "guess_write"
        BY <4>0, <4>1 DEF Request
      <4>3. req' = [req EXCEPT ![p] = r]
        BY <3>1
      <4> HIDE DEF r
      <4> QED
        BY <3>1, <4>2, <4>3, NewRequest
    <3> QED
      BY <1>3, <3>1, ReturnTyped, GotoTyped DEF GuessRead, Pc
  <2> QED
    BY <1>3, <2>1 DEF GuessRead
<1>4. CASE GuessWrite(p)
  <2>1. req[p].guess \in Guesses /\ req[p].round \in 0..MaxRounds
    BY DEF Request
  <2>2. \A t \in Team : To("GAME_END", 0, "CORRECT", t) \in Transition
    BY ConfigAssumption DEF To, Transition
  <2>3. Kept'
    BY <1>4, <2>1, <2>2, WillEnterTyped, ReturnTyped, ValuesTyped DEF GuessWrite
  <2>4. game' \in Game /\ hits' \in SUBSET Team
    BY <1>4, <2>1 DEF GuessWrite, Game
  <2> QED
    BY <1>4, <2>3, <2>4 DEF GuessWrite
<1> QED
  BY <1>1, <1>2, <1>3, <1>4

\* end_vs_game and handle_end_game.
LEMMA EndTyped ==
  ASSUME Typed,
         \/ \E p \in Player :
              EndCheck(p) \/ Award(p) \/ Pay(p) \/ EndGame(p) \/ EndRoom(p)
         \/ BeginGMEnd \/ GMEndGame \/ GMEndRoom
  PROVE  Typed'
<1> USE DEF Typed, TypeOK, Kept
<1>1. ASSUME NEW p \in Player, EndCheck(p) PROVE Typed'
  <2>1. Kept'
    BY <1>1, ReturnTyped, GotoTyped DEF EndCheck, Pc
  <2> QED
    BY <1>1, <2>1 DEF EndCheck
<1>2. ASSUME NEW p \in Player, Award(p) PROVE Typed'
  <2>1. Winners(req[p].pend.winner, req[p].pend.reason) \subseteq Player
    BY WinnersOfOneSide
  <2>2. Kept'
    BY <1>2, <2>1, OweTyped DEF Award
  <2> QED
    BY <1>2, <2>2 DEF Award
<1>8. ASSUME NEW p \in Player, Pay(p) PROVE Typed'
  <2>1. PICK q \in req[p].owed : Owe(p, req[p].owed \ {q})
    BY <1>8 DEF Pay
  <2>2. req[p].owed \subseteq Player
    BY DEF Request
  <2>3. Kept'
    BY <2>1, <2>2, OweTyped
  <2>4. points' \in [Player -> Nat]
    BY <1>8, <2>2 DEF Pay
  <2> QED
    BY <1>8, <2>3, <2>4 DEF Pay
<1>3. ASSUME NEW p \in Player, EndGame(p) PROVE Typed'
  <2>1. Kept'
    BY <1>3, GotoTyped DEF EndGame, Pc
  <2>2. /\ req[p].pend.winner \in Team \cup {"none"}
        /\ req[p].pend.reason \in {"none", "CORRECT", "NO_WINNER", "GM_END"}
    BY DEF Request, Transition
  <2>3. 0 \in Int
    OBVIOUS
  <2>4. game' \in Game
    <3> DEFINE g == [game EXCEPT !.phase = "VOTING", !.left = 0,
                                 !.trans = NoTransition]
    <3>1. g \in Game
      <4>1. game \in Game /\ NoTransition \in Transition /\ "VOTING" \in Phase
        BY ValuesTyped DEF Phase
      <4> QED
        BY <2>3, <4>1, ScreenTyped, Zenon
    <3>2. game' = [g EXCEPT !.phase = "VOTING", !.left = 0,
                            !.winner = req[p].pend.winner,
                            !.reason = req[p].pend.reason]
      BY <1>3 DEF EndGame, Game
    <3> HIDE DEF g
    <3> QED
      BY <2>2, <2>3, <3>1, <3>2, ResultTyped, Zenon
  <2> QED
    BY <1>3, <2>1, <2>4 DEF EndGame
<1>4. ASSUME NEW p \in Player, EndRoom(p) PROVE Typed'
  <2>1. Kept'
    BY <1>4, ReturnTyped DEF EndRoom
  <2> QED
    BY <1>4, <2>1 DEF EndRoom
<1>5. CASE BeginGMEnd
  <2>1. Kept'
    BY <1>5, GMIsPlayer, GotoTyped DEF BeginGMEnd, Pc
  <2> QED
    BY <1>5, <2>1 DEF BeginGMEnd
<1>6. CASE GMEndGame
  <2>1. Kept'
    BY <1>6, GMIsPlayer, GotoTyped DEF GMEndGame, Pc
  <2>2. /\ 0 \in Int /\ game \in Game /\ "none" \in Team \cup {"none"}
        /\ "GM_END" \in {"none", "CORRECT", "NO_WINNER", "GM_END"}
    OBVIOUS
  <2>3. game' = [game EXCEPT !.phase = "VOTING", !.left = 0,
                             !.winner = "none", !.reason = "GM_END"]
    BY <1>6 DEF GMEndGame
  <2>4. game' \in Game
    BY <2>2, <2>3, ResultTyped, Zenon
  <2> QED
    BY <1>6, <2>1, <2>4 DEF GMEndGame
<1>7. CASE GMEndRoom
  <2>1. Kept'
    BY <1>7, GMIsPlayer, ReturnTyped DEF GMEndRoom
  <2> QED
    BY <1>7, <2>1 DEF GMEndRoom
<1> QED
  BY <1>1, <1>2, <1>3, <1>4, <1>5, <1>6, <1>7, <1>8

\* No step of the game leaves the types.
LEMMA TypedStep == Typed /\ [Next]_vars => Typed'
<1> SUFFICES ASSUME Typed, [Next]_vars PROVE Typed'
  OBVIOUS
<1>1. ASSUME NEW p \in Player, BeginTick(p) \/ BeginDraw(p) \/ BeginGuess(p)
      PROVE  Typed'
  BY <1>1, BeginTyped DEF BeginTick, BeginDraw, BeginGuess
<1>2. ASSUME NEW p \in Player, Step(p) PROVE Typed'
  BY <1>2, AdvanceTyped, PlayTyped, EndTyped DEF Step
<1>3. CASE BeginGMEnd \/ GMStep
  BY <1>3, EndTyped DEF GMStep
<1>4. CASE ClockTick
  BY <1>4, ConfigAssumption DEF ClockTick, Typed, TypeOK, Game, DrawPending
<1>5. CASE UNCHANGED vars
  BY <1>5 DEF vars, Typed, TypeOK, DrawPending
<1> QED
  BY <1>1, <1>2, <1>3, <1>4, <1>5 DEF Next, RejectedAfterEnd

\* Every variable keeps its type: in particular the budgets stay between 0
\* and the stroke limit and no round number passes max_rounds.
THEOREM TypeCorrect == Spec => []TypeOK
<1>1. Spec => []Typed
  BY InitTyped, TypedStep, PTL DEF Spec
<1>2. Typed => TypeOK
  BY DEF Typed
<1> QED
  BY <1>1, <1>2, PTL

-----------------------------------------------------------------------------
(***************************************************************************)
(* The game is scored once.                                                *)
(***************************************************************************)
Ending == {"award", "pay", "end_game", "end_room"}

\* Only the request of p moved, from r to r'.
OnlyMoved(p) == \A q \in Player : q # p => req'[q] = req[q]

\* What the ways of moving on leave in the request of p.
LEMMA Moves ==
  ASSUME Typed, NEW p \in Player
  PROVE  /\ \A pc : Goto(p, pc) =>
              /\ OnlyMoved(p)
              /\ req'[p].pc = pc /\ req'[p].pend = req[p].pend
              /\ req'[p].round = req[p].round
         /\ Return(p) => OnlyMoved(p) /\ req'[p] = Idle
         /\ \A tr : WillEnter(p, tr) =>
              /\ OnlyMoved(p)
              /\ req'[p].pc = "transition" /\ req'[p].pend = tr
              /\ req'[p].round = 0
         /\ \A owed : Owe(p, owed) =>
              /\ OnlyMoved(p)
              /\ req'[p].pc = IF owed = {} THEN "end_game" ELSE "pay"
              /\ req'[p].owed = owed
              /\ req'[p].pend = req[p].pend /\ req'[p].round = req[p].round
         /\ Idle.pc = "idle" /\ Idle.pend = NoTransition /\ Idle.round = 0
<1> USE DEF Typed, TypeOK, OnlyMoved, Request
<1>1. ASSUME NEW pc, Goto(p, pc)
      PROVE  /\ OnlyMoved(p)
             /\ req'[p].pc = pc /\ req'[p].pend = req[p].pend
             /\ req'[p].round = req[p].round
  BY <1>1 DEF Goto
<1>2. Return(p) => OnlyMoved(p) /\ req'[p] = Idle
  BY DEF Return
<1>3. ASSUME NEW tr, WillEnter(p, tr)
      PROVE  /\ OnlyMoved(p)
             /\ req'[p].pc = "transition" /\ req'[p].pend = tr
             /\ req'[p].round = 0
  BY <1>3 DEF WillEnter, Idle
<1>4. Idle.pc = "idle" /\ Idle.pend = NoTransition /\ Idle.round = 0
  BY DEF Idle
<1>5. ASSUME NEW owed, Owe(p, owed)
      PROVE  /\ OnlyMoved(p)
             /\ req'[p].pc = IF owed = {} THEN "end_game" ELSE "pay"
             /\ req'[p].owed = owed
             /\ req'[p].pend = req[p].pend /\ req'[p].round = req[p].round
  BY <1>5 DEF Owe
<1> QED
  BY <1>1, <1>2, <1>3, <1>4, <1>5

\* Where auto_advance_vs_phase leaves the request once it has read the game.
LEMMA AdvanceMoves ==
  ASSUME Typed, NEW p \in Player, Advance(p)
  PROVE  /\ OnlyMoved(p)
         /\ req'[p].pc \in {"enter_guess", "enter_draw", "end_check",
                            "advance_draw", "no_guess", "idle"}
         /\ req'[p].pend \in {game.trans, NoTransition, req[p].pend}
         /\ req'[p].round \in {0, req[p].round}
<1> USE DEF Typed, TypeOK, OnlyMoved, Request
<1>1. ASSUME NEW next \in {"GUESS", "DRAW", "GAME_END"},
             req' = [req EXCEPT ![p] = [Idle EXCEPT !.pc = Enter(next),
                                                   !.pend = game.trans]]
      PROVE  /\ OnlyMoved(p)
             /\ req'[p].pc \in {"enter_guess", "enter_draw", "end_check"}
             /\ req'[p].pend = game.trans
             /\ req'[p].round = 0
  <2>1. Enter(next) \in {"enter_guess", "enter_draw", "end_check"}
    BY DEF Enter
  <2> QED
    BY <1>1, <2>1 DEF Idle
<1>2. CASE req' = [req EXCEPT ![p] = [Idle EXCEPT !.pc = "advance_draw",
                                                 !.due = Due(p)]]
  BY <1>2 DEF Idle
<1>3. CASE req' = [req EXCEPT ![p].pc = "no_guess", ![p].guess = game.guess]
  BY <1>3
<1>4. CASE Return(p)
  BY <1>4 DEF Return, Idle
<1> QED
  BY <1>1, <1>2, <1>3, <1>4 DEF Advance

\* The step of a request outside the locked part of end_vs_game.
LEMMA QuietScoring ==
  ASSUME Typed, Scoring, NEW p \in Player, OnlyMoved(p),
         req[p].pc \notin Ending, req'[p].pc \notin Ending,
         points' = points, lock' = lock,
         room'.state = room.state \/ room'.state = "GAME_END"
  PROVE  Scoring'
<1> USE DEF Scoring, OnlyMoved, Ending
<1>1. Paid' = Paid
  BY DEF Paid
<1>2. EnderHoldsLock'
  BY DEF EnderHoldsLock
<1>3. PaidThenEnded'
  BY <1>1 DEF PaidThenEnded
<1>4. ScoredOnce'
  BY <1>1 DEF ScoredOnce
<1>5. PaidInTurn'
  BY <1>1 DEF PaidInTurn, Creditors
<1> QED
  BY <1>2, <1>3, <1>4, <1>5

\* The requests that stay outside it, one action at a time.
LEMMA OutsideScoring ==
  ASSUME Typed, Scoring, NEW p \in Player,
         \/ BeginTick(p) \/ BeginDraw(p) \/ BeginGuess(p)
         \/ Advance(p) \/ AdvanceDraw(p) \/ NoGuess(p) \/ EnterTransition(p)
         \/ EnterGuess(p) \/ EnterDraw(p) \/ Refill(p) \/ SetRound(p)
         \/ DrawRead(p) \/ Stroke(p) \/ GuessRead(p) \/ GuessWrite(p)
  PROVE  Scoring'
<1> USE Moves, QuietScoring DEF Ending
<1>1. ASSUME NEW pc \in {"advance", "draw", "guess"}, Begin(p, pc) PROVE Scoring'
  <2>1. OnlyMoved(p) /\ req[p].pc = "idle" /\ req'[p].pc = pc
    BY <1>1 DEF Begin, OnlyMoved, Idle, Typed, TypeOK
  <2> QED
    BY <1>1, <2>1 DEF Begin
<1>2. CASE Advance(p)
  BY <1>2, AdvanceMoves DEF Advance
<1>3. CASE AdvanceDraw(p)
  BY <1>3 DEF AdvanceDraw
<1>4. CASE NoGuess(p)
  BY <1>4 DEF NoGuess
<1>5. CASE EnterTransition(p)
  BY <1>5 DEF EnterTransition
<1>6. CASE EnterGuess(p)
  BY <1>6 DEF EnterGuess
<1>7. CASE EnterDraw(p)
  BY <1>7 DEF EnterDraw
<1>8. CASE Refill(p)
  BY <1>8 DEF Refill
<1>9. CASE SetRound(p)
  <2>1. room'.state = room.state
    BY <1>9 DEF SetRound, Typed, TypeOK
  <2> QED
    BY <1>9, <2>1 DEF SetRound
<1>10. CASE DrawRead(p)
  BY <1>10 DEF DrawRead
<1>11. CASE Stroke(p)
  BY <1>11 DEF Stroke
<1>12. CASE GuessRead(p)
  <2>1. OnlyMoved(p) /\ req'[p].pc \in {"idle", "advance", "guess_write"}
    BY <1>12 DEF GuessRead, OnlyMoved, Typed, TypeOK, Request
  <2> QED
    BY <1>12, <2>1 DEF GuessRead
<1>13. CASE GuessWrite(p)
  BY <1>13 DEF GuessWrite
<1> QED
  BY <1>1, <1>2, <1>3, <1>4, <1>5, <1>6, <1>7, <1>8, <1>9, <1>10, <1>11,
     <1>12, <1>13 DEF BeginTick, BeginDraw, BeginGuess

\* The locked part of end_vs_game.
LEMMA EndScoring ==
  ASSUME Typed, Scoring, NEW p \in Player,
         EndCheck(p) \/ Award(p) \/ Pay(p) \/ EndGame(p) \/ EndRoom(p)
  PROVE  Scoring'
<1> USE Moves DEF OnlyMoved
<1>0. ASSUME req[p].pc \in Ending
      PROVE  lock = p /\ \A q \in Player : q # p => req[q].pc \notin Ending
  BY <1>0 DEF Scoring, EnderHoldsLock, Ending
<1>1. CASE EndCheck(p)
  <2>1. CASE room.state = "IN_GAME"
    <3>1. /\ lock = Nobody /\ lock' = p /\ points' = points /\ room' = room
          /\ OnlyMoved(p) /\ req'[p].pc = "award"
      BY <1>1, <2>1 DEF EndCheck
    <3>2. \A q \in Player : req[q].pc \notin Ending
      BY <3>1, RolesAssumption DEF Scoring, EnderHoldsLock, Ending
    <3>3. Paid = {}
      BY <2>1, <3>1, <3>2 DEF Scoring, PaidThenEnded, Ending
    <3>4. Paid' = {}
      BY <3>1, <3>3 DEF Paid
    <3> QED
      BY <3>1, <3>2, <3>4
         DEF Scoring, EnderHoldsLock, PaidInTurn, PaidThenEnded, ScoredOnce, Ending
  <2>2. CASE room.state # "IN_GAME"
    BY <1>1, <2>2, QuietScoring DEF EndCheck, Ending
  <2> QED
    BY <2>1, <2>2
<1>2. CASE Award(p)
  <2>1. /\ req[p].pc = "award" /\ OnlyMoved(p)
        /\ req'[p].pc = IF Creditors(p) = {} THEN "end_game" ELSE "pay"
        /\ req'[p].owed = Creditors(p) /\ req'[p].pend = req[p].pend
        /\ lock' = lock /\ room' = room /\ Paid' = Paid /\ points' = points
    BY <1>2 DEF Award, Creditors, Paid
  <2>2. lock = p /\ \A q \in Player : q # p => req[q].pc \notin Ending
    BY <1>0, <2>1 DEF Ending
  <2>3. Paid = {} /\ Creditors(p)' = Creditors(p)
    BY <2>1 DEF Scoring, PaidInTurn, Creditors
  <2>4. EnderHoldsLock' /\ PaidInTurn'
    BY <2>1, <2>2, <2>3 DEF EnderHoldsLock, PaidInTurn, Ending
  <2> QED
    BY <2>1, <2>3, <2>4 DEF Scoring, PaidThenEnded, ScoredOnce
<1>3. CASE Pay(p)
  <2>1. PICK q \in req[p].owed : /\ points' = [points EXCEPT ![q] = @ + 1]
                                 /\ Owe(p, req[p].owed \ {q})
    BY <1>3 DEF Pay
  <2> DEFINE left == req[p].owed \ {q}
  <2>2. /\ req[p].pc = "pay" /\ OnlyMoved(p)
        /\ req'[p].pc = IF left = {} THEN "end_game" ELSE "pay"
        /\ req'[p].owed = left /\ req'[p].pend = req[p].pend
        /\ lock' = lock /\ room' = room
    BY <1>3, <2>1 DEF Pay
  <2>3. lock = p /\ \A r \in Player : r # p => req[r].pc \notin Ending
    BY <1>0, <2>2 DEF Ending
  <2>4. /\ req[p].owed \subseteq Creditors(p)
        /\ Paid = Creditors(p) \ req[p].owed
        /\ Creditors(p)' = Creditors(p)
    BY <2>2 DEF Scoring, PaidInTurn, Creditors
  <2>5. q \in Player /\ q \notin Paid /\ points \in [Player -> Nat]
    BY <2>4 DEF Typed, TypeOK, Request
  <2>6. points[q] = 0
    BY <2>5 DEF Paid
  <2>7. /\ Paid' = Paid \cup {q}
        /\ \A r \in Player : points'[r] = IF r = q THEN 1 ELSE points[r]
    BY <2>1, <2>5, <2>6 DEF Paid
  <2>8. Paid' = Creditors(p)' \ left
    BY <2>4, <2>7
  <2>9. EnderHoldsLock' /\ PaidInTurn'
    BY <2>2, <2>3, <2>4, <2>8 DEF EnderHoldsLock, PaidInTurn, Ending
  <2>10. PaidThenEnded'
    BY <2>2, <2>3 DEF PaidThenEnded
  <2>11. Paid' \subseteq Creditors(p)
    BY <2>4, <2>8
  <2>12. ScoredOnce'
    BY <2>7, <2>11, WinnersOfOneSide DEF Creditors, Scoring, ScoredOnce
  <2> QED
    BY <2>9, <2>10, <2>12 DEF Scoring
<1>4. CASE EndGame(p)
  <2>1. /\ req[p].pc = "end_game" /\ OnlyMoved(p) /\ req'[p].pc = "end_room"
        /\ req'[p].pend = req[p].pend
        /\ lock' = lock /\ room' = room /\ Paid' = Paid /\ points' = points
    BY <1>4 DEF EndGame, Paid
  <2>2. lock = p /\ \A q \in Player : q # p => req[q].pc \notin Ending
    BY <1>0, <2>1 DEF Ending
  <2> QED
    BY <2>1, <2>2 DEF Scoring, EnderHoldsLock, PaidInTurn, Creditors, PaidThenEnded,
                      ScoredOnce, Ending
<1>5. CASE EndRoom(p)
  <2>1. /\ req[p].pc = "end_room" /\ OnlyMoved(p) /\ req'[p].pc = "idle"
        /\ room'.state = "GAME_END" /\ Paid' = Paid /\ points' = points
    BY <1>5 DEF EndRoom, Paid, Typed, TypeOK
  <2>2. \A q \in Player : q # p => req[q].pc \notin Ending
    BY <1>0, <2>1 DEF Ending
  <2> QED
    BY <2>1, <2>2 DEF Scoring, EnderHoldsLock, PaidInTurn, PaidThenEnded, ScoredOnce,
                      Ending
<1> QED
  BY <1>1, <1>2, <1>3, <1>4, <1>5

\* No step scores a game twice, the lock and the check under it see to that.
LEMMA ScoringStep == Typed /\ Scoring /\ [Next]_vars => Scoring'
<1> SUFFICES ASSUME Typed, Scoring, [Next]_vars PROVE Scoring'
  OBVIOUS
<1>1. ASSUME NEW p \in Player, BeginTick(p) \/ BeginDraw(p) \/ BeginGuess(p)
      PROVE  Scoring'
  BY <1>1, OutsideScoring
<1>2. ASSUME NEW p \in Player, Step(p) PROVE Scoring'
  BY <1>2, OutsideScoring, EndScoring DEF Step
<1>3. CASE BeginGMEnd
  BY <1>3, Moves, GMIsPlayer, QuietScoring DEF BeginGMEnd, Ending
<1>4. CASE GMEndGame
  BY <1>4, Moves, GMIsPlayer, QuietScoring DEF GMEndGame, Ending
<1>5. CASE GMEndRoom
  <2>1. room'.state = "GAME_END"
    BY <1>5 DEF GMEndRoom, Typed, TypeOK
  <2> QED
    BY <1>5, <2>1, Moves, GMIsPlayer, QuietScoring DEF GMEndRoom, Ending
<1>6. CASE ClockTick
  BY <1>6 DEF ClockTick, Scoring, EnderHoldsLock, PaidInTurn, Creditors,
              PaidThenEnded, ScoredOnce, Paid
<1>7. CASE UNCHANGED vars
  BY <1>7 DEF vars, Scoring, EnderHoldsLock, PaidInTurn, Creditors, PaidThenEnded,
              ScoredOnce, Paid
<1> QED
  BY <1>1, <1>2, <1>3, <1>4, <1>5, <1>6, <1>7 DEF Next, GMStep, RejectedAfterEnd

\* The invariant holds throughout a game.
LEMMA AlwaysScoring == Spec => [](Typed /\ Scoring)
<1>1. Init => Scoring
  BY DEF Init, Scoring, EnderHoldsLock, PaidInTurn, PaidThenEnded, ScoredOnce, Paid,
         Idle
<1> QED
  BY <1>1, InitTyped, TypedStep, ScoringStep, PTL DEF Spec

\* end_vs_game pays once, whatever number of ticks find the end due and
\* whenever the GameMaster ends the game as well.
THEOREM GameScoredOnce == Spec => []ScoredOnce
<1>1. Scoring => ScoredOnce
  BY DEF Scoring
<1> QED
  BY <1>1, AlwaysScoring, PTL

\* No step takes a point back or names winners who have not been paid.
LEMMA ShownStep == Typed /\ Scoring /\ WinnersPaid /\ [Next]_vars => WinnersPaid'
<1> SUFFICES ASSUME Typed, Scoring, WinnersPaid, [Next]_vars PROVE WinnersPaid'
  OBVIOUS
<1>1. Paid \subseteq Paid'
  <2>1. ASSUME NEW p \in Player, Pay(p) PROVE Paid \subseteq Paid'
    <3>1. PICK q \in req[p].owed : points' = [points EXCEPT ![q] = @ + 1]
      BY <2>1 DEF Pay
    <3>2. \A r \in Player : points[r] \in Nat /\ points'[r] \in {points[r], points[r] + 1}
      BY <3>1 DEF Typed, TypeOK
    <3>3. \A r \in Player : points[r] > 0 => points'[r] > 0
      BY <3>2
    <3> QED
      BY <3>3 DEF Paid
  <2>2. CASE \A p \in Player : ~Pay(p)
    <3>1. points' = points
      BY <2>2 DEF Next, Step, GMStep, vars, BeginTick, BeginDraw, BeginGuess, Begin,
         RejectedAfterEnd, Advance, AdvanceDraw, NoGuess, EnterTransition, EnterGuess,
         EnterDraw, Refill, SetRound, DrawRead, Stroke, GuessRead, GuessWrite,
         EndCheck, Award, EndGame, EndRoom, BeginGMEnd, GMEndGame, GMEndRoom, ClockTick
    <3> QED
      BY <3>1 DEF Paid
  <2> QED
    BY <2>1, <2>2
<1>2. ASSUME game'.winner = game.winner, game'.reason = game.reason
      PROVE  WinnersPaid'
  BY <1>1, <1>2 DEF WinnersPaid
<1>3. ASSUME game'.winner = "none", game'.reason \in {"none", "GM_END"}
      PROVE  WinnersPaid'
  BY <1>3 DEF WinnersPaid, Winners, Team
<1>4. ASSUME NEW p \in Player, EndGame(p) PROVE WinnersPaid'
  <2>1. /\ game'.winner = req[p].pend.winner /\ game'.reason = req[p].pend.reason
        /\ Paid' = Paid
    BY <1>4 DEF EndGame, Typed, TypeOK, Game, Paid
  <2>2. Paid = Creditors(p)
    BY <1>4 DEF EndGame, Scoring, PaidInTurn
  <2> QED
    BY <2>1, <2>2 DEF WinnersPaid, Creditors
<1>5. ASSUME NEW p \in Player, EnterDraw(p) PROVE WinnersPaid'
  BY <1>3, <1>5 DEF EnterDraw, Typed, TypeOK, Game
<1>6. CASE GMEndGame
  BY <1>3, <1>6 DEF GMEndGame, Typed, TypeOK, Game
<1>7. ASSUME NEW p \in Player,
             \/ NoGuess(p) \/ EnterTransition(p) \/ EnterGuess(p) \/ GuessWrite(p)
             \/ ClockTick
      PROVE  WinnersPaid'
  BY <1>2, <1>7 DEF NoGuess, EnterTransition, EnterGuess, GuessWrite, ClockTick, Typed,
                    TypeOK, Game
<1>8. ASSUME NEW p \in Player,
             \/ BeginTick(p) \/ BeginDraw(p) \/ BeginGuess(p) \/ RejectedAfterEnd(p)
             \/ Advance(p) \/ AdvanceDraw(p) \/ Refill(p) \/ SetRound(p)
             \/ DrawRead(p) \/ Stroke(p) \/ GuessRead(p)
             \/ EndCheck(p) \/ Award(p) \/ Pay(p) \/ EndRoom(p)
             \/ BeginGMEnd \/ GMEndRoom \/ UNCHANGED vars
      PROVE  WinnersPaid'
  BY <1>2, <1>8 DEF vars, BeginTick, BeginDraw, BeginGuess, Begin, RejectedAfterEnd,
     Advance, AdvanceDraw, Refill, SetRound, DrawRead, Stroke, GuessRead, EndCheck,
     Award, Pay, EndRoom, BeginGMEnd, GMEndRoom
<1> QED
  BY <1>4, <1>5, <1>6, <1>7, <1>8, GMIsPlayer DEF Next, Step, GMStep

\* The winners the room is shown have all been paid, however the points of the
\* team and the GameMaster's end_game interleave.
THEOREM WinnersAlwaysPaid == Spec => []WinnersPaid
<1>1. Init => WinnersPaid
  BY DEF Init, WinnersPaid, Winners, Team
<1> QED
  BY <1>1, AlwaysScoring, ShownStep, PTL DEF Spec

-----------------------------------------------------------------------------
(***************************************************************************)
(* Who is paid has earned it.                                              *)
(***************************************************************************)
\* What the step of a request p has to show to keep Honest.
LEMMA HonestKept ==
  ASSUME Typed, Typed', Honest, NEW p \in Player, OnlyMoved(p),
         points' = points, hits \subseteq hits', top <= top',
         Sound(game'.trans, hits', top'), Sound(req'[p].pend, hits', top'),
         req'[p].round <= top', room'.round_no <= top'
  PROVE  Honest'
<1> USE DEF Typed, TypeOK, Honest, HonestPending
<1>1. \A tr : Sound(tr, hits, top) => Sound(tr, hits', top')
  BY ConfigAssumption DEF Sound
<1>2. HonestPending'
  <2>1. ASSUME NEW q \in Player
        PROVE  Sound(req'[q].pend, hits', top') /\ req'[q].round <= top'
    <3>1. CASE q = p
      BY <3>1
    <3>2. CASE q # p
      <4>1. req'[q] = req[q] /\ req[q].round \in 0..MaxRounds
        BY <3>2 DEF OnlyMoved, Request
      <4> QED
        BY <1>1, <4>1, ConfigAssumption
    <3> QED
      BY <3>1, <3>2
  <2> QED
    BY <2>1
<1>3. PaidTeamGuessed'
  BY DEF PaidTeamGuessed, Paid
<1>4. NoWinnerOnlyAfterLastRound'
  BY ConfigAssumption DEF NoWinnerOnlyAfterLastRound, Paid
<1> QED
  BY <1>2, <1>3, <1>4

\* The transitions the code composes say what is the case when it does.
LEMMA SoundTransitions ==
  /\ \A h, n : Sound(NoTransition, h, n) /\ Sound(ToGuess, h, n)
  /\ \A h : \A n \in 1..MaxRounds : \A rd \in 0..MaxRounds :
       rd <= n => Sound(AfterLostRound(rd), h, n)
  /\ \A h, n : \A t \in h : Sound(To("GAME_END", 0, "CORRECT", t), h, n)
<1>1. \A h, n : Sound(NoTransition, h, n) /\ Sound(ToGuess, h, n)
  BY DEF Sound, NoTransition, ToGuess, To
<1>2. ASSUME NEW h, NEW n \in 1..MaxRounds, NEW rd \in 0..MaxRounds, rd <= n
      PROVE  Sound(AfterLostRound(rd), h, n)
  BY <1>2, ConfigAssumption DEF Sound, AfterLostRound, To
<1>3. \A h, n : \A t \in h : Sound(To("GAME_END", 0, "CORRECT", t), h, n)
  BY DEF Sound, To
<1> QED
  BY <1>1, <1>2, <1>3

\* The steps of ticks, strokes and guesses pass on only what is the case.
LEMMA HonestRequests ==
  ASSUME Typed, Typed', Honest, NEW p \in Player,
         \/ BeginTick(p) \/ BeginDraw(p) \/ BeginGuess(p)
         \/ Advance(p) \/ AdvanceDraw(p) \/ NoGuess(p) \/ EnterTransition(p)
         \/ EnterGuess(p) \/ EnterDraw(p) \/ Refill(p) \/ SetRound(p)
         \/ DrawRead(p) \/ Stroke(p) \/ GuessRead(p) \/ GuessWrite(p)
  PROVE  Honest'
<1>0. /\ Sound(game.trans, hits, top) /\ Sound(req[p].pend, hits, top)
      /\ req[p].round <= top /\ room.round_no <= top
      /\ req[p].round \in 0..MaxRounds /\ top \in 1..MaxRounds /\ 0 <= top
      /\ game \in Game /\ req[p].guess \in Guesses
  BY ConfigAssumption DEF Honest, HonestPending, Typed, TypeOK, Request
<1> USE Moves, HonestKept, SoundTransitions
<1>1. ASSUME NEW pc \in {"advance", "draw", "guess"}, Begin(p, pc) PROVE Honest'
  <2>1. OnlyMoved(p) /\ req'[p].round = room.round_no /\ req'[p].pend = NoTransition
    BY <1>1 DEF Begin, OnlyMoved, Idle, Typed, TypeOK
  <2>2. room' = room /\ top' = top /\ hits' = hits /\ points' = points /\ game' = game
    BY <1>1 DEF Begin
  <2> QED
    BY <1>0, <2>1, <2>2
<1>2. CASE Advance(p)
  <2>1. room' = room /\ top' = top /\ hits' = hits /\ points' = points /\ game' = game
    BY <1>2 DEF Advance
  <2> QED
    BY <1>0, <1>2, <2>1, AdvanceMoves
<1>3. CASE AdvanceDraw(p)
  BY <1>0, <1>3 DEF AdvanceDraw
<1>4. CASE NoGuess(p)
  <2>1. game'.trans = game.trans
    BY <1>0, <1>4 DEF NoGuess, Game
  <2> QED
    BY <1>0, <1>4, <2>1 DEF NoGuess
<1>5. CASE EnterTransition(p)
  <2>1. game'.trans = req[p].pend
    BY <1>0, <1>5 DEF EnterTransition, Game
  <2> QED
    BY <1>0, <1>5, <2>1 DEF EnterTransition
<1>6. CASE EnterGuess(p)
  <2>1. game'.trans = NoTransition
    BY <1>0, <1>6 DEF EnterGuess, Game
  <2> QED
    BY <1>0, <1>6, <2>1 DEF EnterGuess
<1>7. CASE EnterDraw(p)
  <2>1. game'.trans = NoTransition
    BY <1>0, <1>7 DEF EnterDraw, Game
  <2> QED
    BY <1>0, <1>7, <2>1 DEF EnterDraw
<1>8. CASE Refill(p)
  BY <1>0, <1>8 DEF Refill
<1>9. CASE SetRound(p)
  <2>1. /\ top <= top' /\ room'.round_no <= top' /\ 0 <= top'
        /\ room'.round_no \in 1..MaxRounds /\ top' \in 1..MaxRounds
    BY <1>0, <1>9, ConfigAssumption DEF SetRound, Typed, TypeOK
  <2>2. \A tr : Sound(tr, hits, top) => Sound(tr, hits, top')
    BY <1>0, <2>1, ConfigAssumption DEF Sound
  <2>3. OnlyMoved(p) /\ req'[p].pend = NoTransition /\ req'[p].round = 0
    BY <1>9 DEF SetRound
  <2> QED
    BY <1>0, <1>9, <2>1, <2>2, <2>3 DEF SetRound
<1>10. CASE DrawRead(p)
  BY <1>0, <1>10 DEF DrawRead
<1>11. CASE Stroke(p)
  BY <1>0, <1>11 DEF Stroke
<1>12. CASE GuessRead(p)
  <2>1. /\ OnlyMoved(p)
        /\ req'[p].pend \in {NoTransition, req[p].pend}
        /\ req'[p].round \in {0, req[p].round}
    BY <1>12 DEF GuessRead, OnlyMoved, Typed, TypeOK, Request
  <2> QED
    BY <1>0, <1>12, <2>1 DEF GuessRead
<1>13. CASE GuessWrite(p)
  <2>1. game'.trans = game.trans
    BY <1>0, <1>13 DEF GuessWrite, Game
  <2>2. /\ hits \subseteq hits'
        /\ OnlyMoved(p) /\ req'[p].round <= top
        /\ Sound(req'[p].pend, hits', top)
    BY <1>0, <1>13 DEF GuessWrite
  <2>3. Sound(game.trans, hits', top)
    BY <1>0, <2>2 DEF Sound
  <2> QED
    BY <1>0, <1>13, <2>1, <2>2, <2>3 DEF GuessWrite
<1> QED
  BY <1>1, <1>2, <1>3, <1>4, <1>5, <1>6, <1>7, <1>8, <1>9, <1>10, <1>11,
     <1>12, <1>13 DEF BeginTick, BeginDraw, BeginGuess

\* end_vs_game pays what its transition says.
LEMMA HonestEnd ==
  ASSUME Typed, Typed', Scoring, Honest, NEW p \in Player,
         EndCheck(p) \/ Award(p) \/ Pay(p) \/ EndGame(p) \/ EndRoom(p)
  PROVE  Honest'
<1>0. /\ Sound(game.trans, hits, top) /\ Sound(req[p].pend, hits, top)
      /\ req[p].round <= top /\ room.round_no <= top
      /\ req[p].round \in 0..MaxRounds /\ top \in 1..MaxRounds /\ 0 <= top
      /\ game \in Game
  BY ConfigAssumption DEF Honest, HonestPending, Typed, TypeOK, Request
<1> USE Moves, HonestKept, SoundTransitions
<1>1. CASE EndCheck(p)
  BY <1>0, <1>1 DEF EndCheck
<1>2. CASE Award(p)
  BY <1>0, <1>2 DEF Award
<1>5. CASE Pay(p)
  <2>1. PICK q \in req[p].owed : /\ points' = [points EXCEPT ![q] = @ + 1]
                                 /\ Owe(p, req[p].owed \ {q})
    BY <1>5 DEF Pay
  <2>2. /\ OnlyMoved(p) /\ req'[p].pend = req[p].pend /\ req'[p].round = req[p].round
        /\ game' = game /\ room' = room /\ hits' = hits /\ top' = top
    BY <1>5, <2>1 DEF Pay
  <2>3. HonestPending'
    BY <2>2 DEF Honest, HonestPending, OnlyMoved
  <2>4. q \in Creditors(p)
    BY <1>5 DEF Pay, Scoring, PaidInTurn
  <2>5. Paid' \subseteq Paid \cup {q}
    BY <2>1 DEF Paid, Typed, TypeOK
  <2>6. \A t \in Team : q \in Members(t) => t \in hits
    BY <1>0, <2>4, RolesAssumption DEF Creditors, Winners, Sound, Team
  <2>7. GM = q => top = MaxRounds
    BY <1>0, <2>4, RolesAssumption DEF Creditors, Winners, Sound, Team
  <2>8. PaidTeamGuessed'
    BY <2>2, <2>5, <2>6 DEF Honest, PaidTeamGuessed
  <2>9. NoWinnerOnlyAfterLastRound'
    BY <2>2, <2>5, <2>7 DEF Honest, NoWinnerOnlyAfterLastRound
  <2> QED
    BY <2>3, <2>8, <2>9 DEF Honest
<1>3. CASE EndGame(p)
  <2>1. game'.trans = NoTransition
    BY <1>0, <1>3 DEF EndGame, Game
  <2> QED
    BY <1>0, <1>3, <2>1 DEF EndGame
<1>4. CASE EndRoom(p)
  <2>1. room'.round_no = room.round_no
    BY <1>4 DEF EndRoom, Typed, TypeOK
  <2> QED
    BY <1>0, <1>4, <2>1 DEF EndRoom
<1> QED
  BY <1>1, <1>2, <1>3, <1>4, <1>5

\* No step makes a transition, or a payment, claim what is not the case.
LEMMA HonestStep == Typed /\ Typed' /\ Scoring /\ Honest /\ [Next]_vars => Honest'
<1> SUFFICES ASSUME Typed, Typed', Scoring, Honest, [Next]_vars PROVE Honest'
  OBVIOUS
<1>1. ASSUME NEW p \in Player, BeginTick(p) \/ BeginDraw(p) \/ BeginGuess(p)
      PROVE  Honest'
  BY <1>1, HonestRequests
<1>2. ASSUME NEW p \in Player, Step(p) PROVE Honest'
  BY <1>2, HonestRequests, HonestEnd DEF Step
<1>3. CASE BeginGMEnd \/ GMStep
  <2>1. /\ OnlyMoved(GM) /\ points' = points /\ hits' = hits /\ top' = top
        /\ req'[GM].pend \in {req[GM].pend, NoTransition}
        /\ req'[GM].round \in {0, req[GM].round}
    BY <1>3, GMIsPlayer, Moves DEF BeginGMEnd, GMStep, GMEndGame, GMEndRoom
  <2>2. room'.round_no = room.round_no /\ game'.trans = game.trans
    BY <1>3 DEF BeginGMEnd, GMStep, GMEndGame, GMEndRoom, Typed, TypeOK, Game
  <2>3. /\ Sound(game.trans, hits, top) /\ Sound(req[GM].pend, hits, top)
        /\ req[GM].round <= top /\ room.round_no <= top /\ 0 <= top /\ top <= top
    BY GMIsPlayer, ConfigAssumption DEF Honest, HonestPending, Typed, TypeOK
  <2> QED
    BY <2>1, <2>2, <2>3, GMIsPlayer, HonestKept, SoundTransitions
<1>4. CASE ClockTick
  <2>1. game'.trans = game.trans
    BY <1>4 DEF ClockTick, Typed, TypeOK, Game
  <2> QED
    BY <1>4, <2>1 DEF ClockTick, Honest, HonestPending, PaidTeamGuessed,
                      NoWinnerOnlyAfterLastRound, Paid
<1>5. CASE UNCHANGED vars
  BY <1>5 DEF vars, Honest, HonestPending, PaidTeamGuessed,
              NoWinnerOnlyAfterLastRound, Paid
<1> QED
  BY <1>1, <1>2, <1>3, <1>4, <1>5 DEF Next, RejectedAfterEnd

\* What is on the screen and on its way is the case throughout a game.
LEMMA AlwaysHonest == Spec => []Honest
<1>1. Init => Honest
  <2> SUFFICES ASSUME Init PROVE Honest
    OBVIOUS
  <2>1. HonestPending
    BY SoundTransitions, ConfigAssumption DEF Init, HonestPending, Idle
  <2> QED
    BY <2>1 DEF Init, Honest, PaidTeamGuessed, NoWinnerOnlyAfterLastRound, Paid
<1> QED
  BY <1>1, AlwaysScoring, TypedStep, HonestStep, PTL DEF Spec

\* A point goes to a team only for a correct guess of its own, also when
\* overlapping guesses overwrite each other's results.
THEOREM OnlyGuessersPaid == Spec => []PaidTeamGuessed
<1>1. Honest => PaidTeamGuessed
  BY DEF Honest
<1> QED
  BY <1>1, AlwaysHonest, PTL

\* The GameMaster is paid for NO_WINNER only in a game that has reached its
\* last round, also when a tick acts on a header that is out of date.
THEOREM NoWinnerNeedsLastRound == Spec => []NoWinnerOnlyAfterLastRound
<1>1. Honest => NoWinnerOnlyAfterLastRound
  BY DEF Honest
<1> QED
  BY <1>1, AlwaysHonest, PTL

=============================================================================
