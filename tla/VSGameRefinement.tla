-------------------------- MODULE VSGameRefinement --------------------------
(***************************************************************************)
(* A VS game keeps the promises of GameResult, whatever the room, the      *)
(* bound on the rounds and the number of requests in flight.               *)
(***************************************************************************)
EXTENDS VSGameProofs

\* A step that GameResult does not see, or sees as the end of the game, a
\* correct guess or the last round.
LEMMA QuietStep ==
  ASSUME points' = points, hits' = hits, top' = top, room'.state = room.state
  PROVE  UNCHANGED Outcome!vars
  BY DEF Outcome!vars

LEMMA CloseStep ==
  ASSUME points' = points, hits' = hits, top' = top, room'.state = "GAME_END"
  PROVE  Outcome!Close
  BY DEF Outcome!Close

LEMMA GuessStep ==
  ASSUME NEW t \in Team, points' = points, hits' = hits \cup {t}, top' = top,
         room'.state = room.state
  PROVE  Outcome!GuessedRight(t)
  BY DEF Outcome!GuessedRight

LEMMA RoundStep ==
  ASSUME Typed, Typed', points' = points, hits' = hits, room'.state = room.state,
         top' = top \/ top' > top
  PROVE  Outcome!RunOut \/ UNCHANGED Outcome!vars
<1>1. top \in 1..MaxRounds /\ top' \in 1..MaxRounds /\ MaxRounds \in Nat
  BY ConfigAssumption DEF Typed, TypeOK
<1>2. CASE top' = MaxRounds
  BY <1>2 DEF Outcome!RunOut
<1>3. CASE top' # MaxRounds
  <2>1. top # MaxRounds
    BY <1>1, <1>3
  <2> QED
    BY <1>3, <2>1 DEF Outcome!vars
<1> QED
  BY <1>2, <1>3

\* end_vs_game pays one more player of a side that has guessed right, or the
\* GameMaster.
LEMMA PayStep ==
  ASSUME Typed, Scoring, Honest, NEW p \in Player, Pay(p)
  PROVE  Outcome!Next
<1> DEFINE tr == req[p].pend
<1>1. PICK q \in req[p].owed : points' = [points EXCEPT ![q] = @ + 1]
  BY DEF Pay
<1>2. /\ req[p].owed \subseteq Creditors(p)
      /\ Paid = Creditors(p) \ req[p].owed
  BY DEF Pay, Scoring, PaidInTurn
<1>3. q \in Creditors(p) /\ points[q] = 0
  BY <1>1, <1>2 DEF Paid, Typed, TypeOK, Request
<1>4. ASSUME NEW W, Creditors(p) \subseteq W PROVE Outcome!Pay(q, W)
  <2>1. Paid \subseteq W
    BY <1>2, <1>4
  <2> QED
    BY <1>1, <1>3, <2>1 DEF Pay, Outcome!Pay, Outcome!Paid, Paid
<1>5. Sound(tr, hits, top)
  BY DEF Honest, HonestPending
<1>6. CASE tr.winner \in Team
  <2>1. tr.winner \in hits
    BY <1>5, <1>6 DEF Sound, Team
  <2>2. Creditors(p) \subseteq Members(tr.winner)
    BY <1>6 DEF Creditors, Winners
  <2>3. Members(tr.winner) = [t \in Team |-> Members(t)][tr.winner]
    BY <1>6
  <2>4. Outcome!PaySide(tr.winner)
    BY <1>3, <1>4, <2>1, <2>2, <2>3 DEF Outcome!PaySide
  <2> QED
    BY <2>4, <1>6 DEF Outcome!Next
<1>7. CASE tr.winner \notin Team
  <2>1. tr.reason = "NO_WINNER" /\ Creditors(p) = {GM}
    BY <1>3, <1>7 DEF Creditors, Winners
  <2>2. top = MaxRounds
    BY <1>5, <2>1 DEF Sound
  <2>3. Outcome!PayGM
    BY <1>3, <1>4, <2>1, <2>2 DEF Outcome!PayGM
  <2> QED
    BY <2>3 DEF Outcome!Next
<1> QED
  BY <1>6, <1>7

\* The other steps of a request.
LEMMA OtherSteps ==
  ASSUME Typed, Typed', NEW p \in Player, Step(p), ~Pay(p)
  PROVE  Outcome!Next \/ UNCHANGED Outcome!vars
<1>1. CASE \/ Advance(p) \/ AdvanceDraw(p) \/ NoGuess(p) \/ EnterTransition(p)
           \/ EnterGuess(p) \/ EnterDraw(p) \/ Refill(p)
           \/ DrawRead(p) \/ Stroke(p) \/ GuessRead(p)
           \/ EndCheck(p) \/ Award(p) \/ EndGame(p)
  <2>1. points' = points /\ hits' = hits /\ top' = top /\ room' = room
    BY <1>1 DEF Advance, AdvanceDraw, NoGuess, EnterTransition, EnterGuess,
                EnterDraw, Refill, DrawRead, Stroke, GuessRead, EndCheck, Award, EndGame
  <2> QED
    BY <2>1, QuietStep
<1>2. CASE SetRound(p)
  <2>1. /\ points' = points /\ hits' = hits /\ room'.state = room.state
        /\ top' = top \/ top' > top
    BY <1>2 DEF SetRound, Typed, TypeOK
  <2> QED
    BY <2>1, RoundStep DEF Outcome!Next
<1>3. CASE GuessWrite(p)
  <2>1. points' = points /\ top' = top /\ room' = room
    BY <1>3 DEF GuessWrite
  <2>2. hits' = hits \/ \E t \in Team : hits' = hits \cup {t}
    BY <1>3 DEF GuessWrite
  <2> QED
    BY <2>1, <2>2, QuietStep, GuessStep DEF Outcome!Next
<1>4. CASE EndRoom(p)
  <2>1. points' = points /\ hits' = hits /\ top' = top /\ room'.state = "GAME_END"
    BY <1>4 DEF EndRoom, Typed, TypeOK
  <2> QED
    BY <2>1, CloseStep DEF Outcome!Next
<1> QED
  BY <1>1, <1>2, <1>3, <1>4 DEF Step

\* Every step of a VS game is a step of GameResult or none that it sees.
LEMMA StepRefines ==
  Typed /\ Typed' /\ Scoring /\ Honest /\ [Next]_vars => [Outcome!Next]_Outcome!vars
<1> SUFFICES ASSUME Typed, Typed', Scoring, Honest, [Next]_vars
             PROVE  Outcome!Next \/ UNCHANGED Outcome!vars
  OBVIOUS
<1>1. ASSUME NEW p \in Player, BeginTick(p) \/ BeginDraw(p) \/ BeginGuess(p)
      PROVE  UNCHANGED Outcome!vars
  <2>1. points' = points /\ hits' = hits /\ top' = top /\ room' = room
    BY <1>1 DEF BeginTick, BeginDraw, BeginGuess, Begin
  <2> QED
    BY <2>1, QuietStep
<1>2. ASSUME NEW p \in Player, Step(p)
      PROVE  Outcome!Next \/ UNCHANGED Outcome!vars
  BY <1>2, PayStep, OtherSteps
<1>3. CASE BeginGMEnd \/ GMEndGame \/ ClockTick \/ UNCHANGED vars
  <2>1. points' = points /\ hits' = hits /\ top' = top /\ room' = room
    BY <1>3 DEF BeginGMEnd, GMEndGame, ClockTick, vars
  <2> QED
    BY <2>1, QuietStep
<1>4. CASE GMEndRoom
  <2>1. points' = points /\ hits' = hits /\ top' = top /\ room'.state = "GAME_END"
    BY <1>4 DEF GMEndRoom, Typed, TypeOK
  <2> QED
    BY <2>1, CloseStep DEF Outcome!Next
<1> QED
  BY <1>1, <1>2, <1>3, <1>4 DEF Next, GMStep, RejectedAfterEnd

\* A game that has just been started is one that nobody has won or lost yet,
\* unless it has one round only.
LEMMA InitRefines == Init => Outcome!Init
  BY DEF Init, Outcome!Init

\* The points of a VS game, the correct guesses, the rounds and the end of it
\* are at all times those of a game as GameResult promises it.
THEOREM ImplementsGameResult == Spec => ImplementsResult
  BY AlwaysScoring, AlwaysHonest, InitRefines, StepRefines, PTL
     DEF Spec, ImplementsResult, Outcome!Spec
=============================================================================
