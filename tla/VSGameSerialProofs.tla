------------------------- MODULE VSGameSerialProofs -------------------------
(***************************************************************************)
(* What the guides promise of a VS game, proved for a server that handles  *)
(* one request at a time (MaxInFlight = 1), whatever the room, the number  *)
(* of rounds, the strokes and the windows.  When handlers overlap each of  *)
(* these promises can be broken, which TLC shows for some of them.         *)
(***************************************************************************)
EXTENDS VSGameProofs, FiniteSetTheorems

(***************************************************************************)
(* The inductive invariant: at most the request of one player p is under   *)
(* way, and what it has read still holds.                                  *)
(***************************************************************************)
Only(p) == \A q \in Player : q # p => req[q].pc = "idle"

\* Requests that may still use the round_no they read.
Reading == {"advance", "draw", "stroke", "guess", "guess_write", "no_guess"}
\* Requests that are starting the next round, whose header is still to be written.
Starting == {"refill", "set_round"}

\* Round numbers go up by one; game hash and header have the same.
RoundsGood(p) ==
  /\ game.trans.next = "DRAW" => game.trans.round = game.round + 1
  /\ req[p].pc \notin Starting => room.round_no = game.round
  /\ req[p].pc \in Starting => req[p].pend.round = game.round
  /\ req[p].pc \in Reading => req[p].round = game.round
  /\ req[p].pc \in {"transition", "enter_draw"} /\ req[p].pend.next = "DRAW"
       => req[p].pend.round = game.round + 1

\* The strokes drawn in the round and those left are strokes_per_phase.
StrokesGood(p) ==
  \A t \in Team : IF req[p].pc = "refill" THEN used[t] = 0
                  ELSE used[t] + budget[t] = StrokeLimit

\* The results that are about to be written back are those of the game hash,
\* but for the guess of a team that has none yet.
GuessesGood(p) ==
  /\ req[p].pc = "no_guess" => req[p].guess = game.guess
  /\ req[p].pc = "guess_write" =>
       /\ game.phase = "GUESS"
       /\ \A t \in Team : p \in Guessers[t] =>
            /\ game.guess[t] = "none"
            /\ \A u \in Team : u # t => req[p].guess[u] = game.guess[u]

\* After a correct guess the game is on its way to end with it: it is about
\* to be shown, shown, or over, and nothing else is in flight.
WinGood(p) ==
  hits # {} =>
    /\ \/ req[p].pc \in {"idle", "advance", "draw", "guess", "gm_game", "gm_room"}
       \/ /\ req[p].pc \in {"transition", "end_check", "award", "pay", "end_game",
                            "end_room"}
          /\ req[p].pend.reason = "CORRECT"
    /\ \/ /\ game.phase = "GUESS"
          /\ req[p].pc = "transition" /\ req[p].pend.next = "GAME_END"
       \/ /\ game.phase = "TRANSITION" /\ game.trans.next = "GAME_END"
          /\ game.trans.reason = "CORRECT" /\ req[p].pc # "transition"
       \/ /\ game.phase = "VOTING" /\ game.reason # "NO_WINNER"
          /\ req[p].pc # "transition"

Good(p) == RoundsGood(p) /\ StrokesGood(p) /\ GuessesGood(p) /\ WinGood(p)
Serial == \E p \in Player : Only(p) /\ Good(p)

-----------------------------------------------------------------------------
\* A request only begins when none is under way.
LEMMA NoneUnderWay ==
  ASSUME MaxInFlight = 1, NEW p \in Player, Only(p),
         Cardinality({q \in Player : req[q].pc # "idle"}) < MaxInFlight
  PROVE  \A q \in Player : req[q].pc = "idle"
<1>1. CASE req[p].pc # "idle"
  <2>1. {q \in Player : req[q].pc # "idle"} = {p}
    BY <1>1 DEF Only
  <2>2. Cardinality({p}) = 1
    BY FS_Singleton
  <2> QED
    BY <2>1, <2>2
<1> QED
  BY <1>1 DEF Only

\* Then it does not matter whose request is looked at.
LEMMA AnyIsGood ==
  ASSUME NEW p \in Player, NEW q \in Player, Good(p),
         req[p].pc = "idle", req[q].pc = "idle"
  PROVE  Good(q)
  BY DEF Good, RoundsGood, StrokesGood, GuessesGood, WinGood, Starting, Reading

\* A player guesses for one team.
LEMMA GuessesForOne ==
  ASSUME NEW p, NEW t \in Team, NEW u \in Team, p \in Guessers[t], p \in Guessers[u]
  PROVE  t = u
  BY RolesAssumption DEF Team, Members

\* The next round after one that nobody won.
LEMMA NextRound ==
  ASSUME NEW rd \in 0..MaxRounds
  PROVE  AfterLostRound(rd).next = "DRAW" => AfterLostRound(rd).round = rd + 1
  BY DEF AfterLostRound, To

\* A step that leaves the stored game and the strokes alone, to a request that
\* carries no transition.
LEMMA ReadsOnly ==
  ASSUME Typed, NEW p \in Player, Good(p), UNCHANGED <<room, game, budget, hits, used>>,
         req[p].pc \notin Starting, req[p].pc # "transition",
         \/ req'[p].pc \in {"idle", "gm_game", "gm_room", "advance_draw"} /\ hits = {}
         \/ req'[p].pc \in {"idle", "gm_game", "gm_room"}
         \/ /\ req'[p].pc \in {"advance", "draw", "guess"}
            /\ req'[p].round = room.round_no
         \/ /\ req'[p].pc = "stroke" /\ hits = {}
            /\ req'[p].round = room.round_no
  PROVE  Good(p)'
<1>1. RoundsGood(p)'
  BY DEF Good, RoundsGood, Starting, Reading
<1>2. StrokesGood(p)'
  BY DEF Good, StrokesGood, Starting
<1>3. GuessesGood(p)'
  BY DEF GuessesGood
<1>4. WinGood(p)'
  BY DEF Good, WinGood
<1> QED
  BY <1>1, <1>2, <1>3, <1>4 DEF Good

LEMMA BeginSerial ==
  ASSUME Typed, NEW p \in Player, Good(p), req[p].pc = "idle",
         NEW pc \in {"advance", "draw", "guess"}, Begin(p, pc)
  PROVE  OnlyMoved(p) /\ Good(p)'
<1>1. /\ OnlyMoved(p) /\ req'[p].pc = pc /\ req'[p].round = room.round_no
      /\ UNCHANGED <<room, game, budget, hits, used>>
  BY DEF Begin, OnlyMoved, Idle, Typed, TypeOK
<1> QED
  BY <1>1, ReadsOnly DEF Starting

\* auto_advance_vs_phase decides.
LEMMA AdvanceSerial ==
  ASSUME Typed, NEW p \in Player, Good(p), Advance(p)
  PROVE  OnlyMoved(p) /\ Good(p)'
<1> USE DEF Typed, TypeOK, OnlyMoved, Request
<1>1. /\ req[p].pc = "advance" /\ room.round_no = game.round /\ req[p].round = game.round
      /\ game.trans.next = "DRAW" => game.trans.round = game.round + 1
      /\ UNCHANGED <<room, game, budget, hits, used>>
  BY DEF Advance, Good, RoundsGood, Reading, Starting
<1>2. ASSUME NEW next \in {"GUESS", "DRAW", "GAME_END"}, game.trans.next = next,
             game.phase = "TRANSITION",
             req' = [req EXCEPT ![p] = [Idle EXCEPT !.pc = Enter(next),
                                                   !.pend = game.trans]]
      PROVE  Good(p)'
  <2>1. /\ req'[p].pc = Enter(next) /\ req'[p].pend = game.trans
        /\ next = "GUESS" => Enter(next) = "enter_guess"
        /\ next = "DRAW" => Enter(next) = "enter_draw"
        /\ next = "GAME_END" => Enter(next) = "end_check"
    BY <1>2 DEF Idle, Enter
  <2>2. RoundsGood(p)'
    BY <1>1, <1>2, <2>1 DEF RoundsGood, Reading, Starting
  <2>3. StrokesGood(p)' /\ GuessesGood(p)'
    BY <1>1, <1>2, <2>1 DEF Good, StrokesGood, GuessesGood
  <2>4. WinGood(p)'
    BY <1>1, <1>2, <2>1 DEF Good, WinGood
  <2> QED
    BY <2>2, <2>3, <2>4 DEF Good
<1>3. ASSUME game.phase = "DRAW",
             req' = [req EXCEPT ![p] = [Idle EXCEPT !.pc = "advance_draw",
                                                   !.due = Due(p)]]
      PROVE  Good(p)'
  <2>1. req'[p].pc = "advance_draw"
    BY <1>3 DEF Idle
  <2>2. hits = {}
    BY <1>1, <1>3 DEF Good, WinGood
  <2> QED
    BY <1>1, <2>1, <2>2, ReadsOnly DEF Starting
<1>4. ASSUME game.phase = "GUESS",
             req' = [req EXCEPT ![p].pc = "no_guess", ![p].guess = game.guess]
      PROVE  Good(p)'
  <2>1. /\ req'[p].pc = "no_guess" /\ req'[p].guess = game.guess
        /\ req'[p].round = req[p].round
    BY <1>4
  <2>2. hits = {}
    BY <1>1, <1>4 DEF Good, WinGood
  <2>3. RoundsGood(p)' /\ GuessesGood(p)'
    BY <1>1, <2>1 DEF RoundsGood, Reading, Starting, GuessesGood
  <2>4. StrokesGood(p)' /\ WinGood(p)'
    BY <1>1, <2>1, <2>2 DEF Good, StrokesGood, WinGood
  <2> QED
    BY <2>3, <2>4 DEF Good
<1>5. ASSUME Return(p) PROVE Good(p)'
  <2>1. req'[p].pc = "idle"
    BY <1>5, Moves
  <2> QED
    BY <1>1, <2>1, ReadsOnly DEF Starting
<1>6. OnlyMoved(p)
  BY AdvanceMoves
<1> QED
  BY <1>2, <1>3, <1>4, <1>5, <1>6 DEF Advance

\* What it calls, up to the next screen or window.
LEMMA ScreenSerial ==
  ASSUME Typed, NEW p \in Player, Good(p),
         \/ AdvanceDraw(p) \/ NoGuess(p) \/ EnterTransition(p) \/ EnterGuess(p)
  PROVE  OnlyMoved(p) /\ Good(p)'
<1> USE Moves
<1>1. CASE AdvanceDraw(p)
  <2>1. /\ req[p].pc = "advance_draw" /\ hits = {}
        /\ UNCHANGED <<room, game, budget, hits, used>>
    BY <1>1 DEF AdvanceDraw, Good, WinGood
  <2>2. CASE WillEnter(p, ToGuess)
    <3>1. OnlyMoved(p) /\ req'[p].pc = "transition" /\ req'[p].pend.next = "GUESS"
      BY <2>2 DEF ToGuess, To
    <3>2. RoundsGood(p)' /\ StrokesGood(p)'
      BY <2>1, <3>1 DEF Good, RoundsGood, StrokesGood, Starting, Reading
    <3>3. GuessesGood(p)' /\ WinGood(p)'
      BY <2>1, <3>1 DEF GuessesGood, WinGood
    <3> QED
      BY <3>1, <3>2, <3>3 DEF Good
  <2>3. CASE Return(p)
    BY <2>1, <2>3, ReadsOnly DEF Starting
  <2> QED
    BY <1>1, <2>2, <2>3 DEF AdvanceDraw
<1>2. CASE NoGuess(p)
  <2> DEFINE tr == AfterLostRound(req[p].round)
  <2>1. /\ req[p].pc = "no_guess" /\ hits = {} /\ req[p].round = game.round
        /\ room.round_no = game.round
        /\ UNCHANGED <<room, budget, hits, used>>
    BY <1>2 DEF NoGuess, Good, WinGood, RoundsGood, Reading, Starting
  <2>2. OnlyMoved(p) /\ req'[p].pc = "transition" /\ req'[p].pend = tr
    BY <1>2 DEF NoGuess
  <2>3. tr.next = "DRAW" => tr.round = game.round + 1
    BY <2>1, NextRound DEF Typed, TypeOK, Request
  <2>4. game'.round = game.round /\ game'.trans = game.trans
    BY <1>2 DEF NoGuess, Typed, TypeOK, Game
  <2> HIDE DEF tr
  <2>5. RoundsGood(p)'
    BY <2>1, <2>2, <2>3, <2>4 DEF Good, RoundsGood, Starting, Reading
  <2>6. StrokesGood(p)' /\ GuessesGood(p)' /\ WinGood(p)'
    BY <2>1, <2>2 DEF Good, StrokesGood, GuessesGood, WinGood
  <2> QED
    BY <2>2, <2>5, <2>6 DEF Good
<1>3. CASE EnterTransition(p)
  <2>1. /\ req[p].pc = "transition" /\ OnlyMoved(p) /\ req'[p].pc = "idle"
        /\ UNCHANGED <<room, budget, hits, used>>
    BY <1>3 DEF EnterTransition
  <2>2. /\ game'.phase = "TRANSITION" /\ game'.trans = req[p].pend
        /\ game'.round = game.round
    BY <1>3 DEF EnterTransition, Typed, TypeOK, Game
  <2>3. RoundsGood(p)'
    BY <2>1, <2>2 DEF Good, RoundsGood, Starting, Reading
  <2>4. StrokesGood(p)' /\ GuessesGood(p)'
    BY <2>1 DEF Good, StrokesGood, GuessesGood
  <2>5. WinGood(p)'
    BY <2>1, <2>2 DEF Good, WinGood
  <2> QED
    BY <2>1, <2>3, <2>4, <2>5 DEF Good
<1>4. CASE EnterGuess(p)
  <2>1. /\ req[p].pc = "enter_guess" /\ hits = {} /\ OnlyMoved(p) /\ req'[p].pc = "idle"
        /\ UNCHANGED <<room, budget, hits, used>>
    BY <1>4 DEF EnterGuess, Good, WinGood
  <2>2. game'.trans.next = "none" /\ game'.round = game.round
    BY <1>4 DEF EnterGuess, Typed, TypeOK, Game, NoTransition, To
  <2>3. RoundsGood(p)'
    BY <2>1, <2>2 DEF Good, RoundsGood, Starting, Reading
  <2>4. StrokesGood(p)' /\ GuessesGood(p)' /\ WinGood(p)'
    BY <2>1 DEF Good, StrokesGood, GuessesGood, WinGood
  <2> QED
    BY <2>1, <2>3, <2>4 DEF Good
<1> QED
  BY <1>1, <1>2, <1>3, <1>4

\* The three writes that start the next round.
LEMMA RoundSerial ==
  ASSUME Typed, NEW p \in Player, Good(p), EnterDraw(p) \/ Refill(p) \/ SetRound(p)
  PROVE  OnlyMoved(p) /\ Good(p)'
<1> USE Moves
<1>0. req[p].pend \in Transition /\ req[p].pend.next = "DRAW" /\ hits = {} /\ hits' = hits
  BY DEF EnterDraw, Refill, SetRound, Typed, TypeOK, Request, DrawPending, Good, WinGood
<1>1. CASE EnterDraw(p)
  <2>1. /\ req[p].pc = "enter_draw" /\ OnlyMoved(p) /\ req'[p].pc = "refill"
        /\ req'[p].pend = req[p].pend /\ room' = room
    BY <1>1 DEF EnterDraw
  <2>2. req[p].pend.round = game.round + 1 /\ game.round \in Int
    BY <1>0, <2>1 DEF Good, RoundsGood, Typed, TypeOK, Game
  <2>3. game'.trans.next = "none" /\ game'.round = req[p].pend.round
    BY <1>1 DEF EnterDraw, Typed, TypeOK, Game, NoTransition, To
  <2>4. \A t \in Team : used'[t] = 0
    BY <1>1, <2>2 DEF EnterDraw
  <2>5. RoundsGood(p)'
    BY <2>1, <2>3 DEF RoundsGood, Starting, Reading
  <2>6. StrokesGood(p)' /\ GuessesGood(p)' /\ WinGood(p)'
    BY <1>0, <2>1, <2>4 DEF StrokesGood, GuessesGood, WinGood
  <2> QED
    BY <2>1, <2>5, <2>6 DEF Good
<1>2. CASE Refill(p)
  <2>1. /\ req[p].pc = "refill" /\ OnlyMoved(p) /\ req'[p].pc = "set_round"
        /\ req'[p].pend = req[p].pend
        /\ UNCHANGED <<room, game, used>> /\ budget' = Full
    BY <1>2 DEF Refill
  <2>2. RoundsGood(p)'
    BY <2>1 DEF Good, RoundsGood, Starting, Reading
  <2>3. StrokesGood(p)'
    BY <2>1, ConfigAssumption DEF Good, StrokesGood, Full
  <2>4. GuessesGood(p)' /\ WinGood(p)'
    BY <1>0, <2>1 DEF GuessesGood, WinGood
  <2> QED
    BY <2>1, <2>2, <2>3, <2>4 DEF Good
<1>3. CASE SetRound(p)
  <2>1. /\ req[p].pc = "set_round" /\ OnlyMoved(p) /\ req'[p].pc = "idle"
        /\ UNCHANGED <<game, budget, used>>
    BY <1>3 DEF SetRound
  <2>2. room'.round_no = req[p].pend.round
    BY <1>3 DEF SetRound, Typed, TypeOK
  <2>3. RoundsGood(p)'
    BY <2>1, <2>2 DEF Good, RoundsGood, Starting, Reading
  <2>4. StrokesGood(p)' /\ GuessesGood(p)' /\ WinGood(p)'
    BY <1>0, <2>1 DEF Good, StrokesGood, GuessesGood, WinGood
  <2> QED
    BY <2>1, <2>3, <2>4 DEF Good
<1> QED
  BY <1>1, <1>2, <1>3

\* Strokes.
LEMMA DrawSerial ==
  ASSUME Typed, NEW p \in Player, Good(p), DrawRead(p) \/ Stroke(p)
  PROVE  OnlyMoved(p) /\ Good(p)'
<1> USE Moves
<1>1. CASE DrawRead(p)
  <2>1. /\ req[p].pc = "draw" /\ req[p].round = room.round_no
        /\ UNCHANGED <<room, game, budget, hits, used>>
    BY <1>1 DEF DrawRead, Good, RoundsGood, Reading, Starting
  <2>2. /\ OnlyMoved(p)
        /\ \/ req'[p].pc = "idle"
           \/ /\ req'[p].pc \in {"advance", "stroke"} /\ game.phase = "DRAW"
              /\ req'[p].round = req[p].round
    BY <1>1 DEF DrawRead
  <2>3. game.phase = "DRAW" => hits = {}
    BY <2>1 DEF Good, WinGood
  <2> QED
    BY <2>1, <2>2, <2>3, ReadsOnly DEF Starting
<1>2. CASE Stroke(p)
  <2>1. /\ req[p].pc = "stroke" /\ hits = {} /\ hits' = hits
        /\ UNCHANGED <<room, game>>
        /\ req[p].round = game.round /\ room.round_no = game.round
    BY <1>2 DEF Stroke, Good, WinGood, RoundsGood, Reading, Starting
  <2>2. ASSUME Return(p), UNCHANGED <<budget, used>>
        PROVE  OnlyMoved(p) /\ Good(p)'
    BY <2>1, <2>2, ReadsOnly DEF Starting
  <2>3. ASSUME NEW t \in Team, budget[t] >= 1, Goto(p, "advance"),
               budget' = [budget EXCEPT ![t] = @ - 1],
               used' = [used EXCEPT ![t] = IF @ > StrokeLimit THEN @ ELSE @ + 1]
        PROVE  OnlyMoved(p) /\ Good(p)'
    <3>1. OnlyMoved(p) /\ req'[p].pc = "advance" /\ req'[p].round = req[p].round
      BY <2>3
    <3>2. \A u \in Team : used[u] + budget[u] = StrokeLimit
      BY <2>1 DEF Good, StrokesGood
    <3>3. StrokesGood(p)'
      <4>1. /\ budget \in [Team -> 0..StrokeLimit] /\ used \in [Team -> Nat]
            /\ StrokeLimit \in Nat
        BY ConfigAssumption DEF Typed, TypeOK
      <4>2. budget'[t] = budget[t] - 1 /\ used'[t] = used[t] + 1
        BY <2>3, <3>2, <4>1
      <4>3. \A u \in Team : u # t => budget'[u] = budget[u] /\ used'[u] = used[u]
        BY <2>3, <4>1
      <4> QED
        BY <3>1, <3>2, <4>1, <4>2, <4>3 DEF StrokesGood
    <3>4. RoundsGood(p)'
      BY <2>1, <3>1 DEF Good, RoundsGood, Reading, Starting
    <3>5. GuessesGood(p)' /\ WinGood(p)'
      BY <2>1, <3>1 DEF GuessesGood, WinGood
    <3> QED
      BY <3>1, <3>3, <3>4, <3>5 DEF Good
  <2> QED
    BY <1>2, <2>2, <2>3 DEF Stroke
<1> QED
  BY <1>1, <1>2

\* Guesses.
LEMMA GuessSerial ==
  ASSUME Typed, NEW p \in Player, Good(p), GuessRead(p) \/ GuessWrite(p)
  PROVE  OnlyMoved(p) /\ Good(p)'
<1> USE Moves
<1>1. CASE GuessRead(p)
  <2>1. /\ req[p].pc = "guess" /\ req[p].round = game.round /\ room.round_no = game.round
        /\ UNCHANGED <<room, game, budget, hits, used>>
    BY <1>1 DEF GuessRead, Good, RoundsGood, Reading, Starting
  <2>2. CASE Return(p)
    BY <2>1, <2>2, ReadsOnly DEF Starting
  <2>3. CASE Goto(p, "advance")
    BY <2>1, <2>3, ReadsOnly DEF Starting
  <2>4. ASSUME NEW t \in Team, NEW result, p \in Guessers[t], game.phase = "GUESS",
               game.guess[t] = "none",
               req' = [req EXCEPT ![p].pc = "guess_write",
                                  ![p].guess = [game.guess EXCEPT ![t] = result]]
        PROVE  OnlyMoved(p) /\ Good(p)'
    <3>1. /\ OnlyMoved(p) /\ req'[p].pc = "guess_write" /\ req'[p].round = req[p].round
          /\ req'[p].guess = [game.guess EXCEPT ![t] = result]
      BY <2>4 DEF OnlyMoved, Typed, TypeOK, Request
    <3>0. game.guess \in [Team -> Result]
      BY DEF Typed, TypeOK, Game, Guesses
    <3>2. \A u \in Team : u # t => req'[p].guess[u] = game.guess[u]
      BY <3>0, <3>1
    <3>3. \A u \in Team : p \in Guessers[u] => u = t
      BY <2>4, GuessesForOne
    <3>4. GuessesGood(p)'
      <4>1. game' = game /\ req'[p].pc = "guess_write"
        BY <2>1, <3>1
      <4>2. ASSUME NEW v \in Team, p \in Guessers[v]
            PROVE  /\ game'.guess[v] = "none"
                   /\ \A u \in Team : u # v => req'[p].guess[u] = game'.guess[u]
        <5>1. v = t
          BY <3>3, <4>2
        <5> QED
          BY <2>4, <3>2, <4>1, <5>1
      <4> QED
        BY <2>4, <4>1, <4>2 DEF GuessesGood
    <3>5. hits = {}
      BY <2>1, <2>4 DEF Good, WinGood
    <3>6. RoundsGood(p)' /\ StrokesGood(p)' /\ WinGood(p)'
      BY <2>1, <3>1, <3>5
         DEF Good, RoundsGood, StrokesGood, WinGood, Reading, Starting
    <3> QED
      BY <3>1, <3>4, <3>6 DEF Good
  <2> QED
    BY <1>1, <2>2, <2>3, <2>4 DEF GuessRead
<1>2. CASE GuessWrite(p)
  <2>1. /\ req[p].pc = "guess_write" /\ hits = {} /\ req[p].round = game.round
        /\ room.round_no = game.round /\ game.phase = "GUESS"
        /\ game.trans.next = "DRAW" => game.trans.round = game.round + 1
        /\ UNCHANGED <<room, budget, used>>
    BY <1>2 DEF GuessWrite, Good, WinGood, RoundsGood, GuessesGood, Reading, Starting
  <2>2. game'.round = game.round /\ game'.trans = game.trans /\ game'.phase = game.phase
    BY <1>2 DEF GuessWrite, Typed, TypeOK, Game
  <2>3. ASSUME req'[p].pc \in {"idle", "transition"} PROVE StrokesGood(p)' /\ GuessesGood(p)'
    BY <2>1, <2>3 DEF Good, StrokesGood, GuessesGood
  <2>4. ASSUME NEW t \in Team, WillEnter(p, To("GAME_END", 0, "CORRECT", t))
        PROVE  OnlyMoved(p) /\ Good(p)'
    <3>1. /\ OnlyMoved(p) /\ req'[p].pc = "transition"
          /\ req'[p].pend.next = "GAME_END" /\ req'[p].pend.reason = "CORRECT"
      BY <2>4 DEF To
    <3>2. RoundsGood(p)' /\ WinGood(p)'
      BY <2>1, <2>2, <3>1 DEF RoundsGood, WinGood, Reading, Starting
    <3> QED
      BY <2>3, <3>1, <3>2 DEF Good
  <2>5. ASSUME WillEnter(p, AfterLostRound(req[p].round)), hits' = hits
        PROVE  OnlyMoved(p) /\ Good(p)'
    <3> DEFINE tr == AfterLostRound(req[p].round)
    <3>1. tr.next = "DRAW" => tr.round = game.round + 1
      BY <2>1, NextRound DEF Typed, TypeOK, Request
    <3>2. OnlyMoved(p) /\ req'[p].pc = "transition" /\ req'[p].pend = tr
      BY <2>5
    <3> HIDE DEF tr
    <3>3. RoundsGood(p)' /\ WinGood(p)'
      BY <2>1, <2>2, <2>5, <3>1, <3>2 DEF RoundsGood, WinGood, Reading, Starting
    <3> QED
      BY <2>3, <3>2, <3>3 DEF Good
  <2>6. ASSUME Return(p), hits' = hits PROVE OnlyMoved(p) /\ Good(p)'
    <3>1. OnlyMoved(p) /\ req'[p].pc = "idle"
      BY <2>6
    <3>2. RoundsGood(p)' /\ WinGood(p)'
      BY <2>1, <2>2, <2>6, <3>1 DEF RoundsGood, WinGood, Reading, Starting
    <3> QED
      BY <2>3, <3>1, <3>2 DEF Good
  <2> QED
    BY <1>2, <2>4, <2>5, <2>6 DEF GuessWrite
<1> QED
  BY <1>1, <1>2

\* The end of the game.
LEMMA EndSerial ==
  ASSUME Typed, NEW p \in Player, Good(p),
         \/ EndCheck(p) \/ Award(p) \/ Pay(p) \/ EndGame(p) \/ EndRoom(p)
         \/ p = GM /\ GMStep
  PROVE  OnlyMoved(p) /\ Good(p)'
<1> USE Moves
<1>1. ASSUME req[p].pc \in {"end_check", "award", "pay", "end_game", "end_room",
                           "gm_game", "gm_room"},
             OnlyMoved(p), UNCHANGED <<budget, hits, used>>,
             room'.round_no = room.round_no, game'.round = game.round,
             game'.trans.next = "DRAW" => game'.trans = game.trans,
             req'[p].pc \in {"award", "pay", "end_game", "end_room", "gm_room", "idle"},
             WinGood(p)'
      PROVE  Good(p)'
  <2>1. RoundsGood(p)' /\ StrokesGood(p)' /\ GuessesGood(p)'
    BY <1>1 DEF Good, RoundsGood, StrokesGood, GuessesGood, Reading, Starting
  <2> QED
    BY <1>1, <2>1 DEF Good
<1>2. CASE EndCheck(p) \/ Award(p) \/ Pay(p)
  <2>1. /\ req[p].pc \in {"end_check", "award", "pay"} /\ OnlyMoved(p)
        /\ UNCHANGED <<room, game, budget, hits, used>>
        /\ \/ /\ req'[p].pc \in {"award", "pay", "end_game"}
              /\ req'[p].pend = req[p].pend
           \/ req'[p].pc = "idle"
    BY <1>2 DEF EndCheck, Award, Pay
  <2>2. WinGood(p)'
    BY <2>1 DEF Good, WinGood
  <2> QED
    BY <1>1, <2>1, <2>2
<1>3. CASE EndGame(p)
  <2>1. /\ req[p].pc = "end_game" /\ OnlyMoved(p) /\ req'[p].pc = "end_room"
        /\ req'[p].pend = req[p].pend /\ UNCHANGED <<room, budget, hits, used>>
    BY <1>3 DEF EndGame
  <2>2. /\ game'.phase = "VOTING" /\ game'.reason = req[p].pend.reason
        /\ game'.round = game.round /\ game'.trans.next = "none"
    BY <1>3 DEF EndGame, Typed, TypeOK, Game, NoTransition, To
  <2>3. WinGood(p)'
    BY <2>1, <2>2 DEF Good, WinGood
  <2> QED
    BY <1>1, <2>1, <2>2, <2>3
<1>4. CASE EndRoom(p) \/ (p = GM /\ GMEndRoom)
  <2>1. /\ req[p].pc \in {"end_room", "gm_room"} /\ OnlyMoved(p) /\ req'[p].pc = "idle"
        /\ room'.round_no = room.round_no /\ UNCHANGED <<game, budget, hits, used>>
    BY <1>4 DEF EndRoom, GMEndRoom, Typed, TypeOK
  <2>2. WinGood(p)'
    BY <2>1 DEF Good, WinGood
  <2> QED
    BY <1>1, <2>1, <2>2
<1>5. CASE p = GM /\ GMEndGame
  <2>1. /\ req[p].pc = "gm_game" /\ OnlyMoved(p) /\ req'[p].pc = "gm_room"
        /\ UNCHANGED <<room, budget, hits, used>>
    BY <1>5 DEF GMEndGame
  <2>2. /\ game'.phase = "VOTING" /\ game'.reason = "GM_END"
        /\ game'.round = game.round /\ game'.trans = game.trans
    BY <1>5 DEF GMEndGame, Typed, TypeOK, Game
  <2>3. WinGood(p)'
    BY <2>1, <2>2 DEF WinGood
  <2> QED
    BY <1>1, <2>1, <2>2, <2>3
<1> QED
  BY <1>2, <1>3, <1>4, <1>5 DEF GMStep

-----------------------------------------------------------------------------
\* Whoever has a request under way is the one that is looked at.
LEMMA TheOne ==
  ASSUME NEW p \in Player, NEW q \in Player, Only(p), req[q].pc # "idle"
  PROVE  q = p
  BY DEF Only

LEMMA StepSerial ==
  ASSUME Typed, NEW p \in Player, Good(p),
         Step(p) \/ (p = GM /\ GMStep)
  PROVE  OnlyMoved(p) /\ Good(p)'
  BY AdvanceSerial, ScreenSerial, RoundSerial, DrawSerial, GuessSerial, EndSerial
     DEF Step

LEMMA StepsUnderWay ==
  ASSUME NEW p \in Player, Step(p) \/ (p = GM /\ GMStep)
  PROVE  req[p].pc # "idle"
  BY DEF Step, GMStep, Advance, AdvanceDraw, NoGuess, EnterTransition, EnterGuess,
         EnterDraw, Refill, SetRound, DrawRead, Stroke, GuessRead, GuessWrite,
         EndCheck, Award, Pay, EndGame, EndRoom, GMEndGame, GMEndRoom

LEMMA OnlyStays ==
  ASSUME NEW p \in Player, Only(p), OnlyMoved(p)
  PROVE  Only(p)'
  BY DEF Only, OnlyMoved

\* While one request is handled at a time, what it has read stays true.
LEMMA SerialStep ==
  ASSUME MaxInFlight = 1, Typed, Serial, [Next]_vars
  PROVE  Serial'
<1>1. PICK p \in Player : Only(p) /\ Good(p)
  BY DEF Serial
<1>2. ASSUME NEW q \in Player, Step(q) \/ (q = GM /\ GMStep) PROVE Serial'
  <2>1. q = p
    BY <1>1, <1>2, StepsUnderWay, TheOne
  <2>2. OnlyMoved(p) /\ Good(p)'
    BY <1>1, <1>2, <2>1, StepSerial
  <2> QED
    BY <1>1, <2>2, OnlyStays DEF Serial
<1>3. ASSUME NEW q \in Player,
             Cardinality({r \in Player : req[r].pc # "idle"}) < MaxInFlight
      PROVE  Only(q) /\ Good(q) /\ req[q].pc = "idle"
  <2>1. \A r \in Player : req[r].pc = "idle"
    BY <1>1, <1>3, NoneUnderWay
  <2> QED
    BY <1>1, <2>1, AnyIsGood DEF Only
<1>4. ASSUME NEW q \in Player, NEW pc \in {"advance", "draw", "guess"}, Begin(q, pc)
      PROVE  Serial'
  <2>1. Only(q) /\ Good(q) /\ req[q].pc = "idle"
    BY <1>3, <1>4 DEF Begin
  <2>2. OnlyMoved(q) /\ Good(q)'
    BY <1>4, <2>1, BeginSerial
  <2> QED
    BY <2>1, <2>2, OnlyStays DEF Serial
<1>5. CASE BeginGMEnd
  <2>1. Only(GM) /\ Good(GM) /\ req[GM].pc = "idle"
    BY <1>3, <1>5, GMIsPlayer DEF BeginGMEnd
  <2>2. OnlyMoved(GM) /\ req'[GM].pc = "gm_game"
    BY <1>5, GMIsPlayer, Moves DEF BeginGMEnd
  <2>3. Good(GM)'
    BY <1>5, <2>1, <2>2, GMIsPlayer, ReadsOnly DEF BeginGMEnd, Starting
  <2> QED
    BY <2>1, <2>2, <2>3, OnlyStays, GMIsPlayer DEF Serial
<1>6. CASE ClockTick
  <2>1. /\ req' = req /\ room' = room /\ UNCHANGED <<budget, hits, used>>
        /\ game'.phase = game.phase /\ game'.trans = game.trans
        /\ game'.round = game.round /\ game'.guess = game.guess
        /\ game'.reason = game.reason
    BY <1>6 DEF ClockTick, Typed, TypeOK, Game
  <2>2. Only(p)' /\ Good(p)'
    BY <1>1, <2>1 DEF Only, Good, RoundsGood, StrokesGood, GuessesGood, WinGood
  <2> QED
    BY <2>2 DEF Serial
<1>7. CASE UNCHANGED vars
  <2>1. Only(p)' /\ Good(p)'
    BY <1>1, <1>7 DEF vars, Only, Good, RoundsGood, StrokesGood, GuessesGood, WinGood
  <2> QED
    BY <2>1 DEF Serial
<1> QED
  BY <1>2, <1>4, <1>5, <1>6, <1>7, GMIsPlayer
     DEF Next, RejectedAfterEnd, BeginTick, BeginDraw, BeginGuess

LEMMA SerialInit == Init => Serial
<1> SUFFICES ASSUME Init PROVE Serial
  OBVIOUS
<1>1. \A p \in Player : req[p].pc = "idle"
  BY DEF Init, Idle
<1>2. Only(GM)
  BY <1>1 DEF Only
<1>3. RoundsGood(GM)
  BY <1>1, GMIsPlayer DEF Init, RoundsGood, Starting, Reading, NoTransition, To
<1>4. StrokesGood(GM)
  BY <1>1, GMIsPlayer, ConfigAssumption DEF Init, StrokesGood, Full
<1>5. GuessesGood(GM) /\ WinGood(GM)
  BY <1>1, GMIsPlayer DEF Init, GuessesGood, WinGood
<1> QED
  BY <1>2, <1>3, <1>4, <1>5, GMIsPlayer DEF Good, Serial

LEMMA AlwaysSerial ==
  ASSUME MaxInFlight = 1
  PROVE  Spec => [](Typed /\ Serial)
<1>1. Typed /\ Serial /\ [Next]_vars => Serial'
  BY SerialStep
<1> QED
  BY <1>1, SerialInit, InitTyped, TypedStep, PTL DEF Spec

-----------------------------------------------------------------------------
\* "Correct guess -> game ends": on a server that handles one request at a time
\* a game with a correct guess is never closed as one that nobody won.
THEOREM SerialGuessWins ==
  ASSUME MaxInFlight = 1
  PROVE  Spec => []CorrectGuessWins
<1>1. Serial => CorrectGuessWins
  BY DEF Serial, Good, WinGood, CorrectGuessWins
<1> QED
  BY <1>1, AlwaysSerial, PTL

\* "Per-team stroke budget per DRAW window": on such a server no team draws
\* more strokes in a round than strokes_per_phase.
THEOREM SerialStrokesBounded ==
  ASSUME MaxInFlight = 1
  PROVE  Spec => []StrokesPerWindow
<1>1. Typed /\ Serial => StrokesPerWindow
  <2> SUFFICES ASSUME Typed, Serial, NEW t \in Team PROVE used[t] <= StrokeLimit
    BY DEF StrokesPerWindow
  <2>1. used[t] \in Nat /\ budget[t] \in 0..StrokeLimit /\ StrokeLimit \in Nat
    BY ConfigAssumption DEF Typed, TypeOK
  <2> QED
    BY <2>1 DEF Serial, Good, StrokesGood
<1> QED
  BY <1>1, AlwaysSerial, PTL

\* Only the two writes of guesses and the start of a round change the results.
LEMMA GuessesChange ==
  ASSUME Typed, [Next]_vars, game'.guess # game.guess
  PROVE  \E p \in Player : NoGuess(p) \/ GuessWrite(p) \/ EnterDraw(p)
<1> USE DEF Typed, TypeOK, Game
<1>1. game' # game
  OBVIOUS
<1>2. ASSUME NEW p \in Player, EnterTransition(p) \/ EnterGuess(p) \/ EndGame(p)
      PROVE  FALSE
  BY <1>2 DEF EnterTransition, EnterGuess, EndGame
<1>3. ~GMEndGame /\ ~ClockTick
  BY DEF GMEndGame, ClockTick
<1> QED
  BY <1>1, <1>2, <1>3
     DEF Next, vars, Step, GMStep, BeginTick, BeginDraw, BeginGuess, Begin,
         RejectedAfterEnd, BeginGMEnd, Advance, AdvanceDraw, Refill, SetRound,
         DrawRead, Stroke, GuessRead, EndCheck, Award, Pay, EndRoom,
         GMEndRoom

\* "Each team gets one guess per round": on such a server a recorded guess is
\* not recorded over.
THEOREM SerialOneGuess ==
  ASSUME MaxInFlight = 1
  PROVE  Spec => OneGuessPerTeam
<1>1. ASSUME Typed, Serial, [Next]_vars
      PROVE  [\A t \in Team : {game.guess[t], game'.guess[t]} \subseteq {"WRONG", "CORRECT"}
                              => game'.guess[t] = game.guess[t]]_game
  <2> SUFFICES ASSUME NEW t \in Team,
                      {game.guess[t], game'.guess[t]} \subseteq {"WRONG", "CORRECT"},
                      game'.guess[t] # game.guess[t]
               PROVE  FALSE
    OBVIOUS
  <2>1. PICK p \in Player : NoGuess(p) \/ GuessWrite(p) \/ EnterDraw(p)
    BY <1>1, GuessesChange
  <2>2. PICK q \in Player : Only(q) /\ Good(q)
    BY <1>1 DEF Serial
  <2>3. q = p
    BY <2>1, <2>2, TheOne DEF NoGuess, GuessWrite, EnterDraw
  <2>4. CASE NoGuess(p)
    <3>1. game'.guess[t] = IF req[p].guess[t] = "none" THEN "NO_GUESS" ELSE req[p].guess[t]
      BY <1>1, <2>4 DEF NoGuess, Typed, TypeOK, Game
    <3>2. req[p].guess = game.guess
      BY <2>2, <2>3, <2>4 DEF NoGuess, Good, GuessesGood
    <3> QED
      BY <3>1, <3>2
  <2>5. CASE GuessWrite(p)
    <3>1. game'.guess = req[p].guess /\ \E u \in Team : p \in Guessers[u]
      BY <1>1, <2>5 DEF GuessWrite, Typed, TypeOK, Game
    <3>2. \A u \in Team : p \in Guessers[u] =>
            /\ game.guess[u] = "none"
            /\ \A v \in Team : v # u => req[p].guess[v] = game.guess[v]
      BY <2>2, <2>3, <2>5 DEF GuessWrite, Good, GuessesGood
    <3> QED
      BY <3>1, <3>2
  <2>6. CASE EnterDraw(p)
    <3>1. game'.guess[t] = "none"
      BY <1>1, <2>6 DEF EnterDraw, Typed, TypeOK, Game, NoGuesses
    <3> QED
      BY <3>1
  <2> QED
    BY <2>1, <2>4, <2>5, <2>6
<1> QED
  BY <1>1, AlwaysSerial, PTL DEF Spec, OneGuessPerTeam

\* DRAW is left early only when both teams have drawn the strokes of this very
\* window: on such a server no handler takes the budget of the round before.
THEOREM SerialWindowKept ==
  ASSUME MaxInFlight = 1
  PROVE  Spec => DrawWindowNotCutShort
<1>1. ASSUME Typed, Serial, NEW p \in Player, AdvanceDraw(p), req'[p].pc = "transition"
      PROVE  req[p].due \/ \A t \in Team : used[t] >= StrokeLimit
  <2>1. PICK q \in Player : Only(q) /\ Good(q)
    BY <1>1 DEF Serial
  <2>2. q = p /\ req[p].pc = "advance_draw"
    BY <1>1, <2>1, TheOne DEF AdvanceDraw
  <2>3. req[p].due \/ \A t \in Team : budget[t] <= 0
    BY <1>1, Moves DEF AdvanceDraw
  <2>4. \A t \in Team : /\ used[t] + budget[t] = StrokeLimit
                        /\ used[t] \in Nat /\ budget[t] \in 0..StrokeLimit
                        /\ StrokeLimit \in Nat
    BY <1>1, <2>1, <2>2, ConfigAssumption DEF Good, StrokesGood, Typed, TypeOK
  <2> QED
    BY <2>3, <2>4
<1>2. ASSUME Typed, Serial, [Next]_vars
      PROVE  [\A p \in Player : AdvanceDraw(p) /\ req'[p].pc = "transition"
                => req[p].due \/ \A t \in Team : used[t] >= StrokeLimit]_vars
  BY <1>1, <1>2
<1> QED
  BY <1>2, AlwaysSerial, PTL DEF Spec, DrawWindowNotCutShort
=============================================================================
