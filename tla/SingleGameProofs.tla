-------------------------- MODULE SingleGameProofs --------------------------
(***************************************************************************)
(* What holds of a SINGLE game for every room, every limit of strokes and  *)
(* time, every number of requests in flight and of restarts.               *)
(***************************************************************************)
EXTENDS SingleGame, TLAPS

(***************************************************************************)
(* The inductive invariant: what is so of the stored state, and what each  *)
(* request under way may rely on.                                          *)
(***************************************************************************)
\* Past the test of the header, with the lock; still before the points; after.
Critical == {"expire", "start_draw", "times_up", "award", "award_drawer",
             "clear_roles", "end_game", "end_room"}
Before == {"expire", "start_draw", "times_up", "award"}
After == {"award_drawer", "clear_roles", "end_game", "end_room"}

\* Since the last restart that cut the end short, nobody has been paid.
Open == \A q \in Player : points[q] <= torn

\* A transition to the end names a guesser who was right, or the time is up.
Sound(tr) ==
  /\ tr.reason = "CORRECT" => tr.winner \in hits
  /\ tr.reason = "TIMEOUT" => game.end <= 0
Winners(tr) == IF tr.reason = "CORRECT" THEN {tr.winner, Drawer} ELSE {GM}

\* Whoever is past the test holds the lock, and finds the game unpaid until it
\* has paid, the drawer after the guesser; what it pays is what it ends the
\* game with.
EndSound(p) ==
  /\ req[p].pc \in Critical => lock = p
  /\ req[p].pc \in Before => Open
  /\ Sound(req[p].pend)
  /\ req[p].pc = "times_up" => game.end <= 0
  /\ req[p].pc \in {"award", "award_drawer", "clear_roles", "end_game"} => req[p].pend.next = "GAME_END"
  /\ req[p].pc = "award_drawer" =>
       /\ req[p].pend.reason = "CORRECT" /\ points[Drawer] <= torn
       /\ torn = 0 => Paid = {req[p].pend.winner}
  /\ req[p].pc \in {"clear_roles", "end_game"} /\ torn = 0 => Paid = Winners(req[p].pend)

\* Only guessers guess and only the drawer draws, with the strokes that are
\* left; nobody does until the ROUND START screen is over.
PlaySound(p) ==
  /\ req[p].kind = "guess" \/ req[p].pc \in {"guess", "guess_role", "guess_write"}
       => p \in Guesser
  /\ req[p].pc = "stroke"
       => p = Drawer /\ req[p].strokes >= 1 /\ req[p].strokes = game.strokes
  /\ req[p].pc = "start_draw" => game.trans.next = "DRAW"
  /\ game.trans.next = "DRAW"
       => req[p].pc \notin {"stroke", "guess_role", "guess_write"}

\* Once the game is paid it is over, or whoever paid is about to end it.
PaidThenEnded ==
  /\ \A q \in Player : points[q] <= 1 + torn
  /\ Open \/ state = "GAME_END" \/ \E p \in Player : req[p].pc \in After

\* What is drawn and what is left are together no more than the limit.
StrokesAddUp ==
  /\ game.phase = "TRANSITION" => game.trans.next # "none"
  /\ game.trans.next = "DRAW" => drawn = 0 /\ game.phase # "DRAW"
  /\ drawn + game.strokes <= StrokeLimit

Stored ==
  /\ PaidThenEnded /\ StrokesAddUp /\ Sound(game.trans)
  /\ ScoredOnce /\ EndAgreesWithScore

Inv == TypeOK /\ Stored /\ \A p \in Player : EndSound(p) /\ PlaySound(p)

-----------------------------------------------------------------------------
\* The players are told apart.
LEMMA Players ==
  /\ GM \in Player /\ Drawer \in Player /\ Guesser \subseteq Player
  /\ GM # Drawer /\ GM \notin Guesser /\ Drawer \notin Guesser
  /\ Nobody \notin Player /\ Nobody \notin Guesser
  BY SingleAssumption DEF Player

\* The transitions there are.
LEMMA Transitions ==
  /\ NoTransition \in Transition /\ NoTransition.next = "none"
  /\ NoTransition.reason = "none"
  /\ To("DRAW", "none", Nobody) \in Transition
  /\ To("GAME_END", "TIMEOUT", Nobody) \in Transition
  /\ \A p \in Guesser : To("GAME_END", "CORRECT", p) \in Transition
  /\ \A tr \in Transition :
       /\ tr.next \in {"none", "DRAW", "GAME_END"}
       /\ tr.winner \in Guesser \cup {Nobody}
       /\ tr.reason \in {"none", "CORRECT", "TIMEOUT"}
       /\ tr.next = "GAME_END" => tr.reason \in {"CORRECT", "TIMEOUT"}
       /\ tr.reason = "CORRECT" <=> tr.winner \in Guesser
<1>1. /\ NoTransition.next = "none" /\ NoTransition.reason = "none"
      /\ NoTransition.winner = Nobody /\ NoTransition \in Transition
  BY DEF NoTransition, To, Transition
<1>2. /\ To("DRAW", "none", Nobody) \in Transition
      /\ To("GAME_END", "TIMEOUT", Nobody) \in Transition
      /\ \A p \in Guesser : To("GAME_END", "CORRECT", p) \in Transition
  BY DEF Transition
<1>3. ASSUME NEW tr \in Transition
      PROVE  /\ tr.next \in {"none", "DRAW", "GAME_END"}
             /\ tr.winner \in Guesser \cup {Nobody}
             /\ tr.reason \in {"none", "CORRECT", "TIMEOUT"}
             /\ tr.next = "GAME_END" => tr.reason \in {"CORRECT", "TIMEOUT"}
             /\ tr.reason = "CORRECT" <=> tr.winner \in Guesser
  <2>1. CASE tr = NoTransition
    BY <1>1, <2>1, Players
  <2>2. CASE tr = To("DRAW", "none", Nobody)
    BY <2>2, Players DEF To
  <2>3. CASE tr = To("GAME_END", "TIMEOUT", Nobody)
    BY <2>3, Players DEF To
  <2>4. CASE \E p \in Guesser : tr = To("GAME_END", "CORRECT", p)
    BY <2>4, Players DEF To
  <2> QED
    BY <2>1, <2>2, <2>3, <2>4 DEF Transition
<1> QED
  BY <1>1, <1>2, <1>3

LEMMA ToFields ==
  ASSUME NEW n, NEW r, NEW w
  PROVE  To(n, r, w).next = n /\ To(n, r, w).reason = r /\ To(n, r, w).winner = w
  BY DEF To

LEMMA IdleRequest ==
  /\ Idle \in Request /\ Idle.pc = "idle" /\ Idle.kind = "tick"
  /\ Idle.pend = NoTransition /\ Idle.age = 0
  BY Transitions, SingleAssumption DEF Idle, Request, Pc

\* Only the request of p moves.
Moved(p) ==
  /\ req' \in [Player -> Request]
  /\ \A q \in Player \ {p} : req'[q] = req[q]

LEMMA Goes ==
  ASSUME req \in [Player -> Request], NEW p \in Player, NEW pc \in Pc, Goto(p, pc)
  PROVE  /\ Moved(p) /\ req'[p].pc = pc /\ req'[p].kind = req[p].kind
         /\ req'[p].strokes = req[p].strokes /\ req'[p].pend = req[p].pend
         /\ req'[p].age = req[p].age
  BY DEF Goto, Moved, Request

LEMMA Returns ==
  ASSUME req \in [Player -> Request], NEW p \in Player, Return(p)
  PROVE  Moved(p) /\ req'[p] = Idle
  BY IdleRequest DEF Return, Moved

LEMMA Proceeds ==
  ASSUME req \in [Player -> Request], NEW p \in Player, Proceed(p)
  PROVE  /\ Moved(p)
         /\ \/ req'[p] = Idle
            \/ /\ req'[p].pc \in {"draw", "guess"} /\ req'[p].pc = req[p].kind
               /\ req'[p].kind = req[p].kind /\ req'[p].pend = req[p].pend
<1>1. CASE Return(p)
  BY <1>1, Returns
<1>2. CASE Goto(p, req[p].kind) /\ req[p].kind # "tick"
  <2>1. req[p].kind \in {"draw", "guess"} /\ req[p].kind \in Pc
    BY <1>2 DEF Request, Pc
  <2> QED
    BY <1>2, <2>1, Goes
<1> QED
  BY <1>1, <1>2 DEF Proceed

LEMMA Arrives ==
  ASSUME req \in [Player -> Request], NEW p \in Player, NEW pc \in Pc,
         NEW kind \in {"tick", "draw", "guess"}, Arrive(p, pc, kind)
  PROVE  /\ Moved(p) /\ req'[p].pc = pc /\ req'[p].kind = kind
         /\ req'[p].pend = NoTransition
<1>1. /\ [Idle EXCEPT !.pc = pc, !.kind = kind] \in Request
      /\ [Idle EXCEPT !.pc = pc, !.kind = kind].pc = pc
      /\ [Idle EXCEPT !.pc = pc, !.kind = kind].kind = kind
      /\ [Idle EXCEPT !.pc = pc, !.kind = kind].pend = NoTransition
  BY IdleRequest DEF Request
<1> QED
  BY <1>1 DEF Arrive, Moved

-----------------------------------------------------------------------------
(***************************************************************************)
(* What each write of the game hash puts there.                            *)
(***************************************************************************)
LEMMA ScreenIs ==
  ASSUME game \in Game, NEW n \in Int, NEW tr \in Transition,
         game' = [game EXCEPT !.phase = "TRANSITION", !.until = n, !.trans = tr]
  PROVE  /\ game' \in Game /\ game'.phase = "TRANSITION" /\ game'.trans = tr
         /\ game'.end = game.end /\ game'.strokes = game.strokes
         /\ game'.reason = game.reason /\ game'.winner = game.winner
  BY DEF Game

LEMMA StartIs ==
  ASSUME TypeOK, NEW p \in Player, StartDraw(p)
  PROVE  /\ game' \in Game /\ game'.phase = "DRAW" /\ game'.trans = NoTransition
         /\ game'.end = game.end /\ game'.strokes = StrokeLimit
         /\ game'.reason = game.reason /\ game'.winner = game.winner
<1>1. Past \in Int /\ StrokeLimit \in 0..StrokeLimit /\ NoTransition \in Transition
  BY SingleAssumption, Transitions DEF Past
<1> QED
  BY <1>1 DEF StartDraw, TypeOK, Game

LEMMA TimesUpIs ==
  ASSUME TypeOK, NEW p \in Player, TimesUp(p)
  PROVE  /\ game' \in Game /\ game'.phase = "TRANSITION"
         /\ game'.trans = To("GAME_END", "TIMEOUT", Nobody)
         /\ game'.end = game.end /\ game'.strokes = game.strokes
         /\ game'.reason = game.reason /\ game'.winner = game.winner
<1>1. /\ TransitionSec - req[p].age \in Int
      /\ To("GAME_END", "TIMEOUT", Nobody) \in Transition
  BY SingleAssumption, Transitions DEF TypeOK, Request
<1> QED
  BY <1>1, ScreenIs DEF TimesUp, TypeOK

LEMMA GuessIs ==
  ASSUME TypeOK, NEW p \in Guesser, GuessWrite(p)
  PROVE  /\ game' \in Game /\ game'.phase = "TRANSITION"
         /\ game'.trans = To("GAME_END", "CORRECT", p)
         /\ game'.end = game.end /\ game'.strokes = game.strokes
         /\ game'.reason = game.reason /\ game'.winner = game.winner
<1>1. /\ TransitionSec - req[p].age \in Int
      /\ To("GAME_END", "CORRECT", p) \in Transition
  BY SingleAssumption, Transitions, Players DEF TypeOK, Request
<1> QED
  BY <1>1, ScreenIs DEF GuessWrite, TypeOK

LEMMA EndIs ==
  ASSUME TypeOK, NEW p \in Player, EndGame(p)
  PROVE  /\ game' \in Game /\ game'.phase = "VOTING" /\ game'.trans = NoTransition
         /\ game'.end <= 0 /\ game'.strokes = game.strokes
         /\ game'.reason = req[p].pend.reason /\ game'.winner = req[p].pend.winner
<1>1. /\ Past \in Int /\ -req[p].age \in Int /\ -req[p].age <= 0
      /\ NoTransition \in Transition /\ req[p].pend \in Transition
  BY SingleAssumption, Transitions DEF Past, TypeOK, Request
<1>2. /\ req[p].pend.reason \in {"none", "CORRECT", "TIMEOUT", "GM_END"}
      /\ req[p].pend.winner \in Guesser \cup {Nobody}
  BY <1>1, Transitions
<1> DEFINE age == -req[p].age
           pend == req[p].pend
<1>3. game' = [game EXCEPT !.phase = "VOTING", !.until = Past, !.end = age,
                           !.trans = NoTransition, !.reason = pend.reason,
                           !.winner = pend.winner]
  BY DEF EndGame
<1> HIDE DEF age, pend
<1>4. game \in Game
  BY DEF TypeOK
<1> QED
  BY <1>1, <1>2, <1>3, <1>4 DEF Game, age, pend

LEMMA GMEndIs ==
  ASSUME TypeOK, GMEndGame
  PROVE  /\ game' \in Game /\ game'.phase = "VOTING" /\ game'.trans = game.trans
         /\ game'.end <= 0 /\ game'.strokes = game.strokes
         /\ game'.reason = "GM_END"
<1>1. -req[GM].age \in Int /\ -req[GM].age <= 0
  BY SingleAssumption, Players DEF TypeOK, Request
<1> QED
  BY <1>1, Players DEF GMEndGame, TypeOK, Game

LEMMA StrokeIs ==
  ASSUME Inv, Stroke
  PROVE  /\ game' \in Game /\ game'.phase = game.phase /\ game'.trans = game.trans
         /\ game'.end = game.end /\ game'.strokes = req[Drawer].strokes - 1
         /\ game'.reason = game.reason /\ game'.winner = game.winner
<1>1. req[Drawer].strokes - 1 \in 0..StrokeLimit
  BY Players, SingleAssumption DEF Inv, TypeOK, PlaySound, Request, Stroke
<1> QED
  BY <1>1 DEF Stroke, Inv, TypeOK, Game

LEMMA ClockIs ==
  ASSUME TypeOK, ClockTick
  PROVE  /\ game' \in Game /\ game'.phase = game.phase /\ game'.trans = game.trans
         /\ game'.end <= game.end /\ game'.strokes = game.strokes
         /\ game'.reason = game.reason /\ game'.winner = game.winner
         /\ req' \in [Player -> Request]
         /\ \A p \in Player :
              /\ req'[p].pc = req[p].pc /\ req'[p].kind = req[p].kind
              /\ req'[p].strokes = req[p].strokes /\ req'[p].pend = req[p].pend
<1>1. /\ game.until \in Int /\ game.end \in Int /\ Past \in Int
  BY SingleAssumption DEF TypeOK, Game, Past
<1>2. /\ OneSecondLess(game.until) \in Int /\ OneSecondLess(game.end) \in Int
      /\ OneSecondLess(game.end) <= game.end
  BY <1>1 DEF OneSecondLess
<1>3. game' = [game EXCEPT !.until = OneSecondLess(game.until),
                           !.end = OneSecondLess(game.end)]
  BY DEF ClockTick
<1>4. /\ game' \in Game /\ game'.phase = game.phase /\ game'.trans = game.trans
      /\ game'.end <= game.end /\ game'.strokes = game.strokes
      /\ game'.reason = game.reason /\ game'.winner = game.winner
  BY <1>2, <1>3 DEF TypeOK, Game
<1>5. ASSUME NEW p \in Player
      PROVE  /\ req'[p] \in Request
             /\ req'[p].pc = req[p].pc /\ req'[p].kind = req[p].kind
             /\ req'[p].strokes = req[p].strokes /\ req'[p].pend = req[p].pend
  <2>1. req[p] \in Request /\ req[p].age + 1 \in Nat
    BY DEF TypeOK, Request
  <2>2. \/ req'[p] = req[p]
        \/ req'[p] = [req[p] EXCEPT !.age = req[p].age + 1]
    BY DEF ClockTick
  <2> QED
    BY <2>1, <2>2 DEF Request
<1>6. req' \in [Player -> Request]
  BY <1>5 DEF ClockTick
<1> QED
  BY <1>4, <1>5, <1>6

-----------------------------------------------------------------------------
(***************************************************************************)
(* What a request may rely on outlasts the steps of others.                *)
(***************************************************************************)
SameRequest(q) ==
  /\ req'[q].pc = req[q].pc /\ req'[q].kind = req[q].kind
  /\ req'[q].strokes = req[q].strokes /\ req'[q].pend = req[q].pend

LEMMA EndSoundKept ==
  ASSUME NEW q \in Player, EndSound(q), SameRequest(q),
         lock = q => lock' = q,
         hits \subseteq hits', game.end <= 0 => game'.end <= 0,
         req[q].pc \in Critical => points' = points /\ torn' = torn
  PROVE  EndSound(q)'
<1>1. Sound(req[q].pend)'
  BY DEF EndSound, Sound, SameRequest
<1>2. CASE req[q].pc \notin Critical
  BY <1>1, <1>2 DEF EndSound, SameRequest, Critical, Before
<1>3. CASE req[q].pc \in Critical
  <2>1. Paid' = Paid /\ (Open <=> Open')
    BY <1>3 DEF Paid, Open
  <2>2. Winners(req[q].pend)' = Winners(req[q].pend)
    BY DEF Winners, SameRequest
  <2> QED
    BY <1>1, <1>3, <2>1, <2>2 DEF EndSound, SameRequest
<1> QED
  BY <1>2, <1>3

LEMMA PlaySoundKept ==
  ASSUME NEW q \in Player, PlaySound(q), SameRequest(q),
         req[q].pc = "stroke" => game'.strokes = game.strokes,
         \/ game'.trans = game.trans
         \/ req[q].pc # "start_draw" /\ game'.trans.next # "DRAW"
  PROVE  PlaySound(q)'
  BY DEF PlaySound, SameRequest

\* A step that only reads what is stored.
Quiet == UNCHANGED <<state, game, roles, points, drawn, hits, first, restarts, torn>>

LEMMA StoredKept ==
  ASSUME Stored, NEW p \in Player, Quiet, Moved(p),
         req[p].pc \in After => req'[p].pc \in After
  PROVE  Stored'
<1>1. PaidThenEnded'
  BY DEF Stored, PaidThenEnded, Open, Quiet, Moved
<1>2. StrokesAddUp' /\ Sound(game.trans)' /\ ScoredOnce' /\ EndAgreesWithScore'
  BY DEF Stored, Quiet, StrokesAddUp, Sound, ScoredOnce, EndAgreesWithScore, Paid
<1> QED
  BY <1>1, <1>2 DEF Stored

LEMMA QuietKeeps ==
  ASSUME Inv, NEW p \in Player, Quiet, Moved(p), overlap' \in BOOLEAN,
         req[p].pc \in After => req'[p].pc \in After,
         lock' \in Player \cup {Nobody}, \A q \in Player \ {p} : lock = q => lock' = q,
         EndSound(p)', PlaySound(p)'
  PROVE  Inv'
<1>1. TypeOK'
  BY DEF Inv, TypeOK, Quiet, Moved
<1>2. Stored'
  BY StoredKept DEF Inv
<1>3. ASSUME NEW q \in Player \ {p} PROVE EndSound(q)' /\ PlaySound(q)'
  <2>1. SameRequest(q)
    BY DEF Moved, SameRequest
  <2> QED
    BY <2>1, EndSoundKept, PlaySoundKept DEF Inv, Quiet
<1> QED
  BY <1>1, <1>2, <1>3 DEF Inv

\* An idle request relies on nothing.
LEMMA IdleSound ==
  ASSUME NEW p \in Player, req'[p].pc = "idle", req'[p].kind = "tick",
         req'[p].pend = NoTransition
  PROVE  EndSound(p)' /\ PlaySound(p)'
<1>1. Sound(req[p].pend)'
  BY Transitions DEF Sound
<1> QED
  BY <1>1 DEF EndSound, PlaySound, Critical, Before

-----------------------------------------------------------------------------
LEMMA BeginKeeps ==
  ASSUME Inv, NEW p \in Player,
         BeginTick(p) \/ BeginGuess(p) \/ (p = Drawer /\ BeginDraw) \/ (p = GM /\ BeginGMEnd)
  PROVE  Inv'
<1>1. PICK pc \in {"lock", "gm_game"}, kind \in {"tick", "draw", "guess"} :
        Arrive(p, pc, kind) /\ (kind = "guess" => p \in Guesser)
  BY Players DEF BeginTick, BeginGuess, BeginDraw, BeginGMEnd, Begin
<1>2. /\ Moved(p) /\ req'[p].pc = pc /\ req'[p].kind = kind
      /\ req'[p].pend = NoTransition /\ req[p].pc = "idle"
  BY <1>1, Arrives DEF Inv, TypeOK, Pc, Arrive, Busy
<1>3. EndSound(p)' /\ PlaySound(p)'
  <2>1. Sound(req[p].pend)'
    BY <1>2, Transitions DEF Sound
  <2> QED
    BY <1>1, <1>2, <2>1 DEF EndSound, PlaySound, Critical, Before
<1>4. Quiet /\ lock' = lock /\ overlap' \in BOOLEAN
  BY <1>1 DEF Arrive, Quiet, Inv, TypeOK
<1> QED
  BY <1>2, <1>3, <1>4, QuietKeeps DEF Inv, TypeOK, After

\* The tick has changed nothing: the request goes on without the lock.
LEMMA ProceedSound ==
  ASSUME Inv, NEW p \in Player, Proceed(p), Quiet
  PROVE  Moved(p) /\ EndSound(p)' /\ PlaySound(p)'
<1>1. /\ Moved(p)
      /\ \/ req'[p] = Idle
         \/ /\ req'[p].pc \in {"draw", "guess"} /\ req'[p].pc = req[p].kind
            /\ req'[p].kind = req[p].kind /\ req'[p].pend = req[p].pend
  BY Proceeds DEF Inv, TypeOK
<1>2. CASE req'[p] = Idle
  BY <1>1, <1>2, IdleRequest, IdleSound
<1>3. CASE /\ req'[p].pc \in {"draw", "guess"} /\ req'[p].pc = req[p].kind
           /\ req'[p].kind = req[p].kind /\ req'[p].pend = req[p].pend
  <2>1. Sound(req[p].pend)'
    BY <1>3 DEF Inv, EndSound, Sound, Quiet
  <2>2. PlaySound(p)
    BY DEF Inv
  <2> QED
    BY <1>1, <1>3, <2>1, <2>2 DEF EndSound, PlaySound, Critical, Before
<1> QED
  BY <1>1, <1>2, <1>3

\* With the lock the header is in IN_GAME, so nobody has been paid.
LEMMA LockKeeps ==
  ASSUME Inv, NEW p \in Player, Lock(p)
  PROVE  Inv'
<1>1. Quiet /\ overlap' = overlap /\ overlap \in BOOLEAN /\ req[p].pc = "lock" /\ lock = Nobody
  BY DEF Lock, Quiet, fault, Inv, TypeOK
<1>2. CASE Proceed(p) /\ UNCHANGED lock
  BY <1>1, <1>2, ProceedSound, QuietKeeps DEF Inv, TypeOK, After
<1>3. CASE state = "IN_GAME" /\ lock' = p /\ Goto(p, "expire")
  <2>1. /\ Moved(p) /\ req'[p].pc = "expire" /\ req'[p].kind = req[p].kind
        /\ req'[p].pend = req[p].pend
    BY <1>3, Goes DEF Inv, TypeOK, Pc
  <2>2. Open
    BY <1>1, <1>3, Players DEF Inv, Stored, PaidThenEnded, EndSound, Critical, After
  <2>3. Open' /\ Sound(req[p].pend)'
    BY <1>1, <2>1, <2>2 DEF Open, Inv, EndSound, Sound, Quiet
  <2>4. EndSound(p)' /\ PlaySound(p)'
    BY <1>3, <2>1, <2>3 DEF Inv, EndSound, PlaySound, Critical, Before
  <2> QED
    BY <1>1, <1>3, <2>1, <2>4, QuietKeeps, Players DEF After
<1> QED
  BY <1>2, <1>3 DEF Lock

\* With the lock it reads the game.
LEMMA ExpireKeeps ==
  ASSUME Inv, NEW p \in Player, Expire(p)
  PROVE  Inv'
<1>1. Quiet /\ overlap' = overlap /\ overlap \in BOOLEAN /\ req[p].pc = "expire"
      /\ lock = p /\ Open /\ Open'
  BY DEF Expire, Quiet, fault, Inv, TypeOK, EndSound, Critical, Before, Open
<1>2. EndSound(p) /\ PlaySound(p) /\ game.trans \in Transition /\ Sound(game.trans)
  BY DEF Inv, TypeOK, Game, Stored
<1>3. CASE Unlock /\ Proceed(p)
  BY <1>1, <1>3, ProceedSound, QuietKeeps DEF Inv, TypeOK, After, Unlock
<1>4. ASSUME NEW pc \in {"start_draw", "times_up"}, Goto(p, pc), UNCHANGED lock,
             pc = "start_draw" => game.trans.next = "DRAW",
             pc = "times_up" => game.end <= 0
      PROVE  Inv'
  <2>1. /\ Moved(p) /\ req'[p].pc = pc /\ req'[p].kind = req[p].kind
        /\ req'[p].pend = req[p].pend
    BY <1>4, Goes DEF Inv, TypeOK, Pc
  <2>2. Sound(req[p].pend)'
    BY <1>1, <1>2, <2>1 DEF EndSound, Sound, Quiet
  <2>3. EndSound(p)' /\ PlaySound(p)'
    BY <1>1, <1>2, <1>4, <2>1, <2>2 DEF EndSound, PlaySound, Critical, Before, Quiet
  <2> QED
    BY <1>1, <1>4, <2>1, <2>3, QuietKeeps DEF After
<1>5. CASE /\ req' = [req EXCEPT ![p].pc = "award", ![p].pend = game.trans]
           /\ game.trans.next = "GAME_END" /\ UNCHANGED lock
  <2>1. /\ Moved(p) /\ req'[p].pc = "award" /\ req'[p].kind = req[p].kind
        /\ req'[p].pend = game.trans
    BY <1>2, <1>5 DEF Inv, TypeOK, Moved, Request, Pc
  <2>2. Sound(req[p].pend)'
    BY <1>1, <1>2, <2>1 DEF Sound, Quiet
  <2>3. EndSound(p)' /\ PlaySound(p)'
    BY <1>1, <1>2, <1>5, <2>1, <2>2 DEF EndSound, PlaySound, Critical, Before
  <2> QED
    BY <1>1, <1>5, <2>1, <2>3, QuietKeeps DEF After
<1>6. ASSUME game.phase = "TRANSITION", game.trans.next # "GAME_END"
      PROVE  game.trans.next = "DRAW"
  BY <1>2, <1>6, Transitions DEF Inv, Stored, StrokesAddUp
<1>7. ASSUME Due(game.end, req[p].age) PROVE game.end <= 0
  BY <1>7, SingleAssumption DEF Due, Inv, TypeOK, Game, Request
<1> QED
  BY <1>3, <1>4, <1>5, <1>6, <1>7 DEF Expire

\* The readings of a guess and a stroke.
LEMMA PlayReadKeeps ==
  ASSUME Inv, NEW p \in Player,
         GuessRead(p) \/ GuessRole(p) \/ (p = Drawer /\ DrawRead)
  PROVE  Inv'
<1>1. /\ Quiet /\ overlap' = overlap /\ overlap \in BOOLEAN /\ lock' = lock
      /\ req[p].pc \in {"guess", "guess_role", "draw"}
  BY DEF GuessRead, GuessRole, DrawRead, Quiet, fault, Inv, TypeOK
<1>2. EndSound(p) /\ PlaySound(p)
  BY DEF Inv
<1>3. CASE Return(p)
  <2>1. Moved(p) /\ req'[p] = Idle
    BY <1>3, Returns DEF Inv, TypeOK
  <2> QED
    BY <1>1, <2>1, IdleRequest, IdleSound, QuietKeeps DEF Inv, TypeOK, After
<1>4. ASSUME NEW pc \in {"guess_role", "guess_write"}, Goto(p, pc), p \in Guesser,
             game.trans.next # "DRAW"
      PROVE  Inv'
  <2>1. /\ Moved(p) /\ req'[p].pc = pc /\ req'[p].kind = req[p].kind
        /\ req'[p].pend = req[p].pend
    BY <1>4, Goes DEF Inv, TypeOK, Pc
  <2>2. EndSound(p)' /\ PlaySound(p)'
    BY <1>1, <1>2, <1>4, <2>1 DEF EndSound, Sound, PlaySound, Critical, Before, Quiet
  <2> QED
    BY <1>1, <1>4, <2>1, <2>2, QuietKeeps DEF Inv, TypeOK, After
<1>5. ASSUME p = Drawer, game.phase = "DRAW", game.strokes > 0,
             req' = [req EXCEPT ![Drawer].pc = "stroke", ![Drawer].strokes = game.strokes]
      PROVE  Inv'
  <2>1. /\ Moved(p) /\ req'[p].pc = "stroke" /\ req'[p].kind = req[p].kind
        /\ req'[p].pend = req[p].pend /\ req'[p].strokes = game.strokes
    BY <1>5 DEF Inv, TypeOK, Game, Moved, Request, Pc
  <2>2. game.strokes \in Nat /\ game.trans.next # "DRAW"
    BY <1>5, SingleAssumption DEF Inv, TypeOK, Game, Stored, StrokesAddUp
  <2>3. EndSound(p)' /\ PlaySound(p)'
    BY <1>1, <1>2, <1>5, <2>1, <2>2
       DEF EndSound, Sound, PlaySound, Critical, Before, Quiet
  <2> QED
    BY <1>1, <2>1, <2>3, QuietKeeps DEF Inv, TypeOK, After
<1>6. game.phase = "DRAW" => game.trans.next # "DRAW"
  BY DEF Inv, Stored, StrokesAddUp
<1>7. ASSUME GuessRead(p) PROVE Inv'
  BY <1>2, <1>3, <1>4, <1>6, <1>7 DEF GuessRead, PlaySound
<1>8. ASSUME GuessRole(p) PROVE Inv'
  <2>1. p \in Guesser /\ game.trans.next # "DRAW"
    BY <1>2, <1>8 DEF GuessRole, PlaySound
  <2> QED
    BY <1>3, <1>4, <1>8, <2>1 DEF GuessRole
<1> QED
  BY <1>3, <1>5, <1>7, <1>8 DEF DrawRead

-----------------------------------------------------------------------------
(***************************************************************************)
(* The steps that write.                                                   *)
(***************************************************************************)
\* A request that holds the lock is the only one inside.
LEMMA Alone ==
  ASSUME Inv, NEW p \in Player, req[p].pc \in Critical
  PROVE  lock = p /\ \A q \in Player \ {p} : req[q].pc \notin Critical
  BY DEF Inv, EndSound

LEMMA StartKeeps ==
  ASSUME Inv, NEW p \in Player, StartDraw(p)
  PROVE  Inv'
<1>1. /\ req[p].pc = "start_draw" /\ lock' = Nobody
      /\ UNCHANGED <<state, roles, points, drawn, hits, first, overlap, restarts, torn>>
  BY DEF StartDraw, Unlock, fault
<1>2. /\ game' \in Game /\ game'.phase = "DRAW" /\ game'.trans = NoTransition
      /\ game'.end = game.end /\ game'.strokes = StrokeLimit
      /\ game'.reason = game.reason /\ game'.winner = game.winner
  BY StartIs DEF Inv
<1>3. Moved(p) /\ req'[p] = Idle
  BY Returns DEF Inv, TypeOK, StartDraw
<1>4. lock = p /\ \A q \in Player \ {p} : req[q].pc \notin Critical
  BY <1>1, Alone DEF Critical
<1>5. game.trans.next = "DRAW" /\ drawn = 0 /\ Open
  BY <1>1 DEF Inv, PlaySound, EndSound, Before, Stored, StrokesAddUp
<1>6. TypeOK'
  BY <1>1, <1>2, <1>3 DEF Inv, TypeOK, Moved
<1>7. ASSUME NEW q \in Player PROVE EndSound(q)' /\ PlaySound(q)'
  <2>1. CASE q = p
    BY <1>3, <2>1, IdleRequest, IdleSound
  <2>2. CASE q # p
    <3>1. SameRequest(q) /\ EndSound(q) /\ PlaySound(q)
      BY <1>3, <2>2 DEF Moved, SameRequest, Inv
    <3>2. req[q].pc \notin Critical /\ req[q].pc # "stroke"
      BY <1>4, <1>5, <2>2, <3>1 DEF PlaySound
    <3>3. EndSound(q)'
      BY <1>1, <1>2, <1>4, <2>2, <3>1, <3>2, EndSoundKept
    <3>4. PlaySound(q)'
      BY <1>2, <3>1, <3>2, PlaySoundKept, Transitions DEF Critical
    <3> QED
      BY <3>3, <3>4
  <2> QED
    BY <2>1, <2>2
<1>8. Stored'
  <2>1. PaidThenEnded' /\ ScoredOnce' /\ EndAgreesWithScore'
    BY <1>1, <1>2, <1>5 DEF Inv, Stored, PaidThenEnded, Open, ScoredOnce,
                            EndAgreesWithScore, Paid
  <2>2. StrokesAddUp'
    BY <1>1, <1>2, <1>5, Transitions, SingleAssumption DEF StrokesAddUp
  <2>3. Sound(game.trans)'
    BY <1>2, Transitions DEF Sound
  <2> QED
    BY <2>1, <2>2, <2>3 DEF Stored
<1> QED
  BY <1>6, <1>7, <1>8 DEF Inv

\* A transition screen that goes up over whatever was there: TIMEOUT or a
\* correct guess.
LEMMA ScreenKeeps ==
  ASSUME Inv, NEW p \in Player, NEW tr \in Transition, req[p].pc \notin After,
         Moved(p), req'[p] = Idle,
         game' \in Game, game'.phase = "TRANSITION", game'.trans = tr,
         tr.next = "GAME_END", Sound(tr)',
         game'.end = game.end, game'.strokes = game.strokes,
         lock' \in Player \cup {Nobody}, \A q \in Player \ {p} : lock = q => lock' = q,
         hits \subseteq hits', hits' \subseteq Guesser, first' \in Guesser \cup {Nobody},
         UNCHANGED <<state, roles, points, drawn, overlap, restarts, torn>>,
         \A q \in Player \ {p} : req[q].pc # "start_draw"
  PROVE  Inv'
<1>1. TypeOK'
  BY DEF Inv, TypeOK, Moved
<1>2. ASSUME NEW q \in Player PROVE EndSound(q)' /\ PlaySound(q)'
  <2>1. CASE q = p
    BY <2>1, IdleRequest, IdleSound
  <2>2. CASE q # p
    <3>1. SameRequest(q) /\ EndSound(q) /\ PlaySound(q)
      BY <2>2 DEF Moved, SameRequest, Inv
    <3>2. EndSound(q)'
      BY <2>2, <3>1, EndSoundKept
    <3>3. PlaySound(q)'
      BY <2>2, <3>1, PlaySoundKept
    <3> QED
      BY <3>2, <3>3
  <2> QED
    BY <2>1, <2>2
<1>3. PaidThenEnded'
  BY DEF Inv, Stored, PaidThenEnded, Open, Moved, After
<1>4. ScoredOnce' /\ EndAgreesWithScore'
  BY DEF Inv, Stored, ScoredOnce, EndAgreesWithScore, Paid
<1>5. StrokesAddUp'
  BY DEF Inv, Stored, StrokesAddUp
<1> QED
  BY <1>1, <1>2, <1>3, <1>4, <1>5 DEF Inv, Stored

LEMMA TimesUpKeeps ==
  ASSUME Inv, NEW p \in Player, TimesUp(p)
  PROVE  Inv'
<1> DEFINE tr == To("GAME_END", "TIMEOUT", Nobody)
<1>1. req[p].pc = "times_up" /\ lock' = Nobody
      /\ UNCHANGED <<state, roles, points, drawn, hits, first, overlap, restarts, torn>>
  BY DEF TimesUp, Unlock, fault
<1>2. lock = p /\ \A q \in Player \ {p} : req[q].pc \notin Critical
  BY <1>1, Alone DEF Critical
<1>3. game.end <= 0
  BY <1>1 DEF Inv, EndSound
<1>4. Moved(p) /\ req'[p] = Idle
  BY Returns DEF Inv, TypeOK, TimesUp
<1>5. /\ game' \in Game /\ game'.phase = "TRANSITION" /\ game'.trans = tr
      /\ game'.end = game.end /\ game'.strokes = game.strokes
  BY TimesUpIs DEF Inv
<1>6. tr \in Transition /\ tr.next = "GAME_END" /\ tr.reason = "TIMEOUT"
  BY Transitions, ToFields
<1>7. Sound(tr)'
  BY <1>3, <1>5, <1>6 DEF Sound
<1> HIDE DEF tr
<1> QED
  BY <1>1, <1>2, <1>4, <1>5, <1>6, <1>7, ScreenKeeps
     DEF Inv, TypeOK, After, Critical

LEMMA GuessKeeps ==
  ASSUME Inv, NEW p \in Player, GuessWrite(p)
  PROVE  Inv'
<1> DEFINE tr == To("GAME_END", "CORRECT", p)
<1>1. /\ req[p].pc = "guess_write" /\ lock' = lock /\ hits' = hits \cup {p}
      /\ first' \in {first, p}
      /\ UNCHANGED <<state, roles, points, drawn, overlap, restarts, torn>>
  BY DEF GuessWrite, fault
<1>2. p \in Guesser
  BY <1>1 DEF Inv, PlaySound
<1>3. Moved(p) /\ req'[p] = Idle
  BY Returns DEF Inv, TypeOK, GuessWrite
<1>4. /\ game' \in Game /\ game'.phase = "TRANSITION" /\ game'.trans = tr
      /\ game'.end = game.end /\ game'.strokes = game.strokes
  BY <1>2, GuessIs DEF Inv
<1>5. /\ tr \in Transition /\ tr.next = "GAME_END" /\ tr.reason = "CORRECT"
      /\ tr.winner = p
  BY <1>2, Transitions, ToFields
<1>6. Sound(tr)'
  BY <1>1, <1>5 DEF Sound
<1>7. \A q \in Player : req[q].pc # "start_draw"
  <2>1. game.trans.next # "DRAW"
    BY <1>1 DEF Inv, PlaySound
  <2> QED
    BY <2>1 DEF Inv, PlaySound
<1> HIDE DEF tr
<1> QED
  BY <1>1, <1>2, <1>3, <1>4, <1>5, <1>6, <1>7, ScreenKeeps
     DEF Inv, TypeOK, After

\* The lock's holder moves on: the others keep what they rely on.
LEMMA OthersKept ==
  ASSUME Inv, NEW p \in Player, req[p].pc \in Critical, Moved(p), NEW q \in Player \ {p},
         hits' = hits, game.end <= 0 => game'.end <= 0,
         game'.strokes = game.strokes,
         game'.trans = game.trans \/ game'.trans.next # "DRAW"
  PROVE  EndSound(q)' /\ PlaySound(q)'
<1>1. lock = p /\ req[q].pc \notin Critical
  BY Alone
<1>2. SameRequest(q) /\ EndSound(q) /\ PlaySound(q) /\ req[q].pc # "start_draw"
  BY <1>1 DEF Moved, SameRequest, Inv, Critical
<1>3. EndSound(q)'
  BY <1>1, <1>2, EndSoundKept
<1>4. PlaySound(q)'
  BY <1>2, PlaySoundKept
<1> QED
  BY <1>3, <1>4

\* The first point is given in an unpaid game: to the guesser of the transition
\* that was read, or to the GameMaster when the time is up.
LEMMA AwardPays ==
  ASSUME Inv, NEW p \in Player, Award(p)
  PROVE  LET w == IF req[p].pend.reason = "CORRECT" THEN req[p].pend.winner ELSE GM
         IN  /\ w \in Player /\ points' \in [Player -> Nat]
             /\ points' = [points EXCEPT ![w] = points[w] + 1]
             /\ \A q \in Player : points'[q] <= 1 + torn
             /\ torn = 0 => Paid = {} /\ Paid' = {w}
             /\ points[w] = 0 \/ torn > 0
             /\ \/ /\ w = GM /\ game.end <= 0 /\ req[p].pend.reason # "CORRECT"
                   /\ Goto(p, "clear_roles")
                \/ /\ w \in hits /\ req[p].pend.reason = "CORRECT" /\ req[p].pend.winner = w
                   /\ Goto(p, "award_drawer") /\ points'[Drawer] <= torn
<1> DEFINE tr == req[p].pend
           w == IF tr.reason = "CORRECT" THEN tr.winner ELSE GM
<1>1. /\ req[p].pc = "award" /\ tr \in Transition /\ tr.next = "GAME_END" /\ Sound(tr)
      /\ Open /\ points \in [Player -> Nat] /\ torn \in Nat /\ hits \subseteq Guesser
  BY DEF Award, Inv, EndSound, Before, TypeOK, Request
<1>2. /\ w \in Player /\ points' = [points EXCEPT ![w] = points[w] + 1]
      /\ \/ /\ w = GM /\ game.end <= 0 /\ tr.reason # "CORRECT" /\ Goto(p, "clear_roles")
         \/ /\ w \in hits /\ tr.reason = "CORRECT" /\ tr.winner = w /\ w # Drawer
            /\ Goto(p, "award_drawer")
  <2>1. CASE tr.reason = "CORRECT"
    BY <1>1, <2>1, Players DEF Award, Sound
  <2>2. CASE tr.reason # "CORRECT"
    BY <1>1, <2>2, Transitions, Players DEF Award, Sound
  <2> QED
    BY <2>1, <2>2
<1> HIDE DEF w
<1>3. \A q \in Player : points[q] \in Nat /\ points[q] <= torn
  BY <1>1 DEF Open
<1>4. /\ points' \in [Player -> Nat]
      /\ \A q \in Player : points'[q] = IF q = w THEN points[q] + 1 ELSE points[q]
  BY <1>1, <1>2
<1>5. \A q \in Player : points'[q] <= 1 + torn
  BY <1>1, <1>3, <1>4
<1>6. torn = 0 => Paid = {} /\ Paid' = {w}
  BY <1>2, <1>3, <1>4 DEF Paid
<1>7. points[w] = 0 \/ torn > 0
  BY <1>1, <1>2, <1>3
<1>8. w # Drawer => points'[Drawer] <= torn
  BY <1>3, <1>4, Players
<1> QED
  BY <1>2, <1>4, <1>5, <1>6, <1>7, <1>8 DEF w

LEMMA AwardKeeps ==
  ASSUME Inv, NEW p \in Player, Award(p)
  PROVE  Inv'
<1> DEFINE w == IF req[p].pend.reason = "CORRECT" THEN req[p].pend.winner ELSE GM
<1>1. /\ req[p].pc = "award"
      /\ UNCHANGED <<state, game, roles, lock, drawn, hits, first, overlap, restarts, torn>>
  BY DEF Award, fault
<1>2. /\ points' \in [Player -> Nat] /\ \A q \in Player : points'[q] <= 1 + torn
      /\ torn = 0 => Paid = {} /\ Paid' = {w}
      /\ \/ w = GM /\ req[p].pend.reason # "CORRECT" /\ Goto(p, "clear_roles")
         \/ /\ w \in hits /\ req[p].pend.reason = "CORRECT" /\ req[p].pend.winner = w
            /\ Goto(p, "award_drawer") /\ points'[Drawer] <= torn
  BY AwardPays
<1>3. /\ Moved(p) /\ req'[p].kind = req[p].kind /\ req'[p].pend = req[p].pend
      /\ req'[p].pc \in {"award_drawer", "clear_roles"}
      /\ req'[p].pc = "award_drawer" =>
           /\ req[p].pend.reason = "CORRECT" /\ points'[Drawer] <= torn
           /\ req[p].pend.winner = w
      /\ req'[p].pc = "clear_roles" => req[p].pend.reason # "CORRECT" /\ w = GM
  BY <1>2, Goes DEF Inv, TypeOK, Pc
<1>4. TypeOK'
  BY <1>1, <1>2, <1>3 DEF Inv, TypeOK, Moved
<1>5. EndSound(p)' /\ PlaySound(p)'
  <2>1. EndSound(p) /\ PlaySound(p) /\ req[p].pend.next = "GAME_END"
    BY <1>1 DEF Inv, EndSound
  <2>2. Sound(req[p].pend)'
    BY <1>1, <1>3, <2>1 DEF EndSound, Sound
  <2>3. req'[p].pc = "clear_roles" => Winners(req[p].pend)' = {w}
    BY <1>3 DEF Winners
  <2> HIDE DEF w
  <2>4. lock' = p
    BY <1>1, <2>1 DEF EndSound, Critical
  <2>5. EndSound(p)'
    BY <1>1, <1>2, <1>3, <2>1, <2>2, <2>3, <2>4 DEF EndSound, Critical, Before
  <2>6. PlaySound(p)'
    BY <1>1, <1>3, <2>1 DEF PlaySound
  <2> QED
    BY <2>5, <2>6
<1>6. ASSUME NEW q \in Player \ {p} PROVE EndSound(q)' /\ PlaySound(q)'
  BY <1>1, <1>3, OthersKept DEF Critical
<1> HIDE DEF w
<1>7. PaidThenEnded'
  BY <1>1, <1>2, <1>3 DEF PaidThenEnded, After
<1>8. ScoredOnce'
  BY <1>1, <1>2 DEF ScoredOnce, Inv, TypeOK
<1>9. EndAgreesWithScore'
  BY <1>1, <1>2 DEF EndAgreesWithScore, Inv, Stored
<1>10. StrokesAddUp' /\ Sound(game.trans)'
  BY <1>1 DEF Inv, Stored, StrokesAddUp, Sound
<1> QED
  BY <1>4, <1>5, <1>6, <1>7, <1>8, <1>9, <1>10 DEF Inv, Stored

\* The drawer has its point after the guesser: nobody else has one.
LEMMA DrawerPays ==
  ASSUME Inv, NEW p \in Player, AwardDrawer(p)
  PROVE  LET w == req[p].pend.winner
         IN  /\ w \in hits /\ req[p].pend.reason = "CORRECT" /\ points' \in [Player -> Nat]
             /\ points' = [points EXCEPT ![Drawer] = points[Drawer] + 1]
             /\ \A q \in Player : points'[q] <= 1 + torn
             /\ torn = 0 => Paid = {w} /\ Paid' = {w, Drawer}
             /\ points[Drawer] = 0 \/ torn > 0
<1> DEFINE w == req[p].pend.winner
<1>1. /\ req[p].pc = "award_drawer" /\ EndSound(p) /\ PaidThenEnded
      /\ points \in [Player -> Nat] /\ torn \in Nat
  BY DEF AwardDrawer, Inv, Stored, TypeOK
<1>2. /\ w \in hits /\ req[p].pend.reason = "CORRECT" /\ points[Drawer] <= torn
      /\ torn = 0 => Paid = {w}
  BY <1>1 DEF EndSound, Sound
<1>3. points' = [points EXCEPT ![Drawer] = points[Drawer] + 1]
  BY DEF AwardDrawer
<1> HIDE DEF w
<1>4. /\ points' \in [Player -> Nat]
      /\ \A q \in Player :
           points'[q] = IF q = Drawer THEN points[q] + 1 ELSE points[q]
  BY <1>1, <1>3, Players
<1>5. \A q \in Player : points[q] \in Nat /\ points[q] <= 1 + torn
  BY <1>1 DEF PaidThenEnded
<1>6. \A q \in Player : points'[q] <= 1 + torn
  BY <1>1, <1>2, <1>4, <1>5
<1>7. torn = 0 => Paid' = Paid \cup {Drawer}
  BY <1>4, <1>5, Players DEF Paid
<1> QED
  BY <1>1, <1>2, <1>3, <1>4, <1>5, <1>6, <1>7, Players DEF w

LEMMA AwardDrawerKeeps ==
  ASSUME Inv, NEW p \in Player, AwardDrawer(p)
  PROVE  Inv'
<1> DEFINE w == req[p].pend.winner
<1>1. /\ req[p].pc = "award_drawer" /\ Goto(p, "clear_roles")
      /\ UNCHANGED <<state, game, roles, lock, drawn, hits, first, overlap, restarts, torn>>
  BY DEF AwardDrawer, fault
<1>2. /\ w \in hits /\ req[p].pend.reason = "CORRECT" /\ points' \in [Player -> Nat]
      /\ \A q \in Player : points'[q] <= 1 + torn
      /\ torn = 0 => Paid = {w} /\ Paid' = {w, Drawer}
  BY DrawerPays
<1>3. /\ Moved(p) /\ req'[p].pc = "clear_roles" /\ req'[p].kind = req[p].kind
      /\ req'[p].pend = req[p].pend
  BY <1>1, Goes DEF Inv, TypeOK, Pc
<1>4. TypeOK'
  BY <1>1, <1>2, <1>3 DEF Inv, TypeOK, Moved
<1>5. EndSound(p)' /\ PlaySound(p)'
  <2>1. EndSound(p) /\ PlaySound(p) /\ req[p].pend.next = "GAME_END"
    BY <1>1 DEF Inv, EndSound
  <2>2. Sound(req[p].pend)' /\ Winners(req[p].pend)' = {w, Drawer}
    BY <1>1, <1>2, <1>3, <2>1 DEF EndSound, Sound, Winners
  <2> HIDE DEF w
  <2>3. lock' = p
    BY <1>1, <2>1 DEF EndSound, Critical
  <2>4. EndSound(p)'
    BY <1>1, <1>2, <1>3, <2>1, <2>2, <2>3 DEF EndSound, Critical, Before
  <2>5. PlaySound(p)'
    BY <1>1, <1>3, <2>1 DEF PlaySound
  <2> QED
    BY <2>4, <2>5
<1>6. ASSUME NEW q \in Player \ {p} PROVE EndSound(q)' /\ PlaySound(q)'
  BY <1>1, <1>3, OthersKept DEF Critical
<1> HIDE DEF w
<1>7. PaidThenEnded'
  BY <1>1, <1>2, <1>3 DEF PaidThenEnded, After
<1>8. ScoredOnce'
  BY <1>1, <1>2 DEF ScoredOnce, Inv, TypeOK
<1>9. EndAgreesWithScore'
  <2>1. game.phase = "VOTING" /\ game.reason # "GM_END" /\ torn = 0 => Paid = Paid'
    BY <1>2, Players DEF Inv, Stored, EndAgreesWithScore, TypeOK
  <2> QED
    BY <1>1, <2>1 DEF EndAgreesWithScore, Inv, Stored
<1>10. StrokesAddUp' /\ Sound(game.trans)'
  BY <1>1 DEF Inv, Stored, StrokesAddUp, Sound
<1> QED
  BY <1>4, <1>5, <1>6, <1>7, <1>8, <1>9, <1>10 DEF Inv, Stored

\* The roles matter to nobody who is past the guess.
LEMMA ClearRolesKeeps ==
  ASSUME Inv, NEW p \in Player, ClearRoles(p)
  PROVE  Inv'
<1>1. /\ req[p].pc = "clear_roles" /\ Goto(p, "end_game") /\ roles' = FALSE
      /\ UNCHANGED <<state, game, points, lock, drawn, hits, first, overlap, restarts, torn>>
  BY DEF ClearRoles, fault
<1>2. /\ Moved(p) /\ req'[p].pc = "end_game" /\ req'[p].kind = req[p].kind
      /\ req'[p].pend = req[p].pend
  BY <1>1, Goes DEF Inv, TypeOK, Pc
<1>3. TypeOK'
  BY <1>1, <1>2 DEF Inv, TypeOK, Moved
<1>4. EndSound(p)' /\ PlaySound(p)'
  <2>1. EndSound(p) /\ PlaySound(p)
    BY DEF Inv
  <2>2. Winners(req[p].pend)' = Winners(req[p].pend) /\ Sound(req[p].pend)' /\ Paid' = Paid
    BY <1>1, <1>2, <2>1 DEF Winners, EndSound, Sound, Paid
  <2>3. EndSound(p)'
    BY <1>1, <1>2, <2>1, <2>2 DEF EndSound, Critical, Before
  <2>4. PlaySound(p)'
    BY <1>1, <1>2, <2>1 DEF PlaySound
  <2> QED
    BY <2>3, <2>4
<1>5. ASSUME NEW q \in Player \ {p} PROVE EndSound(q)' /\ PlaySound(q)'
  BY <1>1, <1>2, OthersKept DEF Critical
<1>6. PaidThenEnded'
  BY <1>1, <1>2 DEF Inv, Stored, PaidThenEnded, After
<1>7. ScoredOnce' /\ EndAgreesWithScore' /\ StrokesAddUp' /\ Sound(game.trans)'
  BY <1>1 DEF Inv, Stored, ScoredOnce, EndAgreesWithScore, StrokesAddUp, Sound, Paid
<1> QED
  BY <1>3, <1>4, <1>5, <1>6, <1>7 DEF Inv, Stored

\* The result that is stored is the one that was paid.
LEMMA EndGameKeeps ==
  ASSUME Inv, NEW p \in Player, EndGame(p)
  PROVE  Inv'
<1>1. /\ req[p].pc = "end_game" /\ Goto(p, "end_room")
      /\ UNCHANGED <<state, roles, points, lock, drawn, hits, first, overlap, restarts, torn>>
  BY DEF EndGame, fault
<1>2. /\ Moved(p) /\ req'[p].pc = "end_room" /\ req'[p].kind = req[p].kind
      /\ req'[p].pend = req[p].pend
  BY <1>1, Goes DEF Inv, TypeOK, Pc
<1>3. /\ game' \in Game /\ game'.phase = "VOTING" /\ game'.trans = NoTransition
      /\ game'.end <= 0 /\ game'.strokes = game.strokes
      /\ game'.reason = req[p].pend.reason /\ game'.winner = req[p].pend.winner
  BY EndIs DEF Inv
<1>4. /\ EndSound(p) /\ PlaySound(p) /\ req[p].pend \in Transition
      /\ req[p].pend.next = "GAME_END"
      /\ torn = 0 => Paid = Winners(req[p].pend)
  BY <1>1 DEF Inv, EndSound, TypeOK, Request
<1>5. TypeOK'
  BY <1>1, <1>2, <1>3 DEF Inv, TypeOK, Moved
<1>6. EndSound(p)' /\ PlaySound(p)'
  <2>1. Sound(req[p].pend)'
    BY <1>1, <1>2, <1>3, <1>4 DEF EndSound, Sound
  <2>2. EndSound(p)'
    BY <1>1, <1>2, <1>4, <2>1 DEF EndSound, Critical, Before
  <2>3. PlaySound(p)'
    BY <1>2, <1>3, <1>4, Transitions DEF PlaySound
  <2> QED
    BY <2>2, <2>3
<1>7. ASSUME NEW q \in Player \ {p} PROVE EndSound(q)' /\ PlaySound(q)'
  BY <1>1, <1>2, <1>3, Transitions, OthersKept DEF Critical
<1>8. PaidThenEnded'
  BY <1>1, <1>2 DEF Inv, Stored, PaidThenEnded, After
<1>9. ScoredOnce'
  BY <1>1 DEF Inv, Stored, ScoredOnce, Paid
<1>10. EndAgreesWithScore'
  <2>1. req[p].pend.reason = "CORRECT" <=> req[p].pend.winner # Nobody
    BY <1>4, Transitions, Players
  <2>2. torn = 0 => Paid' = IF game'.winner = Nobody THEN {GM} ELSE {game'.winner, Drawer}
    BY <1>1, <1>3, <1>4, <2>1 DEF Winners, Paid
  <2> QED
    BY <1>1, <2>2 DEF EndAgreesWithScore
<1>11. StrokesAddUp' /\ Sound(game.trans)'
  BY <1>1, <1>3, Transitions DEF Inv, Stored, StrokesAddUp, Sound
<1> QED
  BY <1>5, <1>6, <1>7, <1>8, <1>9, <1>10, <1>11 DEF Inv, Stored

\* The room is told that the game is over.
LEMMA RoomKeeps ==
  ASSUME Inv, NEW p \in Player, state' = "GAME_END", Moved(p), req'[p] = Idle,
         lock' \in Player \cup {Nobody}, \A q \in Player \ {p} : lock = q => lock' = q,
         UNCHANGED <<game, roles, points, drawn, hits, first, overlap, restarts, torn>>
  PROVE  Inv'
<1>1. TypeOK'
  BY DEF Inv, TypeOK, Moved
<1>2. ASSUME NEW q \in Player PROVE EndSound(q)' /\ PlaySound(q)'
  <2>1. CASE q = p
    BY <2>1, IdleRequest, IdleSound
  <2>2. CASE q # p
    <3>1. SameRequest(q) /\ EndSound(q) /\ PlaySound(q)
      BY <2>2 DEF Moved, SameRequest, Inv
    <3> QED
      BY <2>2, <3>1, EndSoundKept, PlaySoundKept
  <2> QED
    BY <2>1, <2>2
<1>3. Stored'
  BY DEF Inv, Stored, PaidThenEnded, StrokesAddUp, Sound, ScoredOnce,
         EndAgreesWithScore, Paid
<1> QED
  BY <1>1, <1>2, <1>3 DEF Inv

LEMMA EndRoomKeeps ==
  ASSUME Inv, NEW p \in Player, EndRoom(p)
  PROVE  Inv'
<1>1. /\ req[p].pc = "end_room" /\ state' = "GAME_END" /\ lock' = Nobody
      /\ UNCHANGED <<game, roles, points, drawn, hits, first, overlap, restarts, torn>>
  BY DEF EndRoom, Unlock, fault
<1>2. Moved(p) /\ req'[p] = Idle
  BY Returns DEF Inv, TypeOK, EndRoom
<1>3. lock = p
  BY <1>1, Alone DEF Critical
<1> QED
  BY <1>1, <1>2, <1>3, RoomKeeps

LEMMA GMEndRoomKeeps ==
  ASSUME Inv, GMEndRoom
  PROVE  Inv'
<1>1. /\ state' = "GAME_END"
      /\ UNCHANGED <<game, roles, points, lock, drawn, hits, first, overlap, restarts, torn>>
  BY DEF GMEndRoom, fault
<1>2. GM \in Player /\ Moved(GM) /\ req'[GM] = Idle
  BY Players, Returns DEF Inv, TypeOK, GMEndRoom
<1> QED
  BY <1>1, <1>2, RoomKeeps DEF Inv, TypeOK

LEMMA GMEndGameKeeps ==
  ASSUME Inv, GMEndGame
  PROVE  Inv'
<1>1. /\ GM \in Player /\ req[GM].pc = "gm_game" /\ Goto(GM, "gm_room")
      /\ UNCHANGED <<state, roles, points, lock, drawn, hits, first, overlap, restarts, torn>>
  BY Players DEF GMEndGame, fault
<1>2. /\ Moved(GM) /\ req'[GM].pc = "gm_room" /\ req'[GM].kind = req[GM].kind
      /\ req'[GM].pend = req[GM].pend
  BY <1>1, Goes DEF Inv, TypeOK, Pc
<1>3. /\ game' \in Game /\ game'.phase = "VOTING" /\ game'.trans = game.trans
      /\ game'.end <= 0 /\ game'.strokes = game.strokes
      /\ game'.reason = "GM_END"
  BY GMEndIs DEF Inv
<1>4. TypeOK'
  BY <1>1, <1>2, <1>3 DEF Inv, TypeOK, Moved
<1>5. ASSUME NEW q \in Player PROVE EndSound(q)' /\ PlaySound(q)'
  <2>1. EndSound(q) /\ PlaySound(q)
    BY DEF Inv
  <2>2. CASE q = GM
    <3>1. Sound(req[q].pend)'
      BY <1>1, <1>2, <1>3, <2>1, <2>2 DEF EndSound, Sound
    <3> QED
      BY <1>1, <1>2, <1>3, <2>1, <2>2, <3>1 DEF EndSound, PlaySound, Critical, Before
  <2>3. CASE q # GM
    <3>1. SameRequest(q)
      BY <1>2, <2>3 DEF Moved, SameRequest
    <3> QED
      BY <1>1, <1>3, <2>1, <3>1, EndSoundKept, PlaySoundKept
  <2> QED
    BY <2>2, <2>3
<1>6. PaidThenEnded'
  BY <1>1, <1>2 DEF Inv, Stored, PaidThenEnded, Open, Moved, After
<1>7. ScoredOnce' /\ EndAgreesWithScore'
  BY <1>1, <1>3 DEF Inv, Stored, ScoredOnce, EndAgreesWithScore, Paid
<1>8. StrokesAddUp' /\ Sound(game.trans)'
  BY <1>1, <1>3 DEF Inv, Stored, StrokesAddUp, Sound
<1> QED
  BY <1>4, <1>5, <1>6, <1>7, <1>8 DEF Inv, Stored

\* A restart forgets the requests; when the game was paid and not yet over, the
\* cut is counted.
LEMMA RestartKeeps ==
  ASSUME Inv, Restart
  PROVE  Inv'
<1>1. /\ state = "IN_GAME" /\ restarts' = restarts + 1 /\ restarts < MaxRestarts
      /\ torn' = IF \E p \in Player : req[p].pc \in Ending THEN torn + 1 ELSE torn
      /\ lock' = Nobody /\ req' = [p \in Player |-> Idle]
      /\ UNCHANGED <<state, game, roles, points, drawn, hits, first, overlap>>
  BY DEF Restart
<1>2. /\ restarts \in 0..MaxRestarts /\ torn \in 0..restarts /\ MaxRestarts \in Nat
      /\ points \in [Player -> Nat]
  BY SingleAssumption DEF Inv, TypeOK
<1>3. restarts' \in 0..MaxRestarts /\ torn' \in 0..restarts' /\ torn' \in {torn, torn + 1}
  BY <1>1, <1>2
<1>4. TypeOK'
  BY <1>1, <1>3, IdleRequest DEF Inv, TypeOK
<1>5. ASSUME NEW q \in Player PROVE EndSound(q)' /\ PlaySound(q)'
  BY <1>1, IdleRequest, IdleSound
<1>6. PaidThenEnded'
  <2>1. \A q \in Player : points[q] \in Nat /\ points[q] <= 1 + torn
    BY <1>2 DEF Inv, Stored, PaidThenEnded
  <2>2. Open \/ torn' = torn + 1
    BY <1>1 DEF Inv, Stored, PaidThenEnded, After, Ending
  <2>3. Open'
    BY <1>1, <1>2, <1>3, <2>1, <2>2 DEF Open
  <2>4. \A q \in Player : points'[q] <= 1 + torn'
    BY <1>1, <1>2, <1>3, <2>1
  <2> QED
    BY <2>3, <2>4 DEF PaidThenEnded
<1>7. ScoredOnce' /\ EndAgreesWithScore'
  <2>1. ScoredOnce'
    BY <1>1, <1>2, <1>3, <1>6 DEF Inv, Stored, PaidThenEnded, ScoredOnce, Paid
  <2>2. torn' = 0 => torn = 0
    BY <1>2, <1>3
  <2>3. EndAgreesWithScore'
    BY <1>1, <2>2 DEF Inv, Stored, EndAgreesWithScore, Paid
  <2> QED
    BY <2>1, <2>3
<1>8. StrokesAddUp' /\ Sound(game.trans)'
  BY <1>1 DEF Inv, Stored, StrokesAddUp, Sound
<1> QED
  BY <1>4, <1>5, <1>6, <1>7, <1>8 DEF Inv, Stored

LEMMA ClockKeeps ==
  ASSUME Inv, ClockTick
  PROVE  Inv'
<1>1. UNCHANGED <<state, roles, points, lock, drawn, hits, first, overlap, restarts, torn>>
  BY DEF ClockTick, fault
<1>2. /\ game' \in Game /\ game'.phase = game.phase /\ game'.trans = game.trans
      /\ game'.end <= game.end /\ game'.strokes = game.strokes
      /\ game'.reason = game.reason /\ game'.winner = game.winner
      /\ req' \in [Player -> Request]
      /\ \A p \in Player : SameRequest(p)
  BY ClockIs DEF Inv, SameRequest
<1>3. game.end <= 0 => game'.end <= 0
  BY <1>2, SingleAssumption DEF Inv, TypeOK, Game
<1>4. TypeOK'
  BY <1>1, <1>2 DEF Inv, TypeOK
<1>5. ASSUME NEW q \in Player PROVE EndSound(q)' /\ PlaySound(q)'
  BY <1>1, <1>2, <1>3, EndSoundKept, PlaySoundKept DEF Inv
<1>6. PaidThenEnded'
  BY <1>1, <1>2 DEF Inv, Stored, PaidThenEnded, Open, SameRequest
<1>7. ScoredOnce' /\ EndAgreesWithScore' /\ StrokesAddUp' /\ Sound(game.trans)'
  BY <1>1, <1>2, <1>3 DEF Inv, Stored, ScoredOnce, EndAgreesWithScore, StrokesAddUp,
                         Sound, Paid
<1> QED
  BY <1>4, <1>5, <1>6, <1>7 DEF Inv, Stored

\* Drawn and left together are what they were.
LEMMA StrokeKeeps ==
  ASSUME Inv, Stroke
  PROVE  Inv'
<1>1. /\ Drawer \in Player /\ req[Drawer].pc = "stroke"
      /\ drawn' = IF drawn > StrokeLimit THEN drawn ELSE drawn + 1
      /\ UNCHANGED <<state, roles, points, lock, hits, first, overlap, restarts, torn>>
  BY Players DEF Stroke, fault
<1>2. /\ game' \in Game /\ game'.phase = game.phase /\ game'.trans = game.trans
      /\ game'.end = game.end /\ game'.strokes = req[Drawer].strokes - 1
      /\ game'.reason = game.reason /\ game'.winner = game.winner
  BY StrokeIs
<1>3. Moved(Drawer) /\ req'[Drawer] = Idle
  BY <1>1, Returns DEF Inv, TypeOK, Stroke
<1>4. /\ req[Drawer].strokes = game.strokes /\ game.trans.next # "DRAW"
      /\ drawn \in Nat /\ game.strokes \in Nat /\ StrokeLimit \in Nat
      /\ drawn + game.strokes <= StrokeLimit
  BY <1>1, SingleAssumption DEF Inv, PlaySound, TypeOK, Game, Stored, StrokesAddUp
<1>5. TypeOK'
  BY <1>1, <1>2, <1>3, <1>4 DEF Inv, TypeOK, Moved
<1>6. ASSUME NEW q \in Player PROVE EndSound(q)' /\ PlaySound(q)'
  <2>1. CASE q = Drawer
    BY <1>3, <2>1, IdleRequest, IdleSound
  <2>2. CASE q # Drawer
    <3>1. SameRequest(q) /\ EndSound(q) /\ PlaySound(q)
      BY <1>3, <2>2 DEF Moved, SameRequest, Inv
    <3>2. req[q].pc # "stroke"
      BY <2>2, <3>1 DEF PlaySound
    <3> QED
      BY <1>1, <1>2, <3>1, <3>2, EndSoundKept, PlaySoundKept
  <2> QED
    BY <2>1, <2>2
<1>7. PaidThenEnded'
  BY <1>1, <1>3 DEF Inv, Stored, PaidThenEnded, Open, Moved, After
<1>8. StrokesAddUp'
  BY <1>1, <1>2, <1>4 DEF Inv, Stored, StrokesAddUp
<1>9. ScoredOnce' /\ EndAgreesWithScore' /\ Sound(game.trans)'
  BY <1>1, <1>2 DEF Inv, Stored, ScoredOnce, EndAgreesWithScore, Sound, Paid
<1> QED
  BY <1>5, <1>6, <1>7, <1>8, <1>9 DEF Inv, Stored

-----------------------------------------------------------------------------
(***************************************************************************)
(* The invariant holds from the start and outlasts every step.             *)
(***************************************************************************)
LEMMA InitInv == Init => Inv
<1> SUFFICES ASSUME Init PROVE Inv
  OBVIOUS
<1> DEFINE tr == To("DRAW", "none", Nobody)
<1>1. tr \in Transition /\ tr.next = "DRAW" /\ tr.reason = "none"
  BY Transitions, ToFields
<1>2. /\ state = "IN_GAME" /\ roles = TRUE /\ points = [p \in Player |-> 0]
      /\ lock = Nobody /\ req = [p \in Player |-> Idle] /\ drawn = 0 /\ hits = {}
      /\ first = Nobody /\ overlap = FALSE /\ restarts = 0 /\ torn = 0
      /\ game = [phase |-> "TRANSITION", until |-> TransitionSec, end |-> GameSec,
                 strokes |-> StrokeLimit, trans |-> tr,
                 reason |-> "none", winner |-> Nobody]
  BY DEF Init
<1> HIDE DEF tr
<1>3. /\ game \in Game /\ game.phase = "TRANSITION" /\ game.trans = tr
      /\ game.strokes = StrokeLimit
  BY <1>1, <1>2, SingleAssumption DEF Game
<1>4. TypeOK
  <2>1. req \in [Player -> Request] /\ points \in [Player -> Nat]
    BY <1>2, IdleRequest
  <2>2. restarts \in 0..MaxRestarts /\ torn \in 0..restarts
    BY <1>2, SingleAssumption
  <2>3. /\ state \in {"IN_GAME", "GAME_END"} /\ roles \in BOOLEAN
        /\ lock \in Player \cup {Nobody} /\ drawn \in Nat /\ hits \in SUBSET Guesser
        /\ first \in Guesser \cup {Nobody} /\ overlap \in BOOLEAN
    BY <1>2
  <2> QED
    BY <1>3, <2>1, <2>2, <2>3 DEF TypeOK
<1>5. Paid = {} /\ Open
  BY <1>2 DEF Paid, Open
<1>6. PaidThenEnded /\ ScoredOnce /\ EndAgreesWithScore
  BY <1>2, <1>3, <1>5 DEF PaidThenEnded, Open, ScoredOnce, EndAgreesWithScore
<1>7. StrokesAddUp /\ Sound(game.trans)
  BY <1>1, <1>2, <1>3, SingleAssumption DEF StrokesAddUp, Sound
<1>8. ASSUME NEW p \in Player PROVE EndSound(p) /\ PlaySound(p)
  <2>1. Sound(req[p].pend)
    BY <1>2, IdleRequest, Transitions DEF Sound
  <2> QED
    BY <1>2, <2>1, IdleRequest DEF EndSound, PlaySound, Critical, Before
<1> QED
  BY <1>4, <1>6, <1>7, <1>8 DEF Inv, Stored

LEMMA StutterKeeps ==
  ASSUME Inv, UNCHANGED vars
  PROVE  Inv'
<1>1. UNCHANGED <<state, game, roles, points, lock, req, drawn, hits, first,
                  overlap, restarts, torn>>
  BY DEF vars, fault
<1>2. TypeOK' /\ Stored'
  BY <1>1 DEF Inv, TypeOK, Stored, PaidThenEnded, Open, StrokesAddUp, Sound,
              ScoredOnce, EndAgreesWithScore, Paid
<1>3. ASSUME NEW p \in Player PROVE EndSound(p)' /\ PlaySound(p)'
  BY <1>1, EndSoundKept, PlaySoundKept DEF Inv, SameRequest
<1> QED
  BY <1>2, <1>3 DEF Inv

LEMMA NextKeeps == Inv /\ [Next]_vars => Inv'
<1> SUFFICES ASSUME Inv, [Next]_vars PROVE Inv'
  OBVIOUS
<1>1. ASSUME NEW p \in Player, Step(p) PROVE Inv'
  BY <1>1, LockKeeps, ExpireKeeps, StartKeeps, TimesUpKeeps, AwardKeeps,
     AwardDrawerKeeps, ClearRolesKeeps, EndGameKeeps, EndRoomKeeps, PlayReadKeeps, GuessKeeps,
     StrokeKeeps, GMEndGameKeeps, GMEndRoomKeeps DEF Step
<1>2. ASSUME NEW p \in Player, BeginTick(p) \/ BeginGuess(p) PROVE Inv'
  BY <1>2, BeginKeeps
<1>3. CASE BeginDraw \/ BeginGMEnd
  BY <1>3, BeginKeeps, Players
<1>4. ASSUME NEW p \in Player, RejectedAfterEnd(p) PROVE Inv'
  BY <1>4, StutterKeeps DEF RejectedAfterEnd
<1> QED
  BY <1>1, <1>2, <1>3, <1>4, RestartKeeps, ClockKeeps, StutterKeeps DEF Next

LEMMA AlwaysInv == Spec => []Inv
  BY InitInv, NextKeeps, PTL DEF Spec

\* The variables of a SINGLE game keep their types: in particular the strokes
\* that are left never go below 0 or above the limit, whatever is written back.
THEOREM TypeCorrect == Spec => []TypeOK
<1>1. Inv => TypeOK
  BY DEF Inv
<1> QED
  BY <1>1, AlwaysInv, PTL

\* A SINGLE game is scored once: for the GameMaster, or for a guesser who was
\* right and the drawer; only a restart in the middle of its end repeats that.
THEOREM ScoredOnceOrTorn == Spec => []ScoredOnce
<1>1. Inv => ScoredOnce
  BY DEF Inv, Stored
<1> QED
  BY <1>1, AlwaysInv, PTL

\* The result in the game hash is the one that _finish_single_game has paid.
THEOREM ResultIsPaid == Spec => []EndAgreesWithScore
<1>1. Inv => EndAgreesWithScore
  BY DEF Inv, Stored
<1> QED
  BY <1>1, AlwaysInv, PTL

\* The drawer of a SINGLE game draws no more strokes than its limit, though a
\* stroke writes back a counter it read earlier.
THEOREM StrokesBounded == Spec => []StrokesPerGame
<1>1. Inv => StrokesPerGame
  <2> SUFFICES ASSUME Inv PROVE StrokesPerGame
    OBVIOUS
  <2>1. drawn \in Nat /\ game.strokes \in Nat /\ drawn + game.strokes <= StrokeLimit
    BY SingleAssumption DEF Inv, TypeOK, Game, Stored, StrokesAddUp
  <2> QED
    BY <2>1, SingleAssumption DEF StrokesPerGame
<1> QED
  BY <1>1, AlwaysInv, PTL

-----------------------------------------------------------------------------
(***************************************************************************)
(* A SINGLE game keeps the promises of GameResult.                         *)
(***************************************************************************)
\* A step that GameResult does not see.
LEMMA Unseen ==
  ASSUME points' = points, hits' = hits, state' = state, torn' = torn,
         game'.end = game.end
  PROVE  UNCHANGED Outcome!vars
  BY DEF Outcome!vars

\* The deadline comes nearer: at some time the game has run out.
LEMMA EndNearer ==
  ASSUME points' = points, hits' = hits, state' = state, torn' = torn,
         game.end <= 0 => game'.end <= 0,
         Inv, Inv'
  PROVE  Outcome!RunOut \/ UNCHANGED Outcome!vars
<1>1. game.end \in Int /\ game'.end \in Int
  BY DEF Inv, TypeOK, Game
<1>2. CASE game'.end <= 0
  <2>1. (game'.end <= 0) = TRUE
    BY <1>1, <1>2
  <2> QED
    BY <2>1 DEF Outcome!RunOut
<1>3. CASE ~(game'.end <= 0)
  <2>1. (game'.end <= 0) = (game.end <= 0)
    BY <1>1, <1>3
  <2> QED
    BY <2>1 DEF Outcome!vars
<1> QED
  BY <1>2, <1>3

LEMMA Closes ==
  ASSUME points' = points, hits' = hits, state' = "GAME_END", torn' = torn, game' = game
  PROVE  Outcome!Close
  BY DEF Outcome!Close

\* A point goes to a guesser who was right and then to the drawer; or the time
\* is up.
LEMMA AwardRefines ==
  ASSUME Inv, NEW p \in Player, Award(p)
  PROVE  Outcome!Next
<1> DEFINE w == IF req[p].pend.reason = "CORRECT" THEN req[p].pend.winner ELSE GM
<1>1. UNCHANGED <<state, game, hits, torn>> /\ hits \subseteq Guesser
  BY DEF Award, fault, Inv, TypeOK
<1>2. /\ w \in Player /\ points' = [points EXCEPT ![w] = points[w] + 1]
      /\ torn = 0 => Paid = {}
      /\ points[w] = 0 \/ torn > 0
      /\ (w = GM /\ game.end <= 0) \/ w \in hits
  BY AwardPays
<1> HIDE DEF w
<1>3. torn = 0 \/ torn > 0
  BY DEF Inv, TypeOK
<1>4. Outcome!Paid = Paid
  BY DEF Outcome!Paid, Paid
<1>5. ASSUME NEW W PROVE Outcome!Pay(w, W)
  BY <1>1, <1>2, <1>3, <1>4 DEF Outcome!Pay
<1>6. CASE w = GM /\ game.end <= 0
  BY <1>5, <1>6 DEF Outcome!PayGM, Outcome!Next
<1>7. CASE w \in hits
  <2>1. w \in Guesser /\ w \in [g \in Guesser |-> {g, Drawer}][w]
    BY <1>1, <1>7
  <2>2. Outcome!PaySide(w)
    BY <1>5, <1>7, <2>1 DEF Outcome!PaySide
  <2> QED
    BY <2>1, <2>2 DEF Outcome!Next
<1> QED
  BY <1>2, <1>6, <1>7

LEMMA AwardDrawerRefines ==
  ASSUME Inv, NEW p \in Player, AwardDrawer(p)
  PROVE  Outcome!Next
<1> DEFINE w == req[p].pend.winner
           W == [g \in Guesser |-> {g, Drawer}][w]
<1>1. UNCHANGED <<state, game, hits, torn>> /\ hits \subseteq Guesser
  BY DEF AwardDrawer, fault, Inv, TypeOK
<1>2. /\ w \in hits /\ points' = [points EXCEPT ![Drawer] = points[Drawer] + 1]
      /\ torn = 0 => Paid = {w}
      /\ points[Drawer] = 0 \/ torn > 0
  BY DrawerPays
<1> HIDE DEF w
<1>3. w \in Guesser /\ W = {w, Drawer}
  BY <1>1, <1>2
<1> HIDE DEF W
<1>4. torn = 0 \/ torn > 0
  BY DEF Inv, TypeOK
<1>5. Outcome!Paid = Paid
  BY DEF Outcome!Paid, Paid
<1>6. Outcome!Pay(Drawer, W)
  BY <1>1, <1>2, <1>3, <1>4, <1>5 DEF Outcome!Pay
<1>7. Outcome!PaySide(w)
  BY <1>2, <1>3, <1>6 DEF Outcome!PaySide, W
<1> QED
  BY <1>3, <1>7 DEF Outcome!Next

LEMMA GuessRefines ==
  ASSUME Inv, NEW p \in Player, GuessWrite(p)
  PROVE  Outcome!Next
<1>1. p \in Guesser
  BY DEF GuessWrite, Inv, PlaySound
<1>2. /\ hits' = hits \cup {p} /\ UNCHANGED <<state, points, torn>>
      /\ game'.end = game.end
  BY <1>1, GuessIs DEF GuessWrite, fault, Inv
<1>3. Outcome!GuessedRight(p)
  BY <1>2 DEF Outcome!GuessedRight
<1> QED
  BY <1>1, <1>3 DEF Outcome!Next

LEMMA RestartRefines ==
  ASSUME Inv, Restart
  PROVE  Outcome!Next \/ UNCHANGED Outcome!vars
<1>1. /\ UNCHANGED <<state, game, points, hits>> /\ state = "IN_GAME"
      /\ torn' = torn \/ torn' = torn + 1
  BY DEF Restart
<1>2. CASE torn' = torn
  BY <1>1, <1>2, Unseen
<1>3. CASE torn' = torn + 1
  <2>1. (torn' > 0) = TRUE
    BY <1>3 DEF Inv, TypeOK
  <2>2. Outcome!Tear
    BY <1>1, <2>1 DEF Outcome!Tear
  <2> QED
    BY <2>2 DEF Outcome!Next
<1> QED
  BY <1>1, <1>2, <1>3

LEMMA RequestRefines ==
  ASSUME Inv, Inv', NEW p \in Player, Step(p)
  PROVE  Outcome!Next \/ UNCHANGED Outcome!vars
<1>1. CASE \/ Lock(p) \/ Expire(p) \/ ClearRoles(p) \/ GuessRead(p) \/ GuessRole(p)
           \/ DrawRead
  BY <1>1, Unseen DEF Lock, Expire, ClearRoles, GuessRead, GuessRole, DrawRead, fault
<1>2. CASE StartDraw(p) \/ TimesUp(p) \/ Stroke
  <2>1. game'.end = game.end
    BY <1>2, StartIs, TimesUpIs, StrokeIs DEF Inv
  <2> QED
    BY <1>2, <2>1, Unseen DEF StartDraw, TimesUp, Stroke, fault
<1>3. CASE EndGame(p) \/ (p = GM /\ GMEndGame)
  <2>1. game'.end <= 0
    BY <1>3, EndIs, GMEndIs DEF Inv
  <2>2. Outcome!RunOut \/ UNCHANGED Outcome!vars
    BY <1>3, <2>1, EndNearer DEF EndGame, GMEndGame, fault
  <2> QED
    BY <2>2 DEF Outcome!Next
<1>4. CASE EndRoom(p) \/ GMEndRoom
  BY <1>4, Closes DEF EndRoom, GMEndRoom, fault, Outcome!Next
<1>5. CASE Award(p) \/ AwardDrawer(p) \/ GuessWrite(p)
  BY <1>5, AwardRefines, AwardDrawerRefines, GuessRefines
<1> QED
  BY <1>1, <1>2, <1>3, <1>4, <1>5 DEF Step

LEMMA StepRefines == Inv /\ Inv' /\ [Next]_vars => [Outcome!Next]_Outcome!vars
<1> SUFFICES ASSUME Inv, Inv', [Next]_vars
             PROVE  Outcome!Next \/ UNCHANGED Outcome!vars
  OBVIOUS
<1>1. ASSUME NEW p \in Player, BeginTick(p) \/ BeginGuess(p) \/ RejectedAfterEnd(p)
      PROVE  UNCHANGED Outcome!vars
  BY <1>1, Unseen DEF BeginTick, BeginGuess, Begin, Arrive, RejectedAfterEnd, vars, fault
<1>2. CASE BeginDraw \/ BeginGMEnd \/ UNCHANGED vars
  BY <1>2, Unseen DEF BeginDraw, BeginGMEnd, Begin, Arrive, vars, fault
<1>3. CASE ClockTick
  <2>1. game.end <= 0 => game'.end <= 0
    BY <1>3, ClockIs, SingleAssumption DEF Inv, TypeOK, Game
  <2> QED
    BY <1>3, <2>1, EndNearer DEF ClockTick, fault, Outcome!Next
<1> QED
  BY <1>1, <1>2, <1>3, RequestRefines, RestartRefines DEF Next

LEMMA InitRefines == Init => Outcome!Init
<1> SUFFICES ASSUME Init PROVE Outcome!Init
  OBVIOUS
<1>1. (game.end <= 0) \in BOOLEAN /\ (torn > 0) = FALSE
  BY SingleAssumption DEF Init
<1>2. (state = "GAME_END") = FALSE
  BY DEF Init
<1> QED
  BY <1>1, <1>2 DEF Init, Outcome!Init

\* The points of a SINGLE game, the correct guesses, its time and its end are at
\* all times those of a game as GameResult promises it, restarts included.
THEOREM ImplementsGameResult == Spec => ImplementsResult
  BY AlwaysInv, InitRefines, StepRefines, PTL DEF Spec, ImplementsResult, Outcome!Spec

-----------------------------------------------------------------------------
(***************************************************************************)
(* While no two requests overlap.  A restart may still cut a request short.*)
(***************************************************************************)
\* The one request that may be under way is that of p.
Only(p) == \A q \in Player : q # p => req[q].pc = "idle"

\* The room is only told of an end whose vote is open, and is left alone then.
VoteGood(p) ==
  /\ req[p].pc \in {"end_room", "gm_room"} => game.phase = "VOTING"
  /\ state = "GAME_END" =>
       game.phase = "VOTING" /\ req[p].pc \in {"idle", "gm_game", "gm_room"}

\* Until there is a correct guess the game goes on; then whatever is shown or
\* is about to be written names its guesser.
FirstGood(p) ==
  torn = 0 =>
    /\ game.phase = "VOTING" =>
         /\ state = "GAME_END" \/ req[p].pc \in {"end_room", "gm_room"}
         /\ game.reason # "GM_END" => game.winner = first
    /\ game.phase = "DRAW" => first = Nobody
    /\ game.phase = "TRANSITION" /\ game.trans.next = "DRAW" => first = Nobody
    /\ game.phase = "TRANSITION" /\ game.trans.next = "GAME_END"
         => game.trans.winner = first
    /\ req[p].pc = "start_draw" => game.phase = "TRANSITION"
    /\ req[p].pc \in {"times_up", "guess_role", "guess_write", "stroke"}
         => game.phase = "DRAW"
    /\ req[p].pc \in {"award", "award_drawer", "clear_roles", "end_game"} => req[p].pend.winner = first

Good(p) == VoteGood(p) /\ FirstGood(p)
Orderly == overlap \/ \E p \in Player : Only(p) /\ Good(p)

\* A step that leaves the stored game alone.
LEMMA ReadsOnly ==
  ASSUME NEW p \in Player, Good(p), UNCHANGED <<game, state, first, torn>>,
         state = "IN_GAME", req[p].pc \notin {"end_room", "gm_room"},
         \/ req'[p].pc \in {"idle", "lock", "expire", "draw", "guess", "gm_game"}
         \/ req'[p].pc = "start_draw" /\ game.phase = "TRANSITION"
         \/ /\ req'[p].pc \in {"times_up", "guess_role", "guess_write", "stroke"}
            /\ torn = 0 => game.phase = "DRAW"
         \/ /\ req'[p].pc \in {"award", "award_drawer", "clear_roles", "end_game"}
            /\ torn = 0 => req'[p].pend.winner = first
  PROVE  Good(p)'
<1>1. VoteGood(p)'
  BY DEF VoteGood
<1>2. FirstGood(p)'
  BY DEF Good, FirstGood
<1> QED
  BY <1>1, <1>2 DEF Good

\* _auto_expire_single_game up to what it writes,
LEMMA ExpireGood ==
  ASSUME Inv, NEW p \in Player, Good(p), Lock(p) \/ Expire(p)
  PROVE  Moved(p) /\ Good(p)'
<1>0. /\ req \in [Player -> Request] /\ state = "IN_GAME"
      /\ UNCHANGED <<game, state, first, torn>>
      /\ req[p].pc \notin {"end_room", "gm_room"}
      /\ game.phase \in {"TRANSITION", "DRAW", "VOTING"} /\ game.trans \in Transition
  BY DEF Inv, TypeOK, Game, Good, VoteGood, Lock, Expire, fault
<1>1. ASSUME Proceed(p) PROVE Moved(p) /\ Good(p)'
  <2>1. Moved(p) /\ req'[p].pc \in {"idle", "draw", "guess"}
    BY <1>0, <1>1, Proceeds, IdleRequest
  <2> QED
    BY <1>0, <2>1, ReadsOnly
<1>2. CASE Lock(p)
  <2>1. CASE Goto(p, "expire")
    BY <1>0, <2>1, Goes, ReadsOnly DEF Pc
  <2> QED
    BY <1>1, <1>2, <2>1 DEF Lock
<1>3. CASE Expire(p)
  <2>1. ASSUME game.phase = "TRANSITION", game.trans.next = "GAME_END",
               req' = [req EXCEPT ![p].pc = "award", ![p].pend = game.trans]
        PROVE  Moved(p) /\ Good(p)'
    <3>1. Moved(p) /\ req'[p].pc = "award" /\ req'[p].pend = game.trans
      BY <1>0, <2>1 DEF Moved, Request, Pc
    <3>2. torn = 0 => game.trans.winner = first
      BY <2>1 DEF Good, FirstGood
    <3> QED
      BY <1>0, <3>1, <3>2, ReadsOnly
  <2>2. ASSUME game.phase = "TRANSITION", Goto(p, "start_draw")
        PROVE  Moved(p) /\ Good(p)'
    BY <1>0, <2>2, Goes, ReadsOnly DEF Pc
  <2>3. ASSUME game.phase # "TRANSITION", Goto(p, "times_up")
        PROVE  Moved(p) /\ Good(p)'
    <3>1. torn = 0 => game.phase = "DRAW"
      BY <1>0, <1>3, <2>3 DEF Good, FirstGood, Expire
    <3> QED
      BY <1>0, <2>3, <3>1, Goes, ReadsOnly DEF Pc
  <2> QED
    BY <1>1, <1>3, <2>1, <2>2, <2>3 DEF Expire
<1> QED
  BY <1>2, <1>3

\* strokes, and guesses up to the winner's screen,
LEMMA PlayGood ==
  ASSUME Inv, NEW p \in Player, Good(p),
         \/ GuessRead(p) \/ GuessRole(p) \/ Award(p) \/ AwardDrawer(p) \/ ClearRoles(p)
         \/ p = Drawer /\ (DrawRead \/ Stroke)
  PROVE  Moved(p) /\ Good(p)'
<1>0. /\ req \in [Player -> Request] /\ state = "IN_GAME"
      /\ UNCHANGED <<state, first, torn>>
      /\ req[p].pc \notin {"end_room", "gm_room"}
  BY DEF Inv, TypeOK, Good, VoteGood, GuessRead, GuessRole, Award, AwardDrawer, ClearRoles,
         DrawRead, Stroke, fault
<1>1. ASSUME Return(p), game' = game PROVE Moved(p) /\ Good(p)'
  BY <1>0, <1>1, Returns, IdleRequest, ReadsOnly
<1>2. CASE GuessRead(p)
  BY <1>0, <1>1, <1>2, Goes, ReadsOnly DEF GuessRead, Pc
<1>3. CASE GuessRole(p)
  <2>1. torn = 0 => game.phase = "DRAW"
    BY <1>3 DEF GuessRole, Good, FirstGood
  <2> QED
    BY <1>0, <1>1, <1>3, <2>1, Goes, ReadsOnly DEF GuessRole, Pc
<1>4. CASE Award(p) \/ AwardDrawer(p) \/ ClearRoles(p)
  <2>1. torn = 0 => req[p].pend.winner = first
    BY <1>4 DEF Award, AwardDrawer, ClearRoles, Good, FirstGood
  <2> QED
    BY <1>0, <1>4, <2>1, Goes, ReadsOnly DEF Award, AwardDrawer, ClearRoles, Pc
<1>5. CASE p = Drawer /\ DrawRead
  <2>1. ASSUME game.phase = "DRAW",
               req' = [req EXCEPT ![p].pc = "stroke", ![p].strokes = game.strokes]
        PROVE  Moved(p) /\ Good(p)'
    <3> DEFINE r == [req[p] EXCEPT !.pc = "stroke", !.strokes = game.strokes]
    <3>1. r \in Request /\ r.pc = "stroke"
      <4>1. game.strokes \in 0..StrokeLimit /\ req[p] \in Request
        BY <1>0 DEF Inv, TypeOK, Game
      <4> QED
        BY <4>1 DEF Request, Pc
    <3>2. req' = [req EXCEPT ![p] = r]
      BY <1>0, <2>1 DEF Request
    <3> HIDE DEF r
    <3>3. Moved(p) /\ req'[p].pc = "stroke"
      BY <1>0, <3>1, <3>2 DEF Moved
    <3> QED
      BY <1>0, <1>5, <2>1, <3>3, ReadsOnly DEF DrawRead
  <2> QED
    BY <1>1, <1>5, <2>1 DEF DrawRead
<1>6. CASE p = Drawer /\ Stroke
  <2>1. /\ game'.phase = game.phase /\ game'.trans = game.trans
        /\ game'.reason = game.reason /\ game'.winner = game.winner
    BY <1>6, StrokeIs
  <2>2. Moved(p) /\ req'[p].pc = "idle"
    BY <1>0, <1>6, Returns, IdleRequest DEF Stroke
  <2>3. VoteGood(p)' /\ FirstGood(p)'
    BY <1>0, <2>1, <2>2 DEF Good, VoteGood, FirstGood
  <2> QED
    BY <2>2, <2>3 DEF Good
<1> QED
  BY <1>2, <1>3, <1>4, <1>5, <1>6

\* and the writes: screens, the vote and the room.
LEMMA WriteGood ==
  ASSUME Inv, NEW p \in Player, Good(p),
         \/ StartDraw(p) \/ TimesUp(p) \/ GuessWrite(p) \/ EndGame(p) \/ EndRoom(p)
         \/ p = GM /\ (GMEndGame \/ GMEndRoom)
  PROVE  Moved(p) /\ Good(p)'
<1>0. TypeOK /\ req \in [Player -> Request] /\ torn' = torn
  BY DEF Inv, TypeOK, StartDraw, TimesUp, GuessWrite, EndGame, EndRoom, GMEndGame,
         GMEndRoom, fault
<1>1. CASE StartDraw(p)
  <2>1. game'.phase = "DRAW"
    BY <1>0, <1>1, StartIs
  <2>2. Moved(p) /\ req'[p].pc = "idle" /\ UNCHANGED <<state, first>>
    BY <1>0, <1>1, Returns, IdleRequest DEF StartDraw
  <2>3. state # "GAME_END" /\ (torn = 0 => first = Nobody)
    BY <1>1 DEF StartDraw, Good, VoteGood, FirstGood, Inv, PlaySound
  <2>4. VoteGood(p)' /\ FirstGood(p)'
    BY <1>0, <2>1, <2>2, <2>3 DEF VoteGood, FirstGood
  <2> QED
    BY <2>2, <2>4 DEF Good
<1>2. CASE TimesUp(p)
  <2>1. /\ game'.phase = "TRANSITION" /\ game'.trans.next = "GAME_END"
        /\ game'.trans.winner = Nobody
    BY <1>0, <1>2, TimesUpIs, ToFields
  <2>2. Moved(p) /\ req'[p].pc = "idle" /\ UNCHANGED <<state, first>>
    BY <1>0, <1>2, Returns, IdleRequest DEF TimesUp
  <2>3. state # "GAME_END" /\ (torn = 0 => first = Nobody)
    BY <1>2 DEF TimesUp, Good, VoteGood, FirstGood
  <2>4. VoteGood(p)' /\ FirstGood(p)'
    BY <1>0, <2>1, <2>2, <2>3 DEF VoteGood, FirstGood
  <2> QED
    BY <2>2, <2>4 DEF Good
<1>3. CASE GuessWrite(p)
  <2>1. p \in Guesser
    BY <1>3 DEF GuessWrite, Inv, PlaySound
  <2>2. /\ game'.phase = "TRANSITION" /\ game'.trans.next = "GAME_END"
        /\ game'.trans.winner = p
    BY <1>0, <1>3, <2>1, GuessIs, ToFields
  <2>3. Moved(p) /\ req'[p].pc = "idle" /\ state' = state
    BY <1>0, <1>3, Returns, IdleRequest DEF GuessWrite
  <2>4. state # "GAME_END" /\ (torn = 0 => first' = p)
    BY <1>3 DEF GuessWrite, Good, VoteGood, FirstGood
  <2>5. VoteGood(p)' /\ FirstGood(p)'
    BY <1>0, <2>2, <2>3, <2>4 DEF VoteGood, FirstGood
  <2> QED
    BY <2>3, <2>5 DEF Good
<1>4. CASE EndGame(p)
  <2>1. game'.phase = "VOTING" /\ game'.winner = req[p].pend.winner
    BY <1>0, <1>4, EndIs
  <2>2. Moved(p) /\ req'[p].pc = "end_room" /\ UNCHANGED <<state, first>>
    BY <1>0, <1>4, Goes DEF EndGame, Pc
  <2>3. state # "GAME_END" /\ (torn = 0 => req[p].pend.winner = first)
    BY <1>4 DEF EndGame, Good, VoteGood, FirstGood
  <2>4. VoteGood(p)' /\ FirstGood(p)'
    BY <1>0, <2>1, <2>2, <2>3 DEF VoteGood, FirstGood
  <2> QED
    BY <2>2, <2>4 DEF Good
<1>5. CASE EndRoom(p) \/ (p = GM /\ GMEndRoom)
  <2>1. /\ req[p].pc \in {"end_room", "gm_room"} /\ state' = "GAME_END"
        /\ UNCHANGED <<game, first>>
    BY <1>5 DEF EndRoom, GMEndRoom
  <2>2. Moved(p) /\ req'[p].pc = "idle"
    BY <1>0, <1>5, Returns, IdleRequest DEF EndRoom, GMEndRoom
  <2>3. VoteGood(p)' /\ FirstGood(p)'
    BY <1>0, <2>1, <2>2 DEF Good, VoteGood, FirstGood
  <2> QED
    BY <2>2, <2>3 DEF Good
<1>6. CASE p = GM /\ GMEndGame
  <2>1. game'.phase = "VOTING" /\ game'.reason = "GM_END"
    BY <1>0, <1>6, GMEndIs
  <2>2. Moved(p) /\ req'[p].pc = "gm_room" /\ UNCHANGED <<state, first>>
    BY <1>0, <1>6, Goes DEF GMEndGame, Pc
  <2>3. VoteGood(p)' /\ FirstGood(p)'
    BY <1>0, <2>1, <2>2 DEF VoteGood, FirstGood
  <2> QED
    BY <2>2, <2>3 DEF Good
<1> QED
  BY <1>1, <1>2, <1>3, <1>4, <1>5, <1>6

-----------------------------------------------------------------------------
\* One request after the other.
LEMMA StepOrderly ==
  ASSUME Inv, Orderly, NEW p \in Player, Step(p)
  PROVE  Orderly'
<1>1. overlap' = overlap /\ req[p].pc # "idle"
  BY DEF Step, Lock, Expire, StartDraw, TimesUp, Award, AwardDrawer, ClearRoles, EndGame, EndRoom,
         GuessRead, GuessRole, GuessWrite, DrawRead, Stroke, GMEndGame, GMEndRoom, fault
<1>2. CASE ~overlap
  <2>1. Only(p) /\ Good(p)
    BY <1>1, <1>2 DEF Orderly, Only
  <2>2. Moved(p) /\ Good(p)'
    BY <2>1, ExpireGood, PlayGood, WriteGood DEF Step
  <2>3. Only(p)'
    BY <2>1, <2>2 DEF Only, Moved
  <2> QED
    BY <2>2, <2>3 DEF Orderly
<1> QED
  BY <1>1, <1>2 DEF Orderly

\* A request that begins while another is under way makes them overlap.
LEMMA ArriveOrderly ==
  ASSUME Inv, Orderly, NEW p \in Player, NEW pc, NEW kind \in {"tick", "draw", "guess"},
         Arrive(p, pc, kind),
         pc = "gm_game" \/ (pc = "lock" /\ state = "IN_GAME")
  PROVE  Orderly'
<1> SUFFICES ASSUME ~overlap' PROVE Orderly'
  BY DEF Orderly
<1>1. ~overlap /\ \A q \in Player : req[q].pc = "idle"
  BY DEF Arrive, Busy
<1>2. PICK q \in Player : Good(q)
  BY <1>1 DEF Orderly
<1>3. Moved(p) /\ req'[p].pc = pc /\ UNCHANGED <<game, state, first, torn>>
  <2>1. pc \in Pc /\ req \in [Player -> Request]
    BY DEF Pc, Inv, TypeOK
  <2> QED
    BY <2>1, Arrives DEF Arrive
<1>4. Only(p)'
  BY <1>1, <1>3 DEF Only, Moved
<1>5. VoteGood(p)' /\ FirstGood(p)'
  BY <1>1, <1>2, <1>3 DEF Good, VoteGood, FirstGood
<1> QED
  BY <1>4, <1>5 DEF Orderly, Good

\* The server is started again in the middle of a request.
LEMMA RestartOrderly ==
  ASSUME Inv, Orderly, Restart
  PROVE  Orderly'
<1>1. /\ state = "IN_GAME" /\ overlap' = overlap
      /\ UNCHANGED <<game, state, first>>
      /\ \A q \in Player : req'[q] = Idle
  BY DEF Restart
<1>2. CASE ~overlap
  <2>1. PICK p \in Player : Only(p) /\ Good(p)
    BY <1>2 DEF Orderly
  <2>2. req'[p].pc = "idle" /\ Only(p)'
    BY <1>1, IdleRequest DEF Only
  <2>3. VoteGood(p)'
    BY <1>1, <2>2 DEF VoteGood
  <2>4. FirstGood(p)'
    <3>1. torn \in Nat /\ (req[p].pc \in Ending => torn' = torn + 1)
          /\ torn' \in {torn, torn + 1}
      BY SingleAssumption DEF Inv, TypeOK, Restart
    <3>2. CASE req[p].pc \in Ending
      BY <3>1, <3>2 DEF FirstGood
    <3>3. CASE req[p].pc \notin Ending
      BY <1>1, <2>1, <2>2, <3>1, <3>3 DEF Good, FirstGood, Ending
    <3> QED
      BY <3>2, <3>3
  <2> QED
    BY <2>2, <2>3, <2>4 DEF Orderly, Good
<1> QED
  BY <1>1, <1>2 DEF Orderly

LEMMA NextOrderly == Inv /\ Orderly /\ [Next]_vars => Orderly'
<1> SUFFICES ASSUME Inv, Orderly, [Next]_vars PROVE Orderly'
  OBVIOUS
<1>1. ASSUME NEW p \in Player, BeginTick(p) \/ BeginGuess(p) PROVE Orderly'
  BY <1>1, ArriveOrderly DEF BeginTick, BeginGuess, Begin
<1>2. CASE BeginDraw
  BY <1>2, ArriveOrderly, Players DEF BeginDraw, Begin
<1>3. CASE BeginGMEnd
  BY <1>3, ArriveOrderly, Players DEF BeginGMEnd
<1>4. CASE ClockTick
  <2>1. /\ game'.phase = game.phase /\ game'.trans = game.trans
        /\ game'.reason = game.reason /\ game'.winner = game.winner
        /\ \A p \in Player : req'[p].pc = req[p].pc /\ req'[p].pend = req[p].pend
        /\ UNCHANGED <<state, first, overlap, torn>>
    BY <1>4, ClockIs DEF Inv, ClockTick, fault
  <2> QED
    BY <2>1 DEF Orderly, Only, Good, VoteGood, FirstGood
<1>5. CASE UNCHANGED vars
  BY <1>5 DEF vars, fault, Orderly, Only, Good, VoteGood, FirstGood
<1> QED
  BY <1>1, <1>2, <1>3, <1>4, <1>5, StepOrderly, RestartOrderly
     DEF Next, RejectedAfterEnd

LEMMA AlwaysOrderly == Spec => []Orderly
<1>1. Init => Orderly
  <2> SUFFICES ASSUME Init PROVE Only(GM) /\ Good(GM)
    BY Players DEF Orderly
  <2>1. \A p \in Player : req[p].pc = "idle"
    BY IdleRequest DEF Init
  <2> QED
    BY <2>1, Players DEF Init, Only, Good, VoteGood, FirstGood, To
<1> QED
  BY <1>1, AlwaysInv, NextOrderly, PTL DEF Spec

\* "Correct guess -> game ends": until two requests overlap, the first correct
\* guess decides a game, whatever restarts of the server lie between the guess
\* and the end, as long as none cuts the end itself short.
THEOREM FirstGuessDecides == Spec => []FirstCorrectGuessWins
<1>1. Orderly => FirstCorrectGuessWins
  BY DEF Orderly, Good, FirstGood, FirstCorrectGuessWins
<1> QED
  BY <1>1, AlwaysOrderly, PTL

\* "GAME_END + VOTING": until two requests overlap, a room in GAME_END is in
\* its vote, however the game has ended and whatever restarts there were.
THEOREM EndIsVote == Spec => []EndOpensVote
<1>1. Orderly => EndOpensVote
  BY DEF Orderly, Good, VoteGood, EndOpensVote
<1> QED
  BY <1>1, AlwaysOrderly, PTL
=============================================================================
