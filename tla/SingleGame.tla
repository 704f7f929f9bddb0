----------------------------- MODULE SingleGame -----------------------------
(***************************************************************************)
(* One game of a SINGLE room, from the ROUND START screen that             *)
(* handle_single_start_game leaves until the room is in GAME_END: the one  *)
(* drawer's strokes, the guesses, the time limit, the transition screens,  *)
(* the scoring, and the GameMaster's end_game.                             *)
(*                                                                         *)
(* Every handler first runs _auto_expire_single_game, under a lock of the  *)
(* room and with the header read again; when that changes something the    *)
(* handler returns, otherwise it goes on without the lock.  One action is  *)
(* one Redis command that reads or writes what another handler writes.     *)
(*                                                                         *)
(* A handler takes its time stamp ts once, when it starts.  age is how far *)
(* the clock has moved since: the handler sees a deadline that is d        *)
(* seconds away as d + age seconds away.                                   *)
(***************************************************************************)
EXTENDS Integers, FiniteSets

CONSTANTS
  GM,             \* pid of the GameMaster, header.gm_pid
  Drawer,         \* pid of the drawer, drawer_pid
  Guesser,        \* the pids whose role is guesser
  Beating,        \* the players whose heartbeats are looked at
  Nobody,         \* the lock is free; there is no winner
  StrokeLimit,    \* stroke_limit
  GameSec,        \* time_limit_sec
  TransitionSec,  \* SINGLE_TRANSITION_SEC
  MaxDelay,       \* bound on the seconds a handler is under way
  MaxInFlight,    \* bound on the requests being handled at one time
  MaxRestarts     \* bound on the restarts of the server

Player == {GM, Drawer} \cup Guesser

ASSUME SingleAssumption ==
  /\ GM # Drawer /\ GM \notin Guesser /\ Drawer \notin Guesser
  /\ Beating \subseteq Player /\ Nobody \notin Player
  /\ StrokeLimit \in Nat \ {0}
  /\ GameSec \in Nat /\ TransitionSec \in Nat
  /\ MaxDelay \in Nat /\ MaxInFlight \in Nat /\ MaxRestarts \in Nat

VARIABLES
  state,   \* header.state
  game,    \* the game hash: phase, the two deadlines, strokes, transition, result
  roles,   \* the roles in the player records have not been cleared
  points,  \* points of each player record
  lock,    \* holder of the room's lock in _ROOM_SINGLE_TIMEOUT_LOCKS
  req,     \* req[p]: where the handler of connection p is and what it read
  drawn,   \* history: strokes drawn in this game
  hits,    \* history: guessers whose correct guess was recorded ...
  first,   \* ... and the first of them
  overlap, \* history: two requests have been under way at one time
  restarts,\* history: restarts of the server ...
  torn     \* ... and those that cut the end of the game short

fault == <<overlap, restarts, torn>>
vars == <<state, game, roles, points, lock, req, drawn, hits, first, fault>>

To(next, reason, winner) == [next |-> next, reason |-> reason, winner |-> winner]
NoTransition == To("none", "none", Nobody)
Transition == {NoTransition, To("DRAW", "none", Nobody),
               To("GAME_END", "TIMEOUT", Nobody)}
                \cup {To("GAME_END", "CORRECT", p) : p \in Guesser}

Idle == [pc |-> "idle", kind |-> "tick", age |-> 0, strokes |-> 0,
         pend |-> NoTransition]

Goto(p, pc) == req' = [req EXCEPT ![p].pc = pc]
Return(p) == req' = [req EXCEPT ![p] = Idle]
\* The tick changed nothing: a guess or a stroke goes on.
Proceed(p) ==
  IF req[p].kind = "tick" THEN Return(p) ELSE Goto(p, req[p].kind)
Unlock == lock' = Nobody

\* A deadline field that is 0, and one that is long past.
Past == -MaxDelay
Due(deadline, age) == deadline + age <= 0

(***************************************************************************)
(* Requests: outside IN_GAME the handler returns at once.                  *)
(***************************************************************************)
Busy == {p \in Player : req[p].pc # "idle"}
Arrive(p, pc, kind) ==
  /\ p \notin Busy /\ Cardinality(Busy) < MaxInFlight
  /\ req' = [req EXCEPT ![p] = [Idle EXCEPT !.pc = pc, !.kind = kind]]
  /\ overlap' = (overlap \/ Busy # {})
  /\ UNCHANGED <<state, game, roles, points, lock, drawn, hits, first, restarts, torn>>

Begin(p, kind) == state = "IN_GAME" /\ Arrive(p, "lock", kind)

BeginTick(p) == p \in Beating /\ Begin(p, "tick")
BeginDraw == Begin(Drawer, "draw")
BeginGuess(p) == p \in Guesser /\ Begin(p, "guess")

\* Any request that finds the room out of IN_GAME changes nothing here.
RejectedAfterEnd(p) ==
  /\ req[p].pc = "idle"
  /\ state # "IN_GAME"
  /\ UNCHANGED vars

(***************************************************************************)
(* _auto_expire_single_game                                                *)
(***************************************************************************)
\* Mutants: the header read before is trusted; the lock is not waited for.
LockUnchecked(p) ==
  /\ req[p].pc = "lock"
  /\ lock = Nobody
  /\ lock' = p
  /\ Goto(p, "expire")
  /\ UNCHANGED <<state, game, roles, points, drawn, hits, first, fault>>
LockNotAwaited(p) ==
  /\ req[p].pc = "lock"
  /\ IF state = "IN_GAME"
     THEN lock' = p /\ Goto(p, "expire")
     ELSE UNCHANGED lock /\ Proceed(p)
  /\ UNCHANGED <<state, game, roles, points, drawn, hits, first, fault>>

\* It takes the lock and reads the header again.
Lock(p) ==
  /\ req[p].pc = "lock"
  /\ lock = Nobody
  /\ IF state = "IN_GAME"
     THEN lock' = p /\ Goto(p, "expire")
     ELSE UNCHANGED lock /\ Proceed(p)
  /\ UNCHANGED <<state, game, roles, points, drawn, hits, first, fault>>

\* It reads the game.  Out of a TRANSITION only the time limit is looked at.
Expire(p) ==
  /\ req[p].pc = "expire"
  /\ \/ /\ game.phase = "TRANSITION" /\ Due(game.until, req[p].age)
        /\ \/ /\ game.trans.next = "GAME_END"
              /\ req' = [req EXCEPT ![p].pc = "award", ![p].pend = game.trans]
           \/ game.trans.next # "GAME_END" /\ Goto(p, "start_draw")
        /\ UNCHANGED lock
     \/ /\ game.phase # "TRANSITION" /\ Due(game.end, req[p].age)
        /\ Goto(p, "times_up")
        /\ UNCHANGED lock
     \/ /\ ~Due(IF game.phase = "TRANSITION" THEN game.until ELSE game.end,
                req[p].age)
        /\ Unlock
        /\ Proceed(p)
  /\ UNCHANGED <<state, game, roles, points, drawn, hits, first, fault>>

\* The ROUND START screen is over.
StartDraw(p) ==
  /\ req[p].pc = "start_draw"
  /\ game' = [game EXCEPT !.phase = "DRAW", !.strokes = StrokeLimit,
                          !.until = Past, !.trans = NoTransition]
  /\ Unlock
  /\ Return(p)
  /\ UNCHANGED <<state, roles, points, drawn, hits, first, fault>>

\* Mutant: the game goes on when its time is up.
TimesUpGoesOn(p) ==
  /\ req[p].pc = "times_up"
  /\ game' = [game EXCEPT !.phase = "TRANSITION",
                          !.until = TransitionSec - req[p].age,
                          !.trans = To("DRAW", "none", Nobody)]
  /\ Unlock
  /\ Return(p)
  /\ UNCHANGED <<state, roles, points, drawn, hits, first, fault>>

\* Nobody has guessed the word in time.
TimesUp(p) ==
  /\ req[p].pc = "times_up"
  /\ game' = [game EXCEPT !.phase = "TRANSITION",
                          !.until = TransitionSec - req[p].age,
                          !.trans = To("GAME_END", "TIMEOUT", Nobody)]
  /\ Unlock
  /\ Return(p)
  /\ UNCHANGED <<state, roles, points, drawn, hits, first, fault>>

\* _finish_single_game: a point for the winner, or one for the GameMaster, ...
Award(p) ==
  /\ req[p].pc = "award"
  /\ IF req[p].pend.reason = "CORRECT"
     THEN /\ points' = [points EXCEPT ![req[p].pend.winner] = @ + 1]
          /\ Goto(p, "award_drawer")
     ELSE /\ points' = [points EXCEPT ![GM] = @ + 1]
          /\ Goto(p, "clear_roles")
  /\ UNCHANGED <<state, game, roles, lock, drawn, hits, first, fault>>

\* ... with a winner one for the drawer, ...
AwardDrawer(p) ==
  /\ req[p].pc = "award_drawer"
  /\ points' = [points EXCEPT ![Drawer] = @ + 1]
  /\ Goto(p, "clear_roles")
  /\ UNCHANGED <<state, game, roles, lock, drawn, hits, first, fault>>

\* ... the roles are cleared, ...
ClearRoles(p) ==
  /\ req[p].pc = "clear_roles"
  /\ roles' = FALSE
  /\ Goto(p, "end_game")
  /\ UNCHANGED <<state, game, points, lock, drawn, hits, first, fault>>

\* Mutant: the result is read from the screen that is up by now.
EndGameReread(p) ==
  /\ req[p].pc = "end_game"
  /\ game' = [game EXCEPT !.phase = "VOTING", !.until = Past,
                          !.end = -req[p].age, !.trans = NoTransition,
                          !.reason = game.trans.reason,
                          !.winner = game.trans.winner]
  /\ Goto(p, "end_room")
  /\ UNCHANGED <<state, roles, points, lock, drawn, hits, first, fault>>

\* ... the vote is opened ...
EndGame(p) ==
  /\ req[p].pc = "end_game"
  /\ game' = [game EXCEPT !.phase = "VOTING", !.until = Past,
                          !.end = -req[p].age, !.trans = NoTransition,
                          !.reason = req[p].pend.reason,
                          !.winner = req[p].pend.winner]
  /\ Goto(p, "end_room")
  /\ UNCHANGED <<state, roles, points, lock, drawn, hits, first, fault>>

\* ... and the room is told.
EndRoom(p) ==
  /\ req[p].pc = "end_room"
  /\ state' = "GAME_END"
  /\ Unlock
  /\ Return(p)
  /\ UNCHANGED <<game, roles, points, drawn, hits, first, fault>>

(***************************************************************************)
(* handle_single_draw_op, after the tick                                   *)
(***************************************************************************)
\* Mutant: one stroke more than there are.
DrawOnEmpty ==
  /\ req[Drawer].pc = "draw"
  /\ IF game.phase = "DRAW" /\ game.strokes >= 0
     THEN req' = [req EXCEPT ![Drawer].pc = "stroke", ![Drawer].strokes = game.strokes]
     ELSE Return(Drawer)
  /\ UNCHANGED <<state, game, roles, points, lock, drawn, hits, first, fault>>

DrawRead ==
  /\ req[Drawer].pc = "draw"
  /\ IF game.phase = "DRAW" /\ game.strokes > 0
     THEN req' = [req EXCEPT ![Drawer].pc = "stroke", ![Drawer].strokes = game.strokes]
     ELSE Return(Drawer)                       \* BAD_PHASE, STROKE_LIMIT
  /\ UNCHANGED <<state, game, roles, points, lock, drawn, hits, first, fault>>

\* It writes back what it read less one.
Stroke ==
  /\ req[Drawer].pc = "stroke"
  /\ game' = [game EXCEPT !.strokes = req[Drawer].strokes - 1]
  /\ drawn' = IF drawn > StrokeLimit THEN drawn ELSE drawn + 1
  /\ Return(Drawer)
  /\ UNCHANGED <<state, roles, points, lock, hits, first, fault>>

(***************************************************************************)
(* handle_single_guess, after the tick                                     *)
(***************************************************************************)
\* Mutant: a guess counts in any phase.
GuessAnytime(p) ==
  /\ req[p].pc = "guess"
  /\ Goto(p, "guess_role")
  /\ UNCHANGED <<state, game, roles, points, lock, drawn, hits, first, fault>>

GuessRead(p) ==
  /\ req[p].pc = "guess"
  /\ IF game.phase = "DRAW" THEN Goto(p, "guess_role") ELSE Return(p)
  /\ UNCHANGED <<state, game, roles, points, lock, drawn, hits, first, fault>>

\* The player record is read; the text is right or it is wrong.
GuessRole(p) ==
  /\ req[p].pc = "guess_role"
  /\ \/ roles /\ Goto(p, "guess_write")
     \/ Return(p)                              \* wrong, or NOT_GUESSER
  /\ UNCHANGED <<state, game, roles, points, lock, drawn, hits, first, fault>>

\* A correct guess puts up the winner's screen.
GuessWrite(p) ==
  /\ req[p].pc = "guess_write"
  /\ game' = [game EXCEPT !.phase = "TRANSITION",
                          !.until = TransitionSec - req[p].age,
                          !.trans = To("GAME_END", "CORRECT", p)]
  /\ hits' = hits \cup {p}
  /\ first' = IF first = Nobody THEN p ELSE first
  /\ Return(p)
  /\ UNCHANGED <<state, roles, points, lock, drawn, fault>>

(***************************************************************************)
(* handle_end_game: no lock, and nothing is asked of the state.            *)
(***************************************************************************)
BeginGMEnd == Arrive(GM, "gm_game", "tick")

\* Mutant: the game is over but its vote is not opened.
GMEndWithoutVote ==
  /\ req[GM].pc = "gm_game"
  /\ game' = [game EXCEPT !.reason = "GM_END", !.winner = Nobody]
  /\ Goto(GM, "gm_room")
  /\ UNCHANGED <<state, roles, points, lock, drawn, hits, first, fault>>

GMEndGame ==
  /\ req[GM].pc = "gm_game"
  /\ game' = [game EXCEPT !.phase = "VOTING", !.end = -req[GM].age,
                          !.reason = "GM_END", !.winner = Nobody]
  /\ Goto(GM, "gm_room")
  /\ UNCHANGED <<state, roles, points, lock, drawn, hits, first, fault>>

GMEndRoom ==
  /\ req[GM].pc = "gm_room"
  /\ state' = "GAME_END"
  /\ Return(GM)
  /\ UNCHANGED <<game, roles, points, lock, drawn, hits, first, fault>>

(***************************************************************************)
(* The server stops and is started again.  Redis keeps the room; the locks *)
(* and the handlers under way are gone, each after the last command it had *)
(* sent.  The clients reconnect.  It matters while handlers are under way.  *)
(***************************************************************************)
Ending == {"award_drawer", "clear_roles", "end_game", "end_room", "gm_room"}
Restart ==
  /\ state = "IN_GAME" /\ Busy # {} /\ restarts < MaxRestarts
  /\ restarts' = restarts + 1
  /\ torn' = IF \E p \in Player : req[p].pc \in Ending THEN torn + 1 ELSE torn
  /\ lock' = Nobody
  /\ req' = [p \in Player |-> Idle]
  /\ UNCHANGED <<state, game, roles, points, drawn, hits, first, overlap>>

\* A second passes, for the deadlines and for the handlers under way.
OneSecondLess(deadline) == IF deadline > Past THEN deadline - 1 ELSE deadline
ClockTick ==
  /\ \A p \in Player : req[p].age < MaxDelay
  /\ game' = [game EXCEPT !.until = OneSecondLess(@), !.end = OneSecondLess(@)]
  /\ req' = [p \in Player |-> IF req[p].pc = "idle" THEN req[p]
                              ELSE [req[p] EXCEPT !.age = @ + 1]]
  /\ UNCHANGED <<state, roles, points, lock, drawn, hits, first, fault>>

-----------------------------------------------------------------------------
\* What handle_single_start_game leaves behind.
Init ==
  /\ state = "IN_GAME"
  /\ game = [phase |-> "TRANSITION", until |-> TransitionSec, end |-> GameSec,
             strokes |-> StrokeLimit, trans |-> To("DRAW", "none", Nobody),
             reason |-> "none", winner |-> Nobody]
  /\ roles = TRUE
  /\ points = [p \in Player |-> 0]
  /\ lock = Nobody
  /\ req = [p \in Player |-> Idle]
  /\ drawn = 0
  /\ hits = {}
  /\ first = Nobody
  /\ overlap = FALSE
  /\ restarts = 0
  /\ torn = 0

\* The next command of the request connection p is handling.
Step(p) ==
  \/ Lock(p) \/ Expire(p) \/ StartDraw(p) \/ TimesUp(p)
  \/ Award(p) \/ AwardDrawer(p) \/ ClearRoles(p) \/ EndGame(p) \/ EndRoom(p)
  \/ GuessRead(p) \/ GuessRole(p) \/ GuessWrite(p)
  \/ p = Drawer /\ (DrawRead \/ Stroke)
  \/ p = GM /\ (GMEndGame \/ GMEndRoom)

Next ==
  \/ \E p \in Player : BeginTick(p) \/ BeginGuess(p)
  \/ BeginDraw
  \/ \E p \in Player : RejectedAfterEnd(p)
  \/ \E p \in Player : Step(p)
  \/ BeginGMEnd
  \/ Restart
  \/ ClockTick

Spec == Init /\ [][Next]_vars

\* Time passes; a request that was begun is carried through, the lock being
\* handed on in the order it was asked for; heartbeats get their turn.
Fairness ==
  /\ WF_vars(ClockTick)
  /\ \A p \in Player : SF_vars(Step(p))
  /\ SF_vars(\E p \in Player : BeginTick(p))

FairSpec == Spec /\ Fairness

-----------------------------------------------------------------------------
Pc == {"idle", "lock", "expire", "start_draw", "times_up", "award",
       "award_drawer", "clear_roles", "end_game", "end_room", "draw", "stroke",
       "guess", "guess_role", "guess_write", "gm_game", "gm_room"}
Game == [phase : {"TRANSITION", "DRAW", "VOTING"}, until : Int, end : Int,
         strokes : 0..StrokeLimit, trans : Transition,
         reason : {"none", "CORRECT", "TIMEOUT", "GM_END"},
         winner : Guesser \cup {Nobody}]
Request == [pc : Pc, kind : {"tick", "draw", "guess"}, age : Nat,
            strokes : 0..StrokeLimit, pend : Transition]

\* The values of the variables.
TypeOK ==
  /\ state \in {"IN_GAME", "GAME_END"}
  /\ game \in Game
  /\ roles \in BOOLEAN
  /\ points \in [Player -> Nat]
  /\ lock \in Player \cup {Nobody}
  /\ req \in [Player -> Request]
  /\ drawn \in Nat
  /\ hits \in SUBSET Guesser
  /\ first \in Guesser \cup {Nobody}
  /\ overlap \in BOOLEAN
  /\ restarts \in 0..MaxRestarts
  /\ torn \in 0..restarts

Paid == {p \in Player : points[p] > 0}

\* However many handlers find the end of the game due at once, it is scored
\* once: the GameMaster alone, or one guesser who was right and the drawer.
\* Only a restart in the middle of ending the game, be it between the points of
\* the two, has it scored again.
ScoredOnce ==
  /\ \A p \in Player : points[p] <= 1 + torn
  /\ \/ Paid \subseteq {GM}
     \/ \E p \in hits : p \in Paid /\ Paid \subseteq {p, Drawer}
     \/ torn > 0

\* A game closed by the clock or by a correct guess has paid for just that.
EndAgreesWithScore ==
  game.phase = "VOTING" /\ game.reason # "GM_END" /\ torn = 0 =>
    Paid = IF game.winner = Nobody THEN {GM} ELSE {game.winner, Drawer}

\* "Max strokes per game for drawer": the ROUND START screen gives the drawer
\* the strokes of the game once, whatever overlaps and whenever the server is
\* restarted.
StrokesPerGame == drawn <= StrokeLimit

\* "Correct guess -> game ends": as long as no two requests have overlapped, the
\* first correct guess that was recorded decides a game that the GameMaster does
\* not end.
FirstCorrectGuessWins ==
  game.phase = "VOTING" /\ game.reason # "GM_END" /\ ~overlap /\ torn = 0 =>
    game.winner = first

\* "GAME_END + VOTING": a room in GAME_END is in its vote, which only the VOTING
\* phase allows, unless a handler overlapped another that ended the game.
EndOpensVote == state = "GAME_END" /\ ~overlap => game.phase = "VOTING"

\* "Time expires -> game ends", whatever the others are doing and wherever a
\* restart of the server cuts in.
GameEnds == <>(state = "GAME_END")

\* What a game promises about its result.  Its time has run out when game_end_at
\* is not in the future; the end of the game writes the present into it.
Outcome == INSTANCE GameResult WITH
  Side <- Guesser, MembersOf <- [p \in Guesser |-> {p, Drawer}], right <- hits,
  lost <- (game.end <= 0), over <- (state = "GAME_END"), torn <- (torn > 0)

\* A SINGLE game gives its points as GameResult says: once, to the GameMaster
\* only when the time has run out, to a guesser and the drawer only when that
\* guesser was right; again only after a restart in the middle of its end.
ImplementsResult == Outcome!Spec
=============================================================================
