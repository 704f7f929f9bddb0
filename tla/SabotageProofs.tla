--------------------------- MODULE SabotageProofs ---------------------------
(***************************************************************************)
(* What holds of the sabotages of a game for every room, every bound on    *)
(* the requests in flight and every time a sabotage may stay armed.        *)
(***************************************************************************)
EXTENDS Sabotage, VSGameProofs

(***************************************************************************)
(* The inductive invariant.  The requests of VSGame matter here only in    *)
(* that they move nothing but their own request, and never into the part   *)
(* of a handler that the sabotage lock guards.                             *)
(***************************************************************************)
\* The part of a handler that the lock guards.
Inside == SabPc \ {"sab_lock"}

\* An armed sabotage, or none.
WhoHas == [Team -> BOOLEAN]
Holder == Player \cup {Nobody}
Armament == [by : Holder, left : Int, used : WhoHas]

\* As much of the types as the invariant needs.
Shaped ==
  /\ req = [p \in Player |-> req[p]]
  /\ \A p \in Player : "pc" \in DOMAIN req[p]
  /\ sab \in Armament
  /\ ask \in [Player -> [kind : Kind, used : [Team -> BOOLEAN]]]
  /\ age \in [Player -> 0..MaxDelay]
  /\ paid \in [Team -> Nat]
  /\ marks \in [Team -> Nat]

\* Whoever is inside holds the lock.
InsideHoldsLock == \A p \in Player : req[p].pc \in Inside => slock = p

\* What a request that is inside has found out still holds when it is used.
StillSoOf(p) ==
  /\ req[p].pc \in {"sab_stroke", "sab_use"} => ask[p].used = sab.used
  /\ req[p].pc = "sab_expire" => sab.by = Nobody \/ sab.left + age[p] <= 0
  /\ req[p].pc = "sab_arm" => sab.by = Nobody
  /\ req[p].pc \in {"sab_stroke", "sab_use", "sab_clear"} => sab.by \in {p, Nobody}
  /\ \A t \in Team :
       p \in Drawers[t] =>
         /\ req[p].pc \in {"sab_arm", "sab_stroke"} => ~sab.used[t]
         /\ req[p].pc \in {"sab_use", "sab_mark"} => marks[Other(t)] < paid[t]

StillSo == \A p \in Player : StillSoOf(p)

\* A stroke that is paid is booked, or the payer is about to book it.
PaidIsBooked ==
  \A t \in Team :
    paid[t] >= 1 => \/ sab.used[t]
                    \/ \E p \in Drawers[t] : req[p].pc = "sab_use"

Booked == InsideHoldsLock /\ StillSo /\ PaidIsBooked /\ OncePerGame

-----------------------------------------------------------------------------
\* A drawer draws for one team.
LEMMA OneTeam ==
  /\ \A t \in Team : Drawers[t] \subseteq Player
  /\ \A t, u \in Team : \A p : p \in Drawers[t] /\ p \in Drawers[u] => t = u
  /\ Nobody \notin Player
<1>1. Drawers["A"] \cap Drawers["B"] = {}
  BY RolesAssumption DEF Members
<1> QED
  BY <1>1, RolesAssumption DEF Team, Members

\* Each team has one other team.
LEMMA OtherTeam ==
  /\ Other("A") = "B"
  /\ Other("B") = "A"
  BY DEF Other, Team

\* Disarming leaves sabotage_used alone.
LEMMA DisarmedIs ==
  ASSUME Shaped
  PROVE  /\ Disarmed \in Armament
         /\ Disarmed.by = Nobody
         /\ Disarmed.used = sab.used
<1>1. Nobody \in Holder /\ 0 \in Int
  BY DEF Holder
<1> QED
  BY <1>1 DEF Disarmed, Shaped, Armament

\* Replacing the record of p's request leaves the other requests as they are.
LEMMA Replaced ==
  ASSUME Shaped, NEW p \in Player, NEW r, "pc" \in DOMAIN r,
         req' = [req EXCEPT ![p] = r]
  PROVE  /\ req' = [q \in Player |-> req'[q]]
         /\ \A q \in Player : "pc" \in DOMAIN req'[q]
         /\ req'[p] = r
         /\ \A q \in Player \ {p} : req'[q] = req[q]
  BY DEF Shaped

\* The moves of a request: it goes on, or it is done.
Moved(p, to) ==
  /\ req' = [q \in Player |-> req'[q]]
  /\ \A q \in Player : "pc" \in DOMAIN req'[q]
  /\ \A q \in Player \ {p} : req'[q] = req[q] /\ age'[q] = age[q]
  /\ req'[p].pc \in to
  /\ age' \in [Player -> 0..MaxDelay]
  /\ age'[p] \in {age[p], 0}

LEMMA IdleHasPc == "pc" \in DOMAIN Idle /\ Idle.pc = "idle"
  BY DEF Idle

LEMMA Goes ==
  ASSUME Shaped, NEW p \in Player, NEW pc, Goto(p, pc)
  PROVE  Moved(p, {pc}) /\ age' = age
<1>1. req' = [req EXCEPT ![p] = [req[p] EXCEPT !.pc = pc]]
  BY DEF Goto
<1>2. /\ "pc" \in DOMAIN [req[p] EXCEPT !.pc = pc]
      /\ [req[p] EXCEPT !.pc = pc].pc = pc
  BY DEF Shaped
<1> QED
  BY <1>1, <1>2, Replaced DEF Moved, Goto, Shaped

LEMMA Returns ==
  ASSUME Shaped, NEW p \in Player, Return(p)
  PROVE  Moved(p, {"idle"})
<1>1. 0 \in 0..MaxDelay
  BY ConfigAssumption
<1> QED
  BY <1>1, IdleHasPc, Replaced DEF Moved, Return, Shaped

LEMMA GoesToTransition ==
  ASSUME Shaped, NEW p \in Player, NEW tr, WillEnter(p, tr)
  PROVE  Moved(p, {"transition"})
<1>1. /\ "pc" \in DOMAIN [Idle EXCEPT !.pc = "transition", !.pend = tr]
      /\ [Idle EXCEPT !.pc = "transition", !.pend = tr].pc = "transition"
  BY DEF Idle
<1> QED
  BY <1>1, Replaced DEF Moved, WillEnter, Shaped

-----------------------------------------------------------------------------
\* Each handler of VSGame moves its own request only, and stays outside.
LEMMA TickMoves ==
  ASSUME Shaped, NEW p \in Player,
         \/ Advance(p) \/ AdvanceDraw(p) \/ NoGuess(p) \/ EnterTransition(p)
         \/ EnterGuess(p) \/ EnterDraw(p) \/ Refill(p) \/ SetRound(p)
  PROVE  Moved(p, Pc) /\ req[p].pc \in Pc
<1>1. ASSUME Advance(p) PROVE Moved(p, Pc) /\ req[p].pc \in Pc
  <2>1. req[p].pc = "advance"
    BY <1>1 DEF Advance
  <2>2. CASE Return(p)
    BY <2>1, <2>2, Returns DEF Moved, Pc
  <2>3. ASSUME NEW next \in {"GUESS", "DRAW", "GAME_END"}, UNCHANGED age,
               req' = [req EXCEPT ![p] = [Idle EXCEPT !.pc = Enter(next),
                                                       !.pend = game.trans]]
        PROVE  Moved(p, Pc)
    <3>1. LET r == [Idle EXCEPT !.pc = Enter(next), !.pend = game.trans]
          IN  "pc" \in DOMAIN r /\ r.pc \in Pc
      BY DEF Idle, Enter, Pc
    <3> QED
      BY <2>3, <3>1, Replaced DEF Moved, Shaped
  <2>4. ASSUME UNCHANGED age,
               req' = [req EXCEPT ![p] = [Idle EXCEPT !.pc = "advance_draw",
                                                      !.due = Due(p)]]
        PROVE  Moved(p, Pc)
    <3>1. LET r == [Idle EXCEPT !.pc = "advance_draw", !.due = Due(p)]
          IN  "pc" \in DOMAIN r /\ r.pc \in Pc
      BY DEF Idle, Pc
    <3> QED
      BY <2>4, <3>1, Replaced DEF Moved, Shaped
  <2>5. ASSUME UNCHANGED age,
               req' = [req EXCEPT ![p].pc = "no_guess", ![p].guess = game.guess]
        PROVE  Moved(p, Pc)
    <3> DEFINE r == [req[p] EXCEPT !.pc = "no_guess", !.guess = game.guess]
    <3>1. "pc" \in DOMAIN r /\ r.pc \in Pc
      BY DEF Shaped, Pc
    <3>2. req' = [req EXCEPT ![p] = r]
      BY <2>5 DEF Shaped
    <3> QED
      BY <2>5, <3>1, <3>2, Replaced DEF Moved, Shaped
  <2> QED
    BY <1>1, <2>1, <2>2, <2>3, <2>4, <2>5 DEF Advance, Pc
<1>2. ASSUME AdvanceDraw(p) PROVE Moved(p, Pc) /\ req[p].pc \in Pc
  BY <1>2, Returns, GoesToTransition DEF AdvanceDraw, Moved, Pc
<1>3. ASSUME NoGuess(p) PROVE Moved(p, Pc) /\ req[p].pc \in Pc
  BY <1>3, GoesToTransition DEF NoGuess, Moved, Pc
<1>4. ASSUME EnterTransition(p) \/ EnterGuess(p) \/ SetRound(p)
      PROVE  Moved(p, Pc) /\ req[p].pc \in Pc
  BY <1>4, Returns DEF EnterTransition, EnterGuess, SetRound, Moved, Pc
<1>5. ASSUME EnterDraw(p) \/ Refill(p) PROVE Moved(p, Pc) /\ req[p].pc \in Pc
  BY <1>5, Goes DEF EnterDraw, Refill, Moved, Pc
<1> QED
  BY <1>1, <1>2, <1>3, <1>4, <1>5

LEMMA PlayMoves ==
  ASSUME Shaped, NEW p \in Player,
         \/ DrawRead(p) \/ Stroke(p) \/ GuessRead(p) \/ GuessWrite(p)
         \/ EndCheck(p) \/ Award(p) \/ Pay(p) \/ EndGame(p) \/ EndRoom(p)
         \/ p = GM /\ GMStep
  PROVE  Moved(p, Pc) /\ req[p].pc \in Pc
<1>1. ASSUME DrawRead(p) PROVE Moved(p, Pc) /\ req[p].pc \in Pc
  BY <1>1, Returns, Goes DEF DrawRead, Moved, Pc
<1>2. ASSUME Stroke(p) PROVE Moved(p, Pc) /\ req[p].pc \in Pc
  BY <1>2, Returns, Goes DEF Stroke, Moved, Pc
<1>3. ASSUME GuessRead(p) PROVE Moved(p, Pc) /\ req[p].pc \in Pc
  <2>1. req[p].pc = "guess"
    BY <1>3 DEF GuessRead
  <2>2. ASSUME NEW g, UNCHANGED age,
               req' = [req EXCEPT ![p].pc = "guess_write", ![p].guess = g]
        PROVE  Moved(p, Pc)
    <3> DEFINE r == [req[p] EXCEPT !.pc = "guess_write", !.guess = g]
    <3>1. "pc" \in DOMAIN r /\ r.pc \in Pc
      BY DEF Shaped, Pc
    <3>2. req' = [req EXCEPT ![p] = r]
      BY <2>2 DEF Shaped
    <3> QED
      BY <2>2, <3>1, <3>2, Replaced DEF Moved, Shaped
  <2>3. CASE Return(p)
    BY <2>1, <2>3, Returns DEF Moved, Pc
  <2>4. CASE Goto(p, "advance")
    BY <2>1, <2>4, Goes DEF Moved, Pc
  <2> QED
    BY <1>3, <2>1, <2>2, <2>3, <2>4 DEF GuessRead, Pc
<1>4. ASSUME GuessWrite(p) PROVE Moved(p, Pc) /\ req[p].pc \in Pc
  BY <1>4, Returns, GoesToTransition DEF GuessWrite, Moved, Pc
<1>5. ASSUME EndCheck(p) \/ EndGame(p)
      PROVE  Moved(p, Pc) /\ req[p].pc \in Pc
  BY <1>5, Returns, Goes DEF EndCheck, EndGame, Moved, Pc
<1>8. ASSUME Award(p) \/ Pay(p) PROVE Moved(p, Pc) /\ req[p].pc \in Pc
  <2>1. ASSUME NEW owed, Owe(p, owed) PROVE Moved(p, Pc)
    <3> DEFINE pc == IF owed = {} THEN "end_game" ELSE "pay"
               r == [req[p] EXCEPT !.pc = pc, !.owed = owed]
    <3>1. "pc" \in DOMAIN r /\ r.pc \in Pc
      BY DEF Shaped, Pc
    <3>2. req' = [req EXCEPT ![p] = r]
      BY <2>1 DEF Owe, Shaped
    <3> QED
      BY <2>1, <3>1, <3>2, Replaced DEF Owe, Moved, Shaped
  <2> QED
    BY <1>8, <2>1 DEF Award, Pay, Pc
<1>6. ASSUME EndRoom(p) PROVE Moved(p, Pc) /\ req[p].pc \in Pc
  BY <1>6, Returns DEF EndRoom, Moved, Pc
<1>7. ASSUME p = GM, GMStep PROVE Moved(p, Pc) /\ req[p].pc \in Pc
  BY <1>7, Returns, Goes DEF GMStep, GMEndGame, GMEndRoom, Moved, Pc
<1> QED
  BY <1>1, <1>2, <1>3, <1>4, <1>5, <1>6, <1>7, <1>8

LEMMA BeginMoves ==
  ASSUME Shaped, NEW p \in Player, BeginOther(p)
  PROVE  Moved(p, Pc) /\ req[p].pc \in Pc
<1>1. ASSUME NEW pc \in Pc, Begin(p, pc) PROVE Moved(p, Pc) /\ req[p].pc \in Pc
  <2> DEFINE r == [Idle EXCEPT !.pc = pc, !.round = room.round_no]
  <2>1. "pc" \in DOMAIN r /\ r.pc \in Pc
    BY DEF Idle
  <2>2. req' = [req EXCEPT ![p] = r] /\ age' = age /\ req[p].pc \in Pc
    BY <1>1 DEF Begin, Pc
  <2> QED
    BY <2>1, <2>2, Replaced DEF Moved, Shaped
<1>2. ASSUME p = GM, BeginGMEnd PROVE Moved(p, Pc) /\ req[p].pc \in Pc
  BY <1>2, Goes DEF BeginGMEnd, Moved, Pc
<1>3. "advance" \in Pc /\ "draw" \in Pc /\ "guess" \in Pc
  BY DEF Pc
<1> QED
  BY <1>1, <1>2, <1>3 DEF BeginOther, BeginTick, BeginDraw, BeginGuess

LEMMA OtherMoves ==
  ASSUME Shaped, NEW p \in Player, OtherStep(p)
  PROVE  Moved(p, Pc) /\ req[p].pc \in Pc
  BY TickMoves, PlayMoves DEF OtherStep, Step

-----------------------------------------------------------------------------
(***************************************************************************)
(* Steps of a request that is not inside, before and after.                *)
(***************************************************************************)
Outside == Pc \cup {"sab_lock"}
Requests == [Player -> [kind : Kind, used : [Team -> BOOLEAN]]]

\* What such a step may do to the rest of the state.
Harmless(p) ==
  /\ sab' \in {sab, Disarmed}
  /\ ask' \in Requests
  /\ \A q \in Player \ {p} : ask'[q] = ask[q] /\ (slock = q => slock' = q)
  /\ paid' = paid /\ marks' = marks

LEMMA OutsideShaped ==
  ASSUME Shaped, NEW p \in Player, Moved(p, Outside), Harmless(p)
  PROVE  Shaped'
<1>1. sab' \in Armament
  BY DisarmedIs DEF Harmless, Shaped
<1> QED
  BY <1>1 DEF Shaped, Harmless, Moved, Requests

LEMMA OutsideBooked ==
  ASSUME Shaped, Booked, NEW p \in Player, req[p].pc \in Outside,
         Moved(p, Outside), Harmless(p)
  PROVE  Booked'
<1>1. /\ sab'.used = sab.used /\ sab'.by \in {sab.by, Nobody}
      /\ sab'.by # Nobody => sab' = sab
  BY DisarmedIs DEF Harmless, Shaped
<1>2. req[p].pc \notin Inside /\ req'[p].pc \notin Inside
  BY DEF Moved, Outside, Inside, Pc, SabPc
<1>3. ASSUME NEW q \in Player, req'[q].pc \in Inside
      PROVE  /\ q # p /\ req'[q] = req[q] /\ age'[q] = age[q]
             /\ ask'[q] = ask[q] /\ slock' = q
  BY <1>2, <1>3 DEF Moved, Harmless, Booked, InsideHoldsLock
<1>4. InsideHoldsLock'
  BY <1>3 DEF InsideHoldsLock
<1>5. StillSo'
  <2> SUFFICES ASSUME NEW q \in Player, req'[q].pc \in Inside
               PROVE  StillSoOf(q)'
    BY DEF StillSo, StillSoOf, Inside, SabPc
  <2>1. StillSoOf(q) /\ q # p /\ req'[q] = req[q] /\ age'[q] = age[q] /\ ask'[q] = ask[q]
    BY <1>3 DEF StillSo, Booked
  <2>2. paid' = paid /\ marks' = marks
    BY DEF Harmless
  <2> QED
    BY <1>1, <2>1, <2>2 DEF StillSoOf
<1>6. PaidIsBooked'
  BY <1>1, <1>2, OneTeam DEF PaidIsBooked, Booked, Harmless, Moved, Inside, SabPc
<1>7. OncePerGame'
  BY <1>1, OneTeam DEF OncePerGame, Booked, Harmless
<1> QED
  BY <1>4, <1>5, <1>6, <1>7 DEF Booked

\* The handlers of VSGame are such steps,
LEMMA OtherKeeps ==
  ASSUME Shaped, Booked, NEW p \in Player, BeginOther(p) \/ OtherStep(p)
  PROVE  Shaped' /\ Booked'
<1>1. Moved(p, Outside) /\ req[p].pc \in Outside
  BY BeginMoves, OtherMoves DEF Moved, Outside
<1>2. Quiet \in [kind : Kind, used : [Team -> BOOLEAN]]
  BY DEF Quiet, Kind, Unused
<1>3. ASSUME BeginOther(p) PROVE Harmless(p)
  BY <1>3 DEF BeginOther, Harmless, Shaped, Requests
<1>4. ASSUME OtherStep(p) PROVE Harmless(p)
  BY <1>2, <1>4 DEF OtherStep, Leaves, Harmless, Shaped, Requests
<1> QED
  BY <1>1, <1>3, <1>4, OutsideShaped, OutsideBooked

\* and so is asking for a sabotage.
LEMMA AskKeeps ==
  ASSUME Shaped, Booked, NEW p \in Player, Asking(p)
  PROVE  Shaped' /\ Booked'
<1>1. PICK kind \in Kind : Ask(p, kind)
  BY DEF Asking, Arm, Use, Cancel, Leave, Kind
<1> DEFINE r == [Idle EXCEPT !.pc = "sab_lock"]
<1>2. "pc" \in DOMAIN r /\ r.pc = "sab_lock"
  BY DEF Idle
<1>3. Moved(p, Outside) /\ req[p].pc \in Outside
  BY <1>1, <1>2, Replaced DEF Ask, Moved, Outside, Pc, Shaped
<1>4. Harmless(p)
  BY <1>1 DEF Ask, Harmless, Shaped, Requests
<1> QED
  BY <1>3, <1>4, OutsideShaped, OutsideBooked

\* Time passes: a deadline that is over stays over.
LEMMA ClockKeeps ==
  ASSUME Shaped, Booked, Clock
  PROVE  Shaped' /\ Booked'
<1>1. /\ req' = req /\ slock' = slock /\ ask' = ask /\ paid' = paid /\ marks' = marks
      /\ sab'.by = sab.by /\ sab'.used = sab.used /\ sab' \in Armament
      /\ sab'.left = IF sab.left > -MaxDelay THEN sab.left - 1 ELSE sab.left
  <2> DEFINE n == IF sab.left > -MaxDelay THEN sab.left - 1 ELSE sab.left
  <2>1. sab' = [sab EXCEPT !.left = n]
    BY DEF Clock
  <2>2. n \in Int
    BY ConfigAssumption DEF Shaped, Armament
  <2>3. /\ sab' \in Armament /\ sab'.left = n
        /\ sab'.by = sab.by /\ sab'.used = sab.used
    <3> HIDE DEF n
    <3> QED
      BY <2>1, <2>2 DEF Shaped, Armament
  <2> QED
    BY <2>3 DEF Clock, ClockTick
<1>2. \A p \in Player : /\ age[p] \in 0..MaxDelay /\ age[p] < MaxDelay
                        /\ age'[p] \in {age[p], age[p] + 1}
                        /\ age'[p] \in 0..MaxDelay
                        /\ req[p].pc = "sab_expire" => age'[p] = age[p] + 1
  BY ConfigAssumption DEF Clock, ClockTick, Shaped
<1>3. Shaped'
  <2>1. age' \in [Player -> 0..MaxDelay]
    BY <1>2 DEF Clock, ClockTick
  <2> QED
    BY <1>1, <2>1 DEF Shaped
<1>4. ASSUME NEW p \in Player, sab.left + age[p] <= 0
      PROVE  sab'.left + age'[p] <= 0
  BY <1>1, <1>2, <1>4, ConfigAssumption DEF Shaped, Armament
<1>5. StillSo'
  BY <1>1, <1>4 DEF StillSo, StillSoOf, Booked
<1> QED
  BY <1>1, <1>3, <1>5 DEF Booked, InsideHoldsLock, PaidIsBooked, OncePerGame

-----------------------------------------------------------------------------
(***************************************************************************)
(* Steps of a request with the lock: nobody else is inside.                *)
(***************************************************************************)
Alone(p) == \A q \in Player \ {p} : req[q].pc \notin Inside

LEMMA InsideAlone ==
  ASSUME Booked, NEW p \in Player, req[p].pc \in Inside
  PROVE  slock = p /\ Alone(p)
  BY DEF Booked, InsideHoldsLock, Alone

LEMMA LockedGoes ==
  ASSUME Shaped, NEW p \in Player, NEW pc, SabGoto(p, pc)
  PROVE  /\ Moved(p, {pc}) /\ req'[p].pc = pc /\ age' = age
         /\ slock' = slock /\ ask' = ask
  BY Goes DEF SabGoto, Moved

LEMMA LockedReturns ==
  ASSUME Shaped, NEW p \in Player, SabReturn(p)
  PROVE  /\ Moved(p, {"idle"}) /\ req'[p].pc = "idle"
         /\ slock' = Nobody /\ ask' \in Requests
  BY Returns DEF SabReturn, Moved, Shaped, Requests, Quiet, Kind, Unused

\* It is enough to know what the request that moves has found out.
LEMMA AloneKeeps ==
  ASSUME Booked, NEW p \in Player, NEW to, Alone(p), Moved(p, to), StillSoOf(p)',
         req'[p].pc \in Inside => slock' = p
  PROVE  InsideHoldsLock' /\ StillSo'
<1>1. ASSUME NEW q \in Player \ {p} PROVE StillSoOf(q)' /\ req'[q].pc \notin Inside
  <2>1. req'[q].pc \notin Inside
    BY DEF Moved, Alone
  <2> QED
    BY <2>1 DEF StillSoOf, Inside, SabPc
<1> QED
  BY <1>1 DEF InsideHoldsLock, StillSo

\* A step that writes nothing of the sabotage keeps what is booked.
LEMMA ReadingKeeps ==
  ASSUME Shaped, Booked, NEW p \in Player, NEW to, Alone(p), Moved(p, to),
         StillSoOf(p)', req'[p].pc \in Inside => slock' = p,
         req[p].pc # "sab_use", sab' = sab, paid' = paid, marks' = marks,
         ask' \in Requests
  PROVE  Shaped' /\ Booked'
<1>1. InsideHoldsLock' /\ StillSo'
  BY AloneKeeps
<1>2. Shaped'
  BY DEF Shaped, Moved, Requests
<1>3. PaidIsBooked'
  BY OneTeam DEF PaidIsBooked, Booked, Moved
<1>4. OncePerGame'
  BY DEF OncePerGame, Booked
<1> QED
  BY <1>1, <1>2, <1>3, <1>4 DEF Booked

LEMMA LockKeeps ==
  ASSUME Shaped, Booked, NEW p \in Player, Lock(p)
  PROVE  Shaped' /\ Booked'
<1>1. Alone(p)
  BY OneTeam DEF Lock, Booked, InsideHoldsLock, Alone
<1>2. /\ req[p].pc = "sab_lock"
      /\ sab' = sab /\ paid' = paid /\ marks' = marks
  BY DEF Lock
<1>3. CASE ask[p].kind \in {"cancel", "leave"} \/ room.state = "IN_GAME"
  <2> DEFINE r == [req[p] EXCEPT !.pc = "sab_read", !.round = room.round_no]
  <2>1. req' = [req EXCEPT ![p] = r]
    BY <1>3 DEF Lock, Shaped
  <2>2. "pc" \in DOMAIN r /\ r.pc = "sab_read"
    BY DEF Shaped
  <2>3. age' = [age EXCEPT ![p] = 0] /\ slock' = p /\ ask' = ask
    BY <1>3 DEF Lock
  <2>4. Moved(p, {"sab_read"})
    <3>1. 0 \in 0..MaxDelay
      BY ConfigAssumption
    <3> HIDE DEF r
    <3> QED
      BY <2>1, <2>2, <2>3, <3>1, Replaced DEF Moved, Shaped
  <2>5. StillSoOf(p)'
    BY <2>4 DEF StillSoOf, Moved
  <2>6. ask' \in Requests
    BY <2>3 DEF Shaped, Requests
  <2> QED
    BY <1>1, <1>2, <2>3, <2>4, <2>5, <2>6, ReadingKeeps
<1>4. CASE ~(ask[p].kind \in {"cancel", "leave"} \/ room.state = "IN_GAME")
  <2>1. Return(p) /\ ask' = [ask EXCEPT ![p] = Quiet]
    BY <1>4 DEF Lock, Return
  <2>2. Moved(p, {"idle"})
    BY <2>1, Returns
  <2>3. StillSoOf(p)' /\ req'[p].pc \notin Inside
    BY <2>2 DEF StillSoOf, Moved, Inside, SabPc
  <2>4. ask' \in Requests
    BY <2>1 DEF Shaped, Requests, Quiet, Kind, Unused
  <2> QED
    BY <1>1, <1>2, <2>2, <2>3, <2>4, ReadingKeeps
<1> QED
  BY <1>3, <1>4

\* What the reading of the game finds out.
LEMMA ReadKeeps ==
  ASSUME Shaped, Booked, NEW p \in Player, Read(p)
  PROVE  Shaped' /\ Booked'
<1>1. /\ slock = p /\ Alone(p) /\ req[p].pc = "sab_read"
      /\ sab' = sab /\ paid' = paid /\ marks' = marks
  BY InsideAlone DEF Read, Inside, SabPc
<1>2. ask \in Requests
  BY DEF Shaped, Requests
<1>3. ASSUME SabReturn(p) PROVE Shaped' /\ Booked'
  <2>1. Moved(p, {"idle"}) /\ ask' \in Requests /\ req'[p].pc = "idle"
    BY <1>3, LockedReturns
  <2>2. StillSoOf(p)' /\ req'[p].pc \notin Inside
    BY <2>1 DEF StillSoOf, Inside, SabPc
  <2> QED
    BY <1>1, <2>1, <2>2, ReadingKeeps
<1>4. ASSUME NEW pc, SabGoto(p, pc),
             \/ pc = "advance"
             \/ pc = "sab_clear" /\ sab.by = p
             \/ pc = "sab_expire" /\ ~Active(p)
             \/ pc = "sab_arm" /\ sab.by = Nobody
                               /\ \A t \in Team : p \in Drawers[t] => ~sab.used[t]
      PROVE  Shaped' /\ Booked'
  <2>1. /\ Moved(p, {pc}) /\ req'[p].pc = pc /\ age' = age /\ slock' = p /\ ask' = ask
    BY <1>1, <1>4, LockedGoes
  <2>2. CASE pc = "sab_expire"
    <3>1. sab.by = Nobody \/ sab.left + age[p] <= 0
      BY <1>4, <2>2 DEF Active, Shaped, Armament
    <3> QED
      BY <1>1, <1>2, <2>1, <2>2, <3>1, ReadingKeeps DEF StillSoOf
  <2>3. CASE pc # "sab_expire"
    <3>1. StillSoOf(p)'
      BY <1>1, <1>4, <2>1, <2>3 DEF StillSoOf
    <3> QED
      BY <1>1, <1>2, <2>1, <3>1, ReadingKeeps
  <2> QED
    BY <2>2, <2>3
<1>5. ASSUME NEW t \in Team, p \in Drawers[t], ArmRead(p, t),
             sab.by = Nobody \/ Active(p)
      PROVE  Shaped' /\ Booked'
  <2>1. CASE SabReturn(p)
    BY <1>3, <2>1
  <2>2. CASE ~sab.used[t] /\ ~Active(p) /\ SabGoto(p, "sab_arm")
    <3>1. \A u \in Team : p \in Drawers[u] => ~sab.used[u]
      BY <1>5, <2>2, OneTeam
    <3> QED
      BY <1>4, <1>5, <2>2, <3>1
  <2> QED
    BY <1>5, <2>1, <2>2 DEF ArmRead
<1>6. ASSUME NEW t \in Team, p \in Drawers[t], UseRead(p, t)
      PROVE  Shaped' /\ Booked'
  <2>1. CASE SabReturn(p)
    BY <1>3, <2>1
  <2>2. CASE /\ sab.by = p /\ ~sab.used[t]
             /\ Goto(p, "sab_stroke") /\ UNCHANGED slock
             /\ ask' = [ask EXCEPT ![p].used = sab.used]
    <3>1. Moved(p, {"sab_stroke"}) /\ req'[p].pc = "sab_stroke" /\ slock' = p
      BY <1>1, <2>2, Goes DEF Moved
    <3>2. \A u \in Team : p \in Drawers[u] => ~sab.used[u]
      BY <1>6, <2>2, OneTeam
    <3>3. ask' \in Requests /\ ask'[p].used = sab.used
      <4>1. sab.used \in WhoHas /\ ask \in [Player -> [kind : Kind, used : WhoHas]]
        BY DEF Shaped, Armament, WhoHas
      <4>2. ask' \in [Player -> [kind : Kind, used : WhoHas]] /\ ask'[p].used = sab.used
        BY <2>2, <4>1
      <4> QED
        BY <4>2 DEF Requests, WhoHas
    <3>4. StillSoOf(p)'
      BY <1>1, <2>2, <3>1, <3>2, <3>3 DEF StillSoOf
    <3> QED
      BY <1>1, <3>1, <3>3, <3>4, ReadingKeeps
  <2> QED
    BY <1>6, <2>1, <2>2 DEF UseRead
<1> QED
  BY <1>3, <1>4, <1>5, <1>6 DEF Read, WindowRead

-----------------------------------------------------------------------------
\* A sabotage that has expired, or is cancelled, is disarmed.
LEMMA DisarmKeeps ==
  ASSUME Shaped, Booked, NEW p \in Player, Expire(p) \/ ClearArmed(p)
  PROVE  Shaped' /\ Booked'
<1>1. /\ slock = p /\ Alone(p) /\ req[p].pc \in {"sab_expire", "sab_clear"}
      /\ sab' = Disarmed /\ paid' = paid /\ marks' = marks
  BY InsideAlone DEF Expire, ClearArmed, Inside, SabPc
<1>2. /\ Moved(p, {"sab_read", "idle"}) /\ ask' \in Requests
      /\ req'[p].pc \in Inside => slock' = p
  BY <1>1, LockedGoes, LockedReturns
     DEF Expire, ClearArmed, Moved, Shaped, Requests, Inside, SabPc
<1>3. sab' \in Armament /\ sab'.by = Nobody /\ sab'.used = sab.used
  BY <1>1, DisarmedIs
<1>4. StillSoOf(p)'
  BY <1>2 DEF StillSoOf, Moved
<1>5. InsideHoldsLock' /\ StillSo'
  BY <1>1, <1>2, <1>4, AloneKeeps
<1>6. Shaped'
  BY <1>1, <1>2, <1>3 DEF Shaped, Moved, Requests
<1>7. PaidIsBooked'
  BY <1>1, <1>2, <1>3, OneTeam DEF PaidIsBooked, Booked, Moved
<1>8. OncePerGame'
  BY <1>1, <1>3, OneTeam DEF OncePerGame, Booked
<1> QED
  BY <1>5, <1>6, <1>7, <1>8 DEF Booked

LEMMA ArmKeeps ==
  ASSUME Shaped, Booked, NEW p \in Player, WriteArmed(p)
  PROVE  Shaped' /\ Booked'
<1>1. /\ slock = p /\ Alone(p) /\ req[p].pc = "sab_arm" /\ StillSoOf(p)
      /\ paid' = paid /\ marks' = marks /\ SabReturn(p)
  BY InsideAlone DEF WriteArmed, Inside, SabPc, Booked, StillSo
<1>2. /\ Moved(p, {"idle"}) /\ ask' \in Requests /\ req'[p].pc = "idle"
  BY <1>1, LockedReturns
<1>3. sab' \in Armament /\ sab'.by = p /\ sab'.used = sab.used
  <2>1. ArmSec - age[p] \in Int /\ p \in Holder
    BY ArmAssumption, ConfigAssumption DEF Shaped, Holder
  <2> QED
    BY <2>1 DEF WriteArmed, Shaped, Armament
<1>4. StillSoOf(p)' /\ req'[p].pc \notin Inside
  BY <1>2 DEF StillSoOf, Inside, SabPc
<1>5. InsideHoldsLock' /\ StillSo'
  BY <1>1, <1>2, <1>4, AloneKeeps
<1>6. Shaped'
  BY <1>1, <1>2, <1>3 DEF Shaped, Moved, Requests
<1>7. PaidIsBooked'
  BY <1>1, <1>2, <1>3, OneTeam DEF PaidIsBooked, Booked, Moved
<1>8. OncePerGame'
  BY <1>1, <1>3 DEF OncePerGame, Booked, StillSoOf
<1> QED
  BY <1>5, <1>6, <1>7, <1>8 DEF Booked

\* The stroke is paid: the team had paid for none.
LEMMA PayKeeps ==
  ASSUME Shaped, Booked, NEW p \in Player, PayStroke(p)
  PROVE  Shaped' /\ Booked'
<1>1. /\ slock = p /\ Alone(p) /\ req[p].pc = "sab_stroke" /\ StillSoOf(p)
      /\ sab' = sab /\ marks' = marks
  BY InsideAlone DEF PayStroke, Inside, SabPc, Booked, StillSo
<1>2. CASE SabReturn(p) /\ paid' = paid
  <2>1. Moved(p, {"idle"}) /\ ask' \in Requests /\ req'[p].pc = "idle"
    BY <1>2, LockedReturns
  <2>2. StillSoOf(p)' /\ req'[p].pc \notin Inside
    BY <2>1 DEF StillSoOf, Inside, SabPc
  <2> QED
    BY <1>1, <1>2, <2>1, <2>2, ReadingKeeps
<1>3. ASSUME NEW t \in Team, p \in Drawers[t], SabGoto(p, "sab_use"),
             paid' = [paid EXCEPT ![t] = @ + 1]
      PROVE  Shaped' /\ Booked'
  <2>1. /\ Moved(p, {"sab_use"}) /\ req'[p].pc = "sab_use" /\ age' = age
        /\ slock' = p /\ ask' = ask
    BY <1>1, <1>3, LockedGoes
  <2>2. \A u \in Team : p \in Drawers[u] => u = t
    BY <1>3, OneTeam
  <2>3. \A u \in Team : paid[u] >= 1 => sab.used[u]
    BY <1>1, OneTeam DEF Booked, PaidIsBooked, Alone, Inside, SabPc
  <2>4. /\ ~sab.used[t] /\ paid[t] = 0 /\ paid'[t] = 1
        /\ \A u \in Team \ {t} : paid'[u] = paid[u]
        /\ paid' \in [Team -> Nat]
    <3>1. ~sab.used[t]
      BY <1>1, <1>3 DEF StillSoOf
    <3>2. paid \in [Team -> Nat] /\ ~(paid[t] >= 1)
      BY <2>3, <3>1 DEF Shaped
    <3> QED
      BY <1>3, <3>1, <3>2
  <2>5. marks[Other(t)] \in Nat /\ marks[Other(t)] <= paid[t]
    BY OtherTeam DEF Booked, OncePerGame, Shaped, Team
  <2>6. marks'[Other(t)] < paid'[t]
    BY <1>1, <2>4, <2>5
  <2>7. StillSoOf(p)'
    BY <1>1, <2>1, <2>2, <2>6 DEF StillSoOf
  <2>8. InsideHoldsLock' /\ StillSo'
    BY <1>1, <2>1, <2>7, AloneKeeps
  <2>9. Shaped'
    BY <1>1, <2>1, <2>4 DEF Shaped, Moved
  <2>10. PaidIsBooked'
    BY <1>1, <1>3, <2>1, <2>3, <2>4 DEF PaidIsBooked
  <2>11. OncePerGame'
    <3>1. ASSUME NEW u \in Team PROVE marks'[Other(u)] <= paid'[u] /\ paid'[u] <= 1
      <4>1. CASE u = t
        BY <1>1, <2>4, <2>5, <4>1
      <4>2. CASE u # t
        BY <1>1, <2>4, <4>2 DEF Booked, OncePerGame
      <4> QED
        BY <4>1, <4>2
    <3> QED
      BY <1>1, <3>1 DEF OncePerGame, Booked
  <2> QED
    BY <2>8, <2>9, <2>10, <2>11 DEF Booked
<1> QED
  BY <1>2, <1>3 DEF PayStroke

\* sabotage_used is booked as it was read, and it was not changed since.
LEMMA UsedKeeps ==
  ASSUME Shaped, Booked, NEW p \in Player, WriteUsed(p)
  PROVE  Shaped' /\ Booked'
<1>1. /\ slock = p /\ Alone(p) /\ req[p].pc = "sab_use" /\ StillSoOf(p)
      /\ paid' = paid /\ marks' = marks /\ SabGoto(p, "sab_mark")
  BY InsideAlone DEF WriteUsed, Inside, SabPc, Booked, StillSo
<1>2. PICK t \in Team :
        /\ p \in Drawers[t]
        /\ sab' = [by |-> Nobody, left |-> 0, used |-> [ask[p].used EXCEPT ![t] = TRUE]]
  BY DEF WriteUsed
<1>3. /\ Moved(p, {"sab_mark"}) /\ req'[p].pc = "sab_mark" /\ age' = age
      /\ slock' = p /\ ask' = ask
  BY <1>1, LockedGoes
<1>4. ask[p].used = sab.used /\ sab.used \in WhoHas
  BY <1>1 DEF StillSoOf, Shaped, Armament
<1>5. /\ [sab.used EXCEPT ![t] = TRUE] \in WhoHas
      /\ [sab.used EXCEPT ![t] = TRUE][t]
      /\ \A u \in Team \ {t} : [sab.used EXCEPT ![t] = TRUE][u] = sab.used[u]
  BY <1>4 DEF WhoHas
<1>6. /\ sab' \in Armament /\ sab'.by = Nobody /\ sab'.used[t]
      /\ \A u \in Team \ {t} : sab'.used[u] = sab.used[u]
  <2>1. sab' = [by |-> Nobody, left |-> 0, used |-> [sab.used EXCEPT ![t] = TRUE]]
    BY <1>2, <1>4
  <2>2. Nobody \in Holder
    BY DEF Holder
  <2> QED
    BY <1>5, <2>1, <2>2 DEF Armament
<1>7. \A u \in Team : p \in Drawers[u] => u = t
  BY <1>2, OneTeam
<1>8. StillSoOf(p)'
  BY <1>1, <1>3 DEF StillSoOf
<1>9. InsideHoldsLock' /\ StillSo'
  BY <1>1, <1>3, <1>8, AloneKeeps
<1>10. Shaped'
  BY <1>1, <1>3, <1>6 DEF Shaped, Moved
<1>11. PaidIsBooked'
  <2>1. \A u \in Team \ {t} : paid[u] >= 1 => sab.used[u]
    BY <1>1, <1>7, OneTeam DEF Booked, PaidIsBooked, Alone, Inside, SabPc
  <2> QED
    BY <1>1, <1>6, <2>1 DEF PaidIsBooked
<1>12. OncePerGame'
  BY <1>1, <1>6, OneTeam DEF OncePerGame, Booked
<1> QED
  BY <1>9, <1>10, <1>11, <1>12 DEF Booked

\* The operation goes on the other canvas, and is paid.
LEMMA MarkKeeps ==
  ASSUME Shaped, Booked, NEW p \in Player, Mark(p)
  PROVE  Shaped' /\ Booked'
<1>1. /\ slock = p /\ Alone(p) /\ req[p].pc = "sab_mark" /\ StillSoOf(p)
      /\ paid' = paid /\ sab' = sab /\ SabGoto(p, "advance")
  BY InsideAlone DEF Mark, Inside, SabPc, Booked, StillSo
<1>2. PICK t \in Team :
        p \in Drawers[t] /\ marks' = [marks EXCEPT ![Other(t)] = @ + 1]
  BY DEF Mark
<1>3. /\ Moved(p, {"advance"}) /\ req'[p].pc = "advance" /\ age' = age
      /\ slock' = p /\ ask' = ask
  BY <1>1, LockedGoes
<1>4. StillSoOf(p)' /\ req'[p].pc \notin Inside
  BY <1>3 DEF StillSoOf, Inside, SabPc
<1>5. InsideHoldsLock' /\ StillSo'
  BY <1>1, <1>3, <1>4, AloneKeeps
<1>6. /\ marks' \in [Team -> Nat] /\ marks'[Other(t)] = marks[Other(t)] + 1
      /\ \A u \in Team \ {t} : marks'[Other(u)] = marks[Other(u)]
  BY <1>2, OtherTeam DEF Shaped, Team
<1>7. marks[Other(t)] < paid[t] /\ marks[Other(t)] \in Nat /\ paid[t] \in Nat
  BY <1>1, <1>2, OtherTeam DEF StillSoOf, Shaped, Team
<1>8. Shaped'
  BY <1>1, <1>3, <1>6 DEF Shaped, Moved
<1>9. PaidIsBooked'
  BY <1>1, <1>3, OneTeam DEF PaidIsBooked, Booked, Moved
<1>10. OncePerGame'
  <2>1. ASSUME NEW u \in Team PROVE marks'[Other(u)] <= paid[u]
    <3>1. CASE u = t
      BY <1>6, <1>7, <3>1
    <3>2. CASE u # t
      BY <1>6, <3>2 DEF Booked, OncePerGame
    <3> QED
      BY <3>1, <3>2
  <2> QED
    BY <1>1, <2>1 DEF OncePerGame, Booked
<1> QED
  BY <1>5, <1>8, <1>9, <1>10 DEF Booked

-----------------------------------------------------------------------------
LEMMA InitBooked == SabInit => Shaped /\ Booked
<1> SUFFICES ASSUME SabInit PROVE Shaped /\ Booked
  OBVIOUS
<1>1. \A p \in Player : req[p] = Idle
  BY DEF SabInit, Init
<1>2. \A p \in Player : "pc" \in DOMAIN req[p] /\ req[p].pc = "idle"
  BY <1>1, IdleHasPc
<1>3. Shaped
  <2>1. Unused \in WhoHas /\ Nobody \in Holder
    BY DEF Unused, WhoHas, Holder
  <2>2. sab \in Armament
    BY <2>1 DEF SabInit, Armament
  <2>3. Quiet \in [kind : Kind, used : [Team -> BOOLEAN]]
    BY DEF Quiet, Kind, Unused
  <2>4. age \in [Player -> 0..MaxDelay] /\ req = [p \in Player |-> req[p]]
    BY ConfigAssumption DEF SabInit, Init
  <2> QED
    BY <1>2, <2>2, <2>3, <2>4 DEF Shaped, SabInit
<1>4. OncePerGame
  BY OtherTeam, OneTeam DEF OncePerGame, SabInit, Team
<1>5. InsideHoldsLock /\ StillSo /\ PaidIsBooked
  BY <1>2 DEF InsideHoldsLock, StillSo, StillSoOf, PaidIsBooked, SabInit,
              Inside, SabPc
<1> QED
  BY <1>3, <1>4, <1>5 DEF Booked

LEMMA StepBooked == Shaped /\ Booked /\ [SabNext]_svars => Shaped' /\ Booked'
<1> SUFFICES ASSUME Shaped, Booked, [SabNext]_svars PROVE Shaped' /\ Booked'
  OBVIOUS
<1>1. ASSUME NEW p \in Player, SabStep(p) PROVE Shaped' /\ Booked'
  BY <1>1, LockKeeps, ReadKeeps, DisarmKeeps, ArmKeeps, PayKeeps, UsedKeeps,
     MarkKeeps DEF SabStep
<1>2. ASSUME NEW p \in Player, BeginOther(p) \/ Asking(p) \/ OtherStep(p)
      PROVE  Shaped' /\ Booked'
  BY <1>2, OtherKeeps, AskKeeps
<1>3. CASE UNCHANGED svars
  BY <1>3 DEF svars, vars, Shaped, Booked, InsideHoldsLock, StillSo, StillSoOf,
              PaidIsBooked, OncePerGame
<1> QED
  BY <1>1, <1>2, <1>3, ClockKeeps DEF SabNext, Handling

LEMMA AlwaysBooked == SabSpec => [](Shaped /\ Booked)
  BY InitBooked, StepBooked, PTL DEF SabSpec

\* However the requests of the drawers, the ticks and the end of the time it is
\* armed interleave, a team pays for at most one sabotage in a game, and every
\* operation put on the other canvas is paid for.
THEOREM SabotagedOnce == SabSpec => []OncePerGame
<1>1. Booked => OncePerGame
  BY DEF Booked
<1> QED
  BY <1>1, AlwaysBooked, PTL

-----------------------------------------------------------------------------
\* The step that takes away a sabotage whose time is not up.
LEMMA OnlyOwnOrPhase ==
  ASSUME Shaped, Booked, [SabNext]_svars, NEW p \in Player,
         sab.by = p, sab.left > 0, sab'.by # p
  PROVE  \/ req[p].pc \in {"sab_use", "sab_clear"}
         \/ \E q \in Player : req[q].pc \in Disarming /\ OtherStep(q)
<1>1. sab' # sab /\ p # Nobody
  BY OneTeam
<1>2. ASSUME NEW q \in Player, SabStep(q)
      PROVE  req[p].pc \in {"sab_use", "sab_clear"}
  <2>1. StillSoOf(q) /\ age[q] \in Nat /\ sab.left \in Int
    BY ConfigAssumption DEF Booked, StillSo, Shaped, Armament
  <2>2. Expire(q) \/ WriteArmed(q) \/ ClearArmed(q) \/ WriteUsed(q)
    BY <1>1, <1>2 DEF SabStep, Lock, Read, PayStroke, Mark
  <2>3. ~(Expire(q) \/ WriteArmed(q))
    BY <1>1, <2>1 DEF StillSoOf, Expire, WriteArmed
  <2> QED
    BY <1>1, <2>1, <2>2, <2>3 DEF StillSoOf, ClearArmed, WriteUsed
<1>3. ASSUME NEW q \in Player, OtherStep(q)
      PROVE  req[q].pc \in Disarming
  BY <1>1, <1>3 DEF OtherStep
<1>4. ASSUME NEW q \in Player, BeginOther(q) \/ Asking(q) PROVE FALSE
  BY <1>1, <1>4 DEF BeginOther, Asking, Arm, Use, Cancel, Leave, Ask
<1>5. ASSUME Clock PROVE FALSE
  <2>1. sab'.by = sab.by
    BY <1>5 DEF Clock, Shaped, Armament
  <2> QED
    BY <2>1
<1>6. ~UNCHANGED svars
  BY <1>1 DEF svars
<1> QED
  BY <1>2, <1>3, <1>4, <1>5, <1>6 DEF SabNext, Handling

\* A sabotage whose time is not up is only taken away by its own drawer or by
\* a phase that is entered, never by a request that read the game earlier.
THEOREM ArmedStays == SabSpec => ArmedIsKept
<1>1. ASSUME Shaped, Booked, [SabNext]_svars
      PROVE  [\A p \in Player :
                sab.by = p /\ sab.left > 0 /\ sab'.by # p
                => \/ req[p].pc \in {"sab_use", "sab_clear"}
                   \/ \E q \in Player : req[q].pc \in Disarming /\ OtherStep(q)]_svars
  BY <1>1, OnlyOwnOrPhase
<1> QED
  BY <1>1, AlwaysBooked, PTL DEF SabSpec, ArmedIsKept

-----------------------------------------------------------------------------
(***************************************************************************)
(* The types of the game and of the requests, which are wider here than in *)
(* VSGame: a request may also be inside one of the sabotage handlers.      *)
(***************************************************************************)
SabRequest == [pc : Pc \cup SabPc, round : 0..MaxRounds, guess : Guesses,
               due : BOOLEAN, pend : Transition, owed : SUBSET Player]
Hash == [phase : Phase, round : 0..MaxRounds, left : Int,
         trans : Transition, guess : Guesses, winner : Team \cup {"none"},
         reason : {"none", "CORRECT", "NO_WINNER", "GM_END"}]

Requested == req \in [Player -> SabRequest]
Stored ==
  /\ room \in [state : {"IN_GAME", "GAME_END"}, round_no : 0..MaxRounds]
  /\ game \in Hash

\* Only a drawer has a sabotage armed, or is about to arm one.
Drawing == UNION {Drawers[t] : t \in Team}
DrawersArm ==
  /\ sab.by \in {Nobody} \cup Drawing
  /\ \A p \in Player : req[p].pc = "sab_arm" => p \in Drawing

SabTyped ==
  /\ Requested /\ Stored /\ DrawersArm
  /\ slock \in Player \cup {Nobody} /\ mixed \in BOOLEAN

\* The step of one request.
LEMMA RequestTyped ==
  ASSUME Requested, NEW p \in Player, NEW r \in SabRequest,
         req' = [req EXCEPT ![p] = r]
  PROVE  Requested'
  BY DEF Requested

LEMMA IdleTyped == Idle \in SabRequest
  BY ValuesTyped DEF Request, SabRequest

LEMMA MovesTyped ==
  ASSUME Requested, NEW p \in Player
  PROVE  /\ \A pc \in Pc \cup SabPc : Goto(p, pc) => Requested'
         /\ Return(p) => Requested'
         /\ \A tr \in Transition : WillEnter(p, tr) => Requested'
<1>1. ASSUME NEW pc \in Pc \cup SabPc, Goto(p, pc) PROVE Requested'
  <2> DEFINE r == [req[p] EXCEPT !.pc = pc]
  <2>1. r \in SabRequest
    BY DEF Requested, SabRequest
  <2>2. req' = [req EXCEPT ![p] = r]
    BY <1>1 DEF Goto, Requested
  <2> HIDE DEF r
  <2> QED
    BY <2>1, <2>2, RequestTyped
<1>2. ASSUME Return(p) PROVE Requested'
  BY <1>2, IdleTyped, RequestTyped DEF Return
<1>3. ASSUME NEW tr \in Transition, WillEnter(p, tr) PROVE Requested'
  <2> DEFINE r == [Idle EXCEPT !.pc = "transition", !.pend = tr]
  <2>1. r \in SabRequest
    BY IdleTyped DEF SabRequest, Pc
  <2>2. req' = [req EXCEPT ![p] = r]
    BY <1>3 DEF WillEnter
  <2> HIDE DEF r
  <2> QED
    BY <2>1, <2>2, RequestTyped
<1> QED
  BY <1>1, <1>2, <1>3

\* A request that starts reads a round number within its range.
LEMMA StartsTyped ==
  ASSUME Requested, Stored, NEW p \in Player, NEW pc \in Pc \cup SabPc,
         NEW rd \in 0..MaxRounds,
         req' = [req EXCEPT ![p] = [Idle EXCEPT !.pc = pc, !.round = rd]]
  PROVE  Requested'
<1> DEFINE r == [Idle EXCEPT !.pc = pc, !.round = rd]
<1>1. r \in SabRequest
  BY IdleTyped DEF SabRequest
<1>2. req' = [req EXCEPT ![p] = r]
  OBVIOUS
<1> HIDE DEF r
<1> QED
  BY <1>1, <1>2, RequestTyped

\* What the handlers of VSGame write in the game hash.
LEMMA HashTyped ==
  ASSUME NEW g \in Hash, NEW phase \in Phase, NEW left \in Int, NEW trans \in Transition
  PROVE  [g EXCEPT !.phase = phase, !.left = left, !.trans = trans] \in Hash
  BY DEF Hash

\* auto_advance_vs_phase and what it calls keep the types,
LEMMA TickKeepsTypes ==
  ASSUME Shaped, Requested, Stored, NEW p \in Player,
         \/ Advance(p) \/ AdvanceDraw(p) \/ NoGuess(p) \/ EnterTransition(p)
         \/ EnterGuess(p) \/ EnterDraw(p) \/ Refill(p) \/ SetRound(p)
  PROVE  Requested' /\ Stored'
<1>0. /\ req[p] \in SabRequest /\ req[p].pend \in Transition
      /\ req[p].round \in 0..MaxRounds /\ req[p].guess \in Guesses
      /\ req[p].pend.round \in 0..MaxRounds /\ age[p] \in Int
      /\ game \in Hash /\ game.trans \in Transition /\ game.guess \in Guesses
      /\ TransitionSec - age[p] \in Int /\ GuessSec - age[p] \in Int
      /\ DrawSec - age[p] \in Int
  BY ConfigAssumption DEF Requested, Stored, SabRequest, Hash, Shaped, Transition
<1>1. CASE Advance(p)
  <2>1. ASSUME NEW next \in {"GUESS", "DRAW", "GAME_END"},
               req' = [req EXCEPT ![p] = [Idle EXCEPT !.pc = Enter(next),
                                                     !.pend = game.trans]]
        PROVE  Requested'
    <3> DEFINE r == [Idle EXCEPT !.pc = Enter(next), !.pend = game.trans]
    <3>1. r \in SabRequest
      <4>1. Enter(next) \in Pc
        BY DEF Enter, Pc
      <4> QED
        BY <1>0, <4>1, IdleTyped DEF SabRequest
    <3>2. req' = [req EXCEPT ![p] = r]
      BY <2>1
    <3> HIDE DEF r
    <3> QED
      BY <3>1, <3>2, RequestTyped
  <2>2. ASSUME req' = [req EXCEPT ![p] = [Idle EXCEPT !.pc = "advance_draw",
                                                     !.due = Due(p)]]
        PROVE  Requested'
    <3> DEFINE r == [Idle EXCEPT !.pc = "advance_draw", !.due = Due(p)]
    <3>1. r \in SabRequest
      <4>1. Due(p) \in BOOLEAN
        BY DEF Due
      <4> QED
        BY <4>1, IdleTyped DEF SabRequest, Pc
    <3>2. req' = [req EXCEPT ![p] = r]
      BY <2>2
    <3> HIDE DEF r
    <3> QED
      BY <3>1, <3>2, RequestTyped
  <2>3. ASSUME req' = [req EXCEPT ![p].pc = "no_guess", ![p].guess = game.guess]
        PROVE  Requested'
    <3> DEFINE r == [req[p] EXCEPT !.pc = "no_guess", !.guess = game.guess]
    <3>1. r \in SabRequest
      BY <1>0 DEF SabRequest, Pc
    <3>2. req' = [req EXCEPT ![p] = r]
      BY <2>3 DEF Requested
    <3> HIDE DEF r
    <3> QED
      BY <3>1, <3>2, RequestTyped
  <2>4. Requested'
    BY <1>1, <2>1, <2>2, <2>3, MovesTyped DEF Advance
  <2> QED
    BY <1>1, <2>4 DEF Advance, Stored
<1>2. CASE AdvanceDraw(p)
  BY <1>2, MovesTyped, ValuesTyped DEF AdvanceDraw, Stored
<1>3. CASE NoGuess(p)
  <2> DEFINE g == [t \in Team |-> IF req[p].guess[t] = "none" THEN "NO_GUESS"
                                                             ELSE req[p].guess[t]]
  <2>1. g \in Guesses
    BY <1>0 DEF Guesses, Result
  <2>2. game' = [game EXCEPT !.guess = g]
    BY <1>3 DEF NoGuess
  <2> HIDE DEF g
  <2>3. game' \in Hash
    BY <1>0, <2>1, <2>2 DEF Hash
  <2>4. Requested'
    BY <1>0, <1>3, MovesTyped, ValuesTyped DEF NoGuess
  <2> QED
    BY <1>3, <2>3, <2>4 DEF NoGuess, Stored
<1>4. CASE EnterTransition(p) \/ EnterGuess(p)
  <2>1. game' \in Hash
    <3>1. "TRANSITION" \in Phase /\ "GUESS" \in Phase /\ NoTransition \in Transition
      BY ValuesTyped DEF Phase
    <3>2. CASE EnterTransition(p)
      BY <1>0, <3>1, <3>2, HashTyped DEF EnterTransition
    <3>3. CASE EnterGuess(p)
      BY <1>0, <3>1, <3>3, HashTyped DEF EnterGuess
    <3> QED
      BY <1>4, <3>2, <3>3
  <2>2. Requested'
    BY <1>4, MovesTyped DEF EnterTransition, EnterGuess
  <2> QED
    BY <1>4, <2>1, <2>2 DEF EnterTransition, EnterGuess, Stored
<1>5. CASE EnterDraw(p)
  <2> DEFINE g == [game EXCEPT !.phase = "DRAW", !.left = DrawSec - age[p],
                               !.trans = NoTransition]
  <2>1. g \in Hash
    BY <1>0, HashTyped, ValuesTyped DEF Phase
  <2>2. game' = [g EXCEPT !.round = req[p].pend.round, !.guess = NoGuesses,
                          !.winner = "none", !.reason = "none"]
    BY <1>5 DEF EnterDraw, Hash, Stored
  <2> HIDE DEF g
  <2>3. game' \in Hash
    BY <1>0, <2>1, <2>2, ValuesTyped DEF Hash
  <2>4. Requested'
    BY <1>5, MovesTyped DEF EnterDraw, Pc
  <2> QED
    BY <1>5, <2>3, <2>4 DEF EnterDraw, Stored
<1>6. CASE Refill(p)
  BY <1>6, MovesTyped DEF Refill, Stored, Pc
<1>7. CASE SetRound(p)
  <2>1. Requested'
    BY <1>7, MovesTyped DEF SetRound
  <2>2. Stored'
    BY <1>0, <1>7 DEF SetRound, Stored
  <2> QED
    BY <2>1, <2>2
<1> QED
  BY <1>1, <1>2, <1>3, <1>4, <1>5, <1>6, <1>7

\* and so do strokes, guesses and both ends of a game.
LEMMA PlayKeepsTypes ==
  ASSUME Shaped, Requested, Stored, NEW p \in Player,
         \/ DrawRead(p) \/ Stroke(p) \/ GuessRead(p) \/ GuessWrite(p)
         \/ EndCheck(p) \/ Award(p) \/ Pay(p) \/ EndGame(p) \/ EndRoom(p)
         \/ p = GM /\ GMStep
  PROVE  Requested' /\ Stored'
<1>0. /\ req[p] \in SabRequest /\ req[p].pend \in Transition
      /\ req[p].round \in 0..MaxRounds /\ req[p].guess \in Guesses
      /\ req[p].pend.winner \in Team \cup {"none"}
      /\ req[p].pend.reason \in {"none", "CORRECT", "NO_WINNER", "GM_END"}
      /\ game \in Hash /\ game.guess \in Guesses /\ 0 \in Int
  BY DEF Requested, Stored, SabRequest, Hash, Transition
<1>1. CASE DrawRead(p)
  BY <1>1, MovesTyped DEF DrawRead, Stored, Pc
<1>2. CASE Stroke(p)
  BY <1>2, MovesTyped DEF Stroke, Stored, Pc
<1>3. CASE GuessRead(p)
  <2>1. ASSUME NEW t \in Team, NEW result \in {"WRONG", "CORRECT"},
               req' = [req EXCEPT ![p].pc = "guess_write",
                                  ![p].guess = [game.guess EXCEPT ![t] = result]]
        PROVE  Requested'
    <3> DEFINE g == [game.guess EXCEPT ![t] = result]
               r == [req[p] EXCEPT !.pc = "guess_write", !.guess = g]
    <3>1. g \in Guesses
      BY <1>0 DEF Guesses, Result
    <3>2. req' = [req EXCEPT ![p] = r]
      BY <2>1 DEF Requested
    <3> HIDE DEF g
    <3>3. r \in SabRequest
      BY <1>0, <3>1 DEF SabRequest, Pc
    <3> HIDE DEF r
    <3> QED
      BY <3>2, <3>3, RequestTyped
  <2>2. Requested'
    BY <1>3, <2>1, MovesTyped DEF GuessRead, Pc
  <2> QED
    BY <1>3, <2>2 DEF GuessRead, Stored
<1>4. CASE GuessWrite(p)
  <2>1. \A t \in Team : To("GAME_END", 0, "CORRECT", t) \in Transition
    BY ConfigAssumption DEF To, Transition
  <2>2. Requested'
    BY <1>0, <1>4, <2>1, MovesTyped, ValuesTyped DEF GuessWrite
  <2>3. game' \in Hash
    BY <1>0, <1>4 DEF GuessWrite, Hash
  <2> QED
    BY <1>4, <2>2, <2>3 DEF GuessWrite, Stored
<1>5. CASE EndCheck(p)
  BY <1>5, MovesTyped DEF EndCheck, Stored, Pc
<1>10. ASSUME NEW owed \in SUBSET Player, Owe(p, owed) PROVE Requested'
  <2> DEFINE pc == IF owed = {} THEN "end_game" ELSE "pay"
             r == [req[p] EXCEPT !.pc = pc, !.owed = owed]
  <2>1. req' = [req EXCEPT ![p] = r]
    BY <1>10 DEF Owe, Requested
  <2>2. pc \in Pc
    BY DEF Pc
  <2> HIDE DEF pc
  <2>3. r \in SabRequest
    BY <1>0, <2>2 DEF SabRequest
  <2>4. UNCHANGED age
    BY <1>10 DEF Owe
  <2> HIDE DEF r
  <2> QED
    BY <2>1, <2>3, <2>4, RequestTyped
<1>11. CASE Award(p)
  <2>1. Requested'
    BY <1>10, <1>11, WinnersOfOneSide DEF Award
  <2> QED
    BY <1>11, <2>1 DEF Award, Stored
<1>12. CASE Pay(p)
  <2>1. PICK q \in req[p].owed : /\ points' = [points EXCEPT ![q] = @ + 1]
                                 /\ Owe(p, req[p].owed \ {q})
    BY <1>12 DEF Pay
  <2>2. req[p].owed \subseteq Player
    BY <1>0 DEF SabRequest
  <2>3. Requested'
    BY <1>10, <2>1, <2>2
  <2>4. Stored'
    BY <1>12, <2>1, <2>2 DEF Pay, Stored
  <2> QED
    BY <2>3, <2>4
<1>6. CASE EndGame(p)
  <2>1. Requested'
    BY <1>6, MovesTyped DEF EndGame, Pc
  <2>2. game' \in Hash
    <3> DEFINE g == [game EXCEPT !.phase = "VOTING", !.left = 0, !.trans = NoTransition]
    <3>1. g \in Hash
      BY <1>0, HashTyped, ValuesTyped DEF Phase
    <3>2. game' = [g EXCEPT !.winner = req[p].pend.winner, !.reason = req[p].pend.reason]
      BY <1>6 DEF EndGame, Hash, Stored
    <3> HIDE DEF g
    <3> QED
      BY <1>0, <3>1, <3>2 DEF Hash
  <2> QED
    BY <1>6, <2>1, <2>2 DEF EndGame, Stored
<1>7. CASE EndRoom(p)
  BY <1>7, MovesTyped DEF EndRoom, Stored
<1>8. CASE p = GM /\ GMEndGame
  <2>1. Requested'
    BY <1>8, MovesTyped DEF GMEndGame, Pc
  <2>2. game' \in Hash
    BY <1>0, <1>8 DEF GMEndGame, Hash, Phase
  <2> QED
    BY <1>8, <2>1, <2>2 DEF GMEndGame, Stored
<1>9. CASE p = GM /\ GMEndRoom
  BY <1>9, MovesTyped DEF GMEndRoom, Stored
<1> QED
  BY <1>1, <1>2, <1>3, <1>4, <1>5, <1>6, <1>7, <1>8, <1>9, <1>11, <1>12 DEF GMStep

\* The handlers of VSGame arm nothing.
LEMMA OtherSabTyped ==
  ASSUME Shaped, SabTyped, NEW p \in Player, BeginOther(p) \/ OtherStep(p)
  PROVE  SabTyped'
<1>1. Requested' /\ Stored'
  <2>1. ASSUME NEW pc \in {"advance", "draw", "guess"}, Begin(p, pc)
        PROVE  Requested' /\ Stored'
    <3>1. pc \in Pc \cup SabPc /\ room.round_no \in 0..MaxRounds
      BY DEF Pc, SabTyped, Stored
    <3> QED
      BY <2>1, <3>1, StartsTyped DEF Begin, SabTyped, Stored
  <2>2. ASSUME p = GM, BeginGMEnd PROVE Requested' /\ Stored'
    BY <2>2, MovesTyped DEF BeginGMEnd, SabTyped, Stored, Pc
  <2>3. ASSUME Step(p) \/ (p = GM /\ GMStep) PROVE Requested' /\ Stored'
    BY <2>3, TickKeepsTypes, PlayKeepsTypes DEF Step, SabTyped
  <2> QED
    BY <2>1, <2>2, <2>3 DEF BeginOther, OtherStep, BeginTick, BeginDraw, BeginGuess
<1>2. DrawersArm'
  <2>1. Moved(p, Pc)
    BY BeginMoves, OtherMoves
  <2>2. sab'.by \in {sab.by, Nobody}
    BY DisarmedIs DEF BeginOther, OtherStep
  <2> QED
    BY <2>1, <2>2 DEF DrawersArm, SabTyped, Moved, Pc
<1>3. slock' \in Player \cup {Nobody} /\ mixed' \in BOOLEAN
  BY DEF SabTyped, BeginOther, OtherStep, Leaves
<1> QED
  BY <1>1, <1>2, <1>3 DEF SabTyped

\* Asking for a sabotage arms nothing either.
LEMMA AskSabTyped ==
  ASSUME Shaped, SabTyped, NEW p \in Player, Asking(p)
  PROVE  SabTyped'
<1>1. PICK kind : Ask(p, kind)
  BY DEF Asking, Arm, Use, Cancel, Leave
<1>2. /\ UNCHANGED <<room, game, sab, slock>> /\ mixed' \in BOOLEAN
      /\ req' = [req EXCEPT ![p] = [Idle EXCEPT !.pc = "sab_lock"]]
  BY <1>1 DEF Ask, SabTyped
<1> DEFINE r == [Idle EXCEPT !.pc = "sab_lock"]
<1>3. r \in SabRequest /\ r.pc = "sab_lock"
  BY IdleTyped DEF SabRequest, SabPc
<1>4. req' = [req EXCEPT ![p] = r]
  BY <1>2
<1> HIDE DEF r
<1>5. Requested' /\ req'[p].pc = "sab_lock" /\ \A q \in Player : q # p => req'[q] = req[q]
  BY <1>3, <1>4, RequestTyped DEF SabTyped, Requested
<1> QED
  BY <1>2, <1>5 DEF SabTyped, Stored, DrawersArm

\* The sabotage handlers: only a drawer gets as far as arming.
LEMMA StepSabTyped ==
  ASSUME Shaped, SabTyped, NEW p \in Player, SabStep(p)
  PROVE  SabTyped'
<1>0. /\ UNCHANGED <<room, game, mixed>> /\ Requested /\ DrawersArm
      /\ room.round_no \in 0..MaxRounds
  BY DEF SabStep, Lock, Read, Expire, WriteArmed, ClearArmed, PayStroke, WriteUsed,
         Mark, SabTyped, Stored
<1>1. ASSUME NEW pc \in Pc \cup SabPc, SabGoto(p, pc)
      PROVE  /\ Requested' /\ Moved(p, {pc})
             /\ slock' \in Player \cup {Nobody}
  BY <1>0, <1>1, MovesTyped, Goes DEF SabGoto, SabTyped
<1>2. ASSUME SabReturn(p)
      PROVE  /\ Requested' /\ Moved(p, {"idle"})
             /\ slock' \in Player \cup {Nobody}
  BY <1>0, <1>2, MovesTyped, Returns DEF SabReturn, SabTyped
<1>3. ASSUME NEW pc, Moved(p, {pc}), Requested', slock' \in Player \cup {Nobody},
             pc = "sab_arm" => p \in Drawing,
             sab'.by \in {sab.by, Nobody} \/ sab'.by \in Drawing
      PROVE  SabTyped'
  <2>1. DrawersArm'
    BY <1>0, <1>3 DEF DrawersArm, Moved
  <2> QED
    BY <1>0, <1>3, <2>1 DEF SabTyped, Stored
<1>4. CASE Lock(p)
  <2>1. sab' = sab
    BY <1>4 DEF Lock
  <2>2. CASE ask[p].kind \in {"cancel", "leave"} \/ room.state = "IN_GAME"
    <3> DEFINE r == [req[p] EXCEPT !.pc = "sab_read", !.round = room.round_no]
    <3>0. req[p] \in SabRequest /\ "sab_read" \in Pc \cup SabPc
          /\ room.round_no \in 0..MaxRounds
      BY <1>0 DEF Requested, SabPc
    <3>1. r \in SabRequest /\ r.pc = "sab_read"
      BY <3>0 DEF SabRequest
    <3>2. req' = [req EXCEPT ![p] = r] /\ slock' = p
      BY <1>0, <1>4, <2>2 DEF Lock, Requested
    <3> HIDE DEF r
    <3>3. /\ Requested' /\ req'[p].pc = "sab_read"
          /\ \A q \in Player : q # p => req'[q] = req[q]
      BY <1>0, <3>1, <3>2, RequestTyped DEF Requested
    <3>4. DrawersArm'
      BY <1>0, <2>1, <3>3 DEF DrawersArm
    <3> QED
      BY <1>0, <3>2, <3>3, <3>4 DEF SabTyped, Stored
  <2>3. CASE ~(ask[p].kind \in {"cancel", "leave"} \/ room.state = "IN_GAME")
    <3>1. Return(p) /\ slock' = slock
      BY <1>4, <2>3 DEF Lock, Return
    <3>2. Requested' /\ Moved(p, {"idle"})
      BY <1>0, <3>1, MovesTyped, Returns
    <3> QED
      BY <1>3, <2>1, <3>1, <3>2 DEF SabTyped
  <2> QED
    BY <2>2, <2>3
<1>5. CASE Read(p)
  <2>1. sab' = sab
    BY <1>5 DEF Read
  <2>2. ASSUME SabReturn(p) PROVE SabTyped'
    BY <1>2, <1>3, <2>1, <2>2
  <2>3. ASSUME NEW pc \in Pc \cup SabPc, SabGoto(p, pc), pc = "sab_arm" => p \in Drawing
        PROVE  SabTyped'
    BY <1>1, <1>3, <2>1, <2>3
  <2>4. ASSUME NEW t \in Team, p \in Drawers[t], ArmRead(p, t) \/ UseRead(p, t)
        PROVE  SabTyped'
    <3>1. p \in Drawing /\ "sab_arm" \in Pc \cup SabPc /\ "sab_stroke" \in Pc \cup SabPc
      BY <2>4 DEF Drawing, SabPc
    <3>2. CASE Goto(p, "sab_stroke") /\ UNCHANGED slock
      <4>1. Requested' /\ Moved(p, {"sab_stroke"})
        BY <1>0, <3>1, <3>2, MovesTyped, Goes
      <4> QED
        BY <1>3, <2>1, <3>2, <4>1 DEF SabTyped
    <3> QED
      BY <2>2, <2>3, <2>4, <3>1, <3>2 DEF ArmRead, UseRead
  <2>5. /\ "advance" \in Pc \cup SabPc /\ "sab_expire" \in Pc \cup SabPc
        /\ "sab_clear" \in Pc \cup SabPc
    BY DEF Pc, SabPc
  <2> QED
    BY <1>5, <2>2, <2>3, <2>4, <2>5 DEF Read, WindowRead
<1>6. CASE Expire(p)
  <2>1. "sab_read" \in Pc \cup SabPc /\ sab'.by = Nobody
    BY <1>6, DisarmedIs DEF Expire, SabPc
  <2> QED
    BY <1>1, <1>3, <1>6, <2>1 DEF Expire
<1>7. CASE WriteArmed(p)
  <2>1. sab'.by \in Drawing
    BY <1>0, <1>7 DEF WriteArmed, DrawersArm, Shaped, Armament
  <2> QED
    BY <1>2, <1>3, <1>7, <2>1 DEF WriteArmed
<1>8. CASE ClearArmed(p)
  <2>1. sab'.by = Nobody
    BY <1>8, DisarmedIs DEF ClearArmed
  <2> QED
    BY <1>2, <1>3, <1>8, <2>1 DEF ClearArmed
<1>9. CASE PayStroke(p)
  <2>1. "sab_use" \in Pc \cup SabPc /\ sab' = sab
    BY <1>9 DEF PayStroke, SabPc
  <2> QED
    BY <1>1, <1>2, <1>3, <1>9, <2>1 DEF PayStroke
<1>10. CASE WriteUsed(p) \/ Mark(p)
  <2>1. /\ "sab_mark" \in Pc \cup SabPc /\ "advance" \in Pc \cup SabPc
        /\ sab'.by \in {sab.by, Nobody}
    BY <1>10 DEF WriteUsed, Mark, SabPc, Pc
  <2> QED
    BY <1>1, <1>3, <1>10, <2>1 DEF WriteUsed, Mark
<1> QED
  BY <1>4, <1>5, <1>6, <1>7, <1>8, <1>9, <1>10 DEF SabStep

LEMMA ClockSabTyped ==
  ASSUME Shaped, SabTyped, Clock
  PROVE  SabTyped'
<1>1. /\ req' = req /\ room' = room /\ slock' = slock /\ mixed' = mixed
      /\ sab'.by = sab.by
  BY DEF Clock, ClockTick, Shaped, Armament
<1>2. game' \in Hash
  <2> DEFINE n == IF game.left > -MaxDelay THEN game.left - 1 ELSE game.left
  <2>1. n \in Int /\ game \in Hash
    BY ConfigAssumption DEF SabTyped, Stored, Hash
  <2>2. game' = [game EXCEPT !.left = n]
    BY DEF Clock, ClockTick
  <2> HIDE DEF n
  <2> QED
    BY <2>1, <2>2 DEF Hash
<1> QED
  BY <1>1, <1>2 DEF SabTyped, Requested, Stored, DrawersArm

LEMMA SabTypedInit == SabInit => SabTyped
<1> SUFFICES ASSUME SabInit PROVE SabTyped
  OBVIOUS
<1>1. Requested /\ req = [p \in Player |-> Idle]
  BY IdleTyped DEF SabInit, Init, Requested
<1>2. DrawersArm
  BY <1>1 DEF SabInit, DrawersArm, Idle
<1>3. Stored
  BY ValuesTyped, ConfigAssumption DEF SabInit, Init, Stored, Hash, Phase
<1> QED
  BY <1>1, <1>2, <1>3 DEF SabTyped, SabInit

LEMMA SabTypedStep == Shaped /\ SabTyped /\ [SabNext]_svars => SabTyped'
<1> SUFFICES ASSUME Shaped, SabTyped, [SabNext]_svars PROVE SabTyped'
  OBVIOUS
<1>1. CASE UNCHANGED svars
  BY <1>1 DEF svars, vars, SabTyped, Requested, Stored, DrawersArm
<1> QED
  BY <1>1, OtherSabTyped, AskSabTyped, StepSabTyped, ClockSabTyped DEF SabNext, Handling

LEMMA AlwaysSabTyped == SabSpec => [](Shaped /\ Booked /\ SabTyped)
  BY InitBooked, StepBooked, SabTypedInit, SabTypedStep, PTL DEF SabSpec

\* Only drawers of the two teams ever have a sabotage armed, and every request
\* of the sabotage handlers and of the game keeps to its values.
THEOREM SabTypeCorrect == SabSpec => []SabTypeOK
<1>1. ASSUME Shaped, SabTyped PROVE SabTypeOK
  <2>1. sab.left \in Int /\ sab.used \in [Team -> BOOLEAN]
    BY <1>1 DEF Shaped, Armament, WhoHas
  <2>2. req \in [Player -> [pc : Pc \cup SabPc, round : 0..MaxRounds,
                            guess : Guesses, due : BOOLEAN, pend : Transition,
                            owed : SUBSET Player]]
    BY <1>1 DEF SabTyped, Requested, SabRequest
  <2>3. sab.by \in {Nobody} \cup UNION {Drawers[t] : t \in Team}
    BY <1>1 DEF SabTyped, DrawersArm, Drawing
  <2> QED
    BY <1>1, <2>1, <2>2, <2>3 DEF SabTypeOK, Shaped, SabTyped
<1> QED
  BY <1>1, AlwaysSabTyped, PTL

-----------------------------------------------------------------------------
(***************************************************************************)
(* Armed only in DRAW, while requests do not overlap.                      *)
(***************************************************************************)
\* Until two requests overlap there is one under way, and one that is about to
\* arm a sabotage is still in the phase it has read.
Lonely(p) == \A q \in Player : q # p => req[q].pc = "idle"
InDraw ==
  ~mixed => /\ \A p \in Player : req[p].pc # "idle" => Lonely(p)
            /\ \A p \in Player : req[p].pc = "sab_arm" => game.phase = "DRAW"
            /\ sab.by # Nobody => game.phase = "DRAW" \/ game.reason = "GM_END"

\* What the step of p has to show.
LEMMA InDrawKept ==
  ASSUME InDraw, NEW p \in Player, NEW to, Moved(p, to),
         mixed' = mixed, Lonely(p) \/ mixed,
         ~mixed /\ req'[p].pc = "sab_arm" => game'.phase = "DRAW",
         ~mixed /\ sab'.by # Nobody => game'.phase = "DRAW" \/ game'.reason = "GM_END"
  PROVE  InDraw'
<1> SUFFICES ASSUME ~mixed PROVE InDraw'
  BY DEF InDraw
<1>1. \A q \in Player : q # p => req'[q].pc = "idle"
  BY DEF Moved, Lonely
<1> QED
  BY <1>1 DEF InDraw, Lonely

\* A request that begins while another is under way makes them overlap.
LEMMA BeginInDraw ==
  ASSUME Shaped, InDraw, NEW p \in Player, BeginOther(p) \/ Asking(p)
  PROVE  InDraw'
<1>1. /\ mixed' = (mixed \/ Under # {})
      /\ sab' = sab /\ game' = game
  BY DEF BeginOther, Asking, Arm, Use, Cancel, Leave, Ask, BeginTick, BeginDraw,
         BeginGuess, Begin, BeginGMEnd
<1>2. Moved(p, Outside)
  <2>1. CASE BeginOther(p)
    BY <2>1, BeginMoves DEF Moved, Outside
  <2>2. CASE Asking(p)
    <3>1. PICK kind : Ask(p, kind)
      BY <2>2 DEF Asking, Arm, Use, Cancel, Leave
    <3> DEFINE r == [Idle EXCEPT !.pc = "sab_lock"]
    <3>2. "pc" \in DOMAIN r /\ r.pc = "sab_lock"
      BY DEF Idle
    <3> QED
      BY <3>1, <3>2, Replaced DEF Ask, Moved, Outside, Shaped
  <2> QED
    BY <2>1, <2>2
<1>3. ASSUME ~mixed' PROVE InDraw'
  <2>1. ~mixed /\ \A q \in Player : req[q].pc = "idle"
    BY <1>1, <1>3 DEF Under
  <2>2. req'[p].pc # "sab_arm"
    BY <1>2 DEF Moved, Outside, Pc
  <2>3. \A q \in Player : q # p => req'[q].pc = "idle"
    BY <1>2, <2>1 DEF Moved
  <2> QED
    BY <1>1, <2>1, <2>2, <2>3 DEF InDraw, Lonely
<1> QED
  BY <1>3 DEF InDraw

\* A handler of the game that leaves a sabotage armed leaves the phase alone,
\* end_game of the GameMaster excepted.
LEMMA PhaseOrDisarmed ==
  ASSUME Shaped, SabTyped, NEW p \in Player, OtherStep(p)
  PROVE  /\ req[p].pc # "idle"
         /\ \/ sab'.by = Nobody
            \/ sab'.by = sab.by /\ game'.reason = "GM_END"
            \/ /\ sab'.by = sab.by
               /\ game'.phase = game.phase /\ game'.reason = game.reason
<1>1. Disarmed.by = Nobody
  BY DisarmedIs
<1>2. game \in Hash
  BY DEF SabTyped, Stored
<1>3. CASE req[p].pc \in Disarming
  BY <1>1, <1>3 DEF OtherStep, Disarming
<1>4. CASE req[p].pc \notin Disarming
  <2>1. sab' = sab
    BY <1>4 DEF OtherStep
  <2>2. ~(EnterTransition(p) \/ EnterGuess(p) \/ EnterDraw(p) \/ EndGame(p))
    BY <1>4 DEF EnterTransition, EnterGuess, EnterDraw, EndGame, Disarming
  <2>3. CASE NoGuess(p)
    BY <1>2, <2>1, <2>3 DEF NoGuess, Hash
  <2>4. CASE GuessWrite(p)
    BY <1>2, <2>1, <2>4 DEF GuessWrite, Hash
  <2>5. CASE p = GM /\ GMEndGame
    BY <1>2, <2>1, <2>5 DEF GMEndGame, Hash
  <2>6. CASE \/ Advance(p) \/ AdvanceDraw(p) \/ Refill(p) \/ SetRound(p)
             \/ DrawRead(p) \/ Stroke(p) \/ GuessRead(p)
             \/ EndCheck(p) \/ Award(p) \/ Pay(p) \/ EndRoom(p)
             \/ (p = GM /\ GMEndRoom)
    BY <2>1, <2>6 DEF Advance, AdvanceDraw, Refill, SetRound, DrawRead, Stroke,
                      GuessRead, EndCheck, Award, Pay, EndRoom, GMEndRoom
  <2> QED
    BY <2>2, <2>3, <2>4, <2>5, <2>6 DEF OtherStep, Step, GMStep
<1> QED
  BY <1>3, <1>4

LEMMA OtherInDraw ==
  ASSUME Shaped, SabTyped, InDraw, NEW p \in Player, OtherStep(p)
  PROVE  InDraw'
<1>1. Moved(p, Pc) /\ req'[p].pc # "sab_arm" /\ mixed' = mixed
  BY OtherMoves DEF OtherStep, Moved, Pc
<1>2. Lonely(p) \/ mixed
  BY PhaseOrDisarmed DEF InDraw
<1>3. ~mixed /\ sab'.by # Nobody => game'.phase = "DRAW" \/ game'.reason = "GM_END"
  BY PhaseOrDisarmed DEF InDraw
<1> QED
  BY <1>1, <1>2, <1>3, InDrawKept

\* A sabotage handler writes what it found in DRAW while it is still DRAW.
LEMMA SabInDraw ==
  ASSUME Shaped, InDraw, NEW p \in Player, SabStep(p)
  PROVE  InDraw'
<1>1. /\ game' = game /\ mixed' = mixed /\ req[p].pc # "idle"
  BY DEF SabStep, Lock, Read, Expire, WriteArmed, ClearArmed, PayStroke, WriteUsed, Mark
<1>2. Lonely(p) \/ mixed
  BY <1>1 DEF InDraw
<1>3. sab'.by \in {sab.by, Nobody} \/ (sab'.by = p /\ req[p].pc = "sab_arm")
  <2>1. CASE Expire(p) \/ ClearArmed(p)
    BY <2>1, DisarmedIs DEF Expire, ClearArmed
  <2>2. CASE WriteArmed(p)
    BY <2>2 DEF WriteArmed, Shaped, Armament
  <2>3. CASE WriteUsed(p)
    BY <2>3 DEF WriteUsed
  <2>4. CASE Lock(p) \/ Read(p) \/ PayStroke(p) \/ Mark(p)
    BY <2>4 DEF Lock, Read, PayStroke, Mark
  <2> QED
    BY <2>1, <2>2, <2>3, <2>4 DEF SabStep
<1>4. ~mixed /\ sab'.by # Nobody => game'.phase = "DRAW" \/ game'.reason = "GM_END"
  BY <1>1, <1>3 DEF InDraw
<1>5. ASSUME NEW pc, Moved(p, {pc}), pc = "sab_arm" => game.phase = "DRAW"
      PROVE  InDraw'
  <2>1. req'[p].pc = pc
    BY <1>5 DEF Moved
  <2> QED
    BY <1>1, <1>2, <1>4, <1>5, <2>1, InDrawKept
<1>6. ASSUME SabReturn(p) PROVE InDraw'
  BY <1>5, <1>6, LockedReturns
<1>7. ASSUME NEW pc, SabGoto(p, pc), pc = "sab_arm" => game.phase = "DRAW"
      PROVE  InDraw'
  BY <1>5, <1>7, LockedGoes
<1>8. CASE Lock(p)
  <2>1. CASE ask[p].kind \in {"cancel", "leave"} \/ room.state = "IN_GAME"
    <3> DEFINE r == [req[p] EXCEPT !.pc = "sab_read", !.round = room.round_no]
    <3>1. "pc" \in DOMAIN r /\ r.pc = "sab_read"
      BY DEF Shaped
    <3>2. req' = [req EXCEPT ![p] = r] /\ age' = [age EXCEPT ![p] = 0]
      BY <1>8, <2>1 DEF Lock, Shaped
    <3>3. 0 \in 0..MaxDelay
      BY ConfigAssumption
    <3> HIDE DEF r
    <3>4. Moved(p, {"sab_read"})
      BY <3>1, <3>2, <3>3, Replaced DEF Moved, Shaped
    <3> QED
      BY <1>5, <3>4
  <2>2. CASE ~(ask[p].kind \in {"cancel", "leave"} \/ room.state = "IN_GAME")
    <3>1. Return(p)
      BY <1>8, <2>2 DEF Lock, Return
    <3> QED
      BY <1>5, <3>1, Returns
  <2> QED
    BY <2>1, <2>2
<1>9. CASE Read(p)
  <2>1. ASSUME NEW t \in Team, ArmRead(p, t) \/ UseRead(p, t), game.phase = "DRAW"
        PROVE  InDraw'
    <3>1. CASE Goto(p, "sab_stroke")
      BY <1>5, <3>1, Goes
    <3> QED
      BY <1>6, <1>7, <2>1, <3>1 DEF ArmRead, UseRead
  <2> QED
    BY <1>6, <1>7, <1>9, <2>1 DEF Read, WindowRead
<1>10. CASE Expire(p) \/ WriteArmed(p) \/ ClearArmed(p)
  BY <1>6, <1>7, <1>10 DEF Expire, WriteArmed, ClearArmed
<1>11. CASE PayStroke(p) \/ WriteUsed(p) \/ Mark(p)
  BY <1>6, <1>7, <1>11 DEF PayStroke, WriteUsed, Mark
<1> QED
  BY <1>8, <1>9, <1>10, <1>11 DEF SabStep

LEMMA InDrawStep == Shaped /\ SabTyped /\ InDraw /\ [SabNext]_svars => InDraw'
<1> SUFFICES ASSUME Shaped, SabTyped, InDraw, [SabNext]_svars PROVE InDraw'
  OBVIOUS
<1>1. CASE Clock
  <2>1. /\ game'.phase = game.phase /\ game'.reason = game.reason
        /\ sab'.by = sab.by /\ mixed' = mixed /\ req' = req
    BY <1>1 DEF Clock, ClockTick, SabTyped, Stored, Hash, Shaped, Armament
  <2> QED
    BY <2>1 DEF InDraw, Lonely
<1>2. CASE UNCHANGED svars
  BY <1>2 DEF svars, vars, InDraw, Lonely
<1> QED
  BY <1>1, <1>2, BeginInDraw, OtherInDraw, SabInDraw DEF SabNext, Handling

\* "Phase must be DRAW": a sabotage stands armed in another phase only after
\* requests have overlapped, or when the GameMaster has ended the game.
THEOREM ArmedInDraw == SabSpec => []ArmedOnlyInDraw
<1>1. SabInit => InDraw
  BY DEF SabInit, Init, InDraw, Lonely, Idle
<1>2. InDraw => ArmedOnlyInDraw
  BY DEF InDraw, ArmedOnlyInDraw
<1> QED
  BY <1>1, <1>2, InDrawStep, AlwaysSabTyped, PTL DEF SabSpec
=============================================================================
