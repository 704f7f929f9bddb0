------------------------------ MODULE Sabotage ------------------------------
(***************************************************************************)
(* Sabotage in a VS game: a drawer arms a sabotage, and within a few       *)
(* seconds spends it, and a stroke of its team, on one line or circle on   *)
(* the canvas of the other team, once in a game.                           *)
(*                                                                         *)
(* The module runs on top of VSGame.  The four handlers of                 *)
(* handlers_sabotage hold the room's lock in _ROOM_SABOTAGE_LOCKS from     *)
(* their first command to their last, auto_advance_vs_phase included; the  *)
(* ticks, strokes and guesses of VSGame do not take that lock, and the     *)
(* phases they enter disarm whatever is armed.                             *)
(***************************************************************************)
EXTENDS VSGame

CONSTANT ArmSec   \* SABOTAGE_ARM_DURATION_SEC

ASSUME ArmAssumption == ArmSec \in Nat

VARIABLES
  sab,     \* game hash: sabotage_armed_by, seconds to sabotage_armed_until,
           \* sabotage_used
  slock,   \* holder of the room's lock in _ROOM_SABOTAGE_LOCKS
  ask,     \* ask[p]: the sabotage request of p and the sabotage_used it read
  paid,    \* history: strokes each team paid for a sabotage
  marks,   \* history: sabotage operations on the canvas of each team
  mixed    \* history: two requests have been under way at one time

svars == <<vars, sab, slock, ask, paid, marks, mixed>>

Unused == [t \in Team |-> FALSE]
Quiet == [kind |-> "none", used |-> Unused]
Other(t) == CHOOSE u \in Team : u # t

\* The fields of an armed sabotage are written together and cleared together.
Disarmed == [sab EXCEPT !.by = Nobody, !.left = 0]
\* The handler of p finds a sabotage armed whose time is not up.
Active(p) == sab.by # Nobody /\ sab.left + age[p] > 0

\* Leaving "async with lock": whoever held the lock and is done lets it go,
\* and the request is forgotten.
Leaves(p) ==
  /\ slock' = IF slock = p /\ req'[p].pc = "idle" THEN Nobody ELSE slock
  /\ ask' = IF req'[p].pc = "idle" THEN [ask EXCEPT ![p] = Quiet] ELSE ask

(***************************************************************************)
(* The handlers of VSGame, run among those of the sabotage or by them.     *)
(***************************************************************************)
Under == {p \in Player : req[p].pc # "idle"}
BeginOther(p) ==
  /\ BeginTick(p) \/ BeginDraw(p) \/ BeginGuess(p) \/ (p = GM /\ BeginGMEnd)
  /\ mixed' = (mixed \/ Under # {})
  /\ UNCHANGED <<sab, slock, ask, paid, marks>>

\* Mutant: the phases entered leave the armed sabotage alone.
PhaseKeepsArmed(p) ==
  /\ Step(p) \/ (p = GM /\ GMStep)
  /\ Leaves(p)
  /\ UNCHANGED <<sab, paid, marks, mixed>>

\* A phase that is entered disarms; the GameMaster's end_game does not.
Disarming == {"transition", "enter_guess", "enter_draw", "end_game"}
OtherStep(p) ==
  /\ Step(p) \/ (p = GM /\ GMStep)
  /\ sab' = IF req[p].pc \in Disarming THEN Disarmed ELSE sab
  /\ Leaves(p)
  /\ UNCHANGED <<paid, marks, mixed>>

Clock ==
  /\ ClockTick
  /\ sab' = [sab EXCEPT !.left = IF @ > -MaxDelay THEN @ - 1 ELSE @]
  /\ UNCHANGED <<slock, ask, paid, marks, mixed>>

(***************************************************************************)
(* The sabotage requests: arm, use, cancel, and the clean-up when the      *)
(* player leaves.                                                          *)
(***************************************************************************)
Ask(p, kind) ==
  /\ p \in Online /\ req[p].pc = "idle"
  /\ Cardinality(Under) < MaxInFlight
  /\ req' = [req EXCEPT ![p] = [Idle EXCEPT !.pc = "sab_lock"]]
  /\ ask' = [ask EXCEPT ![p].kind = kind]
  /\ mixed' = (mixed \/ Under # {})
  /\ UNCHANGED <<room, game, budget, points, lock, age, hits, used, top,
                 sab, slock, paid, marks>>

Arm(p) == Ask(p, "arm")
Use(p) == Ask(p, "use")
Cancel(p) == Ask(p, "cancel")
Leave(p) == Ask(p, "leave")

\* Mutant: the lock is not waited for.
LockNotAwaited(p) ==
  /\ req[p].pc = "sab_lock"
  /\ age' = [age EXCEPT ![p] = 0]
  /\ IF ask[p].kind \in {"cancel", "leave"} \/ room.state = "IN_GAME"
     THEN /\ req' = [req EXCEPT ![p].pc = "sab_read", ![p].round = room.round_no]
          /\ slock' = p
          /\ UNCHANGED ask
     ELSE /\ req' = [req EXCEPT ![p] = Idle]                   \* BAD_STATE
          /\ ask' = [ask EXCEPT ![p] = Quiet]
          /\ UNCHANGED slock
  /\ UNCHANGED <<room, game, budget, points, lock, hits, used, top,
                 sab, paid, marks, mixed>>

\* With the lock it takes its time stamp and reads the header.
Lock(p) ==
  /\ req[p].pc = "sab_lock" /\ slock = Nobody
  /\ age' = [age EXCEPT ![p] = 0]
  /\ IF ask[p].kind \in {"cancel", "leave"} \/ room.state = "IN_GAME"
     THEN /\ req' = [req EXCEPT ![p].pc = "sab_read", ![p].round = room.round_no]
          /\ slock' = p
          /\ UNCHANGED ask
     ELSE /\ req' = [req EXCEPT ![p] = Idle]                   \* BAD_STATE
          /\ ask' = [ask EXCEPT ![p] = Quiet]
          /\ UNCHANGED slock
  /\ UNCHANGED <<room, game, budget, points, lock, hits, used, top,
                 sab, paid, marks, mixed>>

\* The request of p goes on at pc with the lock, or is done and lets it go.
SabGoto(p, pc) == Goto(p, pc) /\ UNCHANGED <<slock, ask>>
SabReturn(p) == Return(p) /\ slock' = Nobody /\ ask' = [ask EXCEPT ![p] = Quiet]

\* What arm does with the game it read: p draws for team t in its window.
ArmRead(p, t) ==
  IF sab.used[t] \/ Active(p) THEN SabReturn(p)  \* SABOTAGE_USED, ARMED, BUSY
                              ELSE SabGoto(p, "sab_arm")

\* What use does: a sabotage that is not p's own, or a bad operation, is refused.
UseRead(p, t) ==
  \/ /\ Active(p) /\ sab.by = p /\ ~sab.used[t]
     /\ Goto(p, "sab_stroke") /\ UNCHANGED slock
     /\ ask' = [ask EXCEPT ![p].used = sab.used]
  \/ SabReturn(p)

\* Mutant: the role is not asked for.
AnybodyArms(p) ==
  \/ game.phase # "DRAW" /\ SabReturn(p)
  \/ game.phase = "DRAW" /\ Due(p) /\ SabGoto(p, "advance")
  \/ /\ game.phase = "DRAW" /\ ~Due(p)
     /\ \E t \in Team : \/ ask[p].kind = "arm" /\ ArmRead(p, t)
                        \/ ask[p].kind = "use" /\ UseRead(p, t)

\* arm and use need the DRAW window; they advance a window that is over.
WindowRead(p) ==
  \/ game.phase # "DRAW" /\ SabReturn(p)                       \* BAD_PHASE
  \/ game.phase = "DRAW" /\ Due(p) /\ SabGoto(p, "advance")    \* DRAW_EXPIRED
  \/ /\ game.phase = "DRAW" /\ ~Due(p)
     /\ \/ (\A t \in Team : p \notin Drawers[t]) /\ SabReturn(p)  \* NOT_DRAWER
        \/ \E t \in Team : /\ p \in Drawers[t]
                           /\ \/ ask[p].kind = "arm" /\ ArmRead(p, t)
                              \/ ask[p].kind = "use" /\ UseRead(p, t)

\* It reads the game.  A sabotage whose time is up is cleared before the
\* handler reads the game again; leaving does not look for one.
Read(p) ==
  /\ req[p].pc = "sab_read"
  /\ \/ /\ ask[p].kind # "leave" /\ sab.by # Nobody /\ ~Active(p)
        /\ SabGoto(p, "sab_expire")
     \/ /\ ask[p].kind \in {"arm", "use"} /\ (sab.by = Nobody \/ Active(p))
        /\ WindowRead(p)
     \/ /\ ask[p].kind \in {"cancel", "leave"}
        /\ ask[p].kind = "leave" \/ sab.by = Nobody \/ Active(p)
        /\ IF Active(p) /\ sab.by = p THEN SabGoto(p, "sab_clear")
                                      ELSE SabReturn(p)   \* NOT_ARMED_BY_YOU
  /\ UNCHANGED <<room, game, budget, points, lock, hits, used, top,
                 sab, paid, marks, mixed>>

Expire(p) ==
  /\ req[p].pc = "sab_expire"
  /\ sab' = Disarmed
  /\ SabGoto(p, "sab_read")
  /\ UNCHANGED <<room, game, budget, points, lock, hits, used, top,
                 paid, marks, mixed>>

WriteArmed(p) ==
  /\ req[p].pc = "sab_arm"
  /\ sab' = [sab EXCEPT !.by = p, !.left = ArmSec - age[p]]
  /\ SabReturn(p)
  /\ UNCHANGED <<room, game, budget, points, lock, hits, used, top,
                 paid, marks, mixed>>

ClearArmed(p) ==
  /\ req[p].pc = "sab_clear"
  /\ sab' = Disarmed
  /\ SabReturn(p)
  /\ UNCHANGED <<room, game, budget, points, lock, hits, used, top,
                 paid, marks, mixed>>

\* use: the Lua script takes the stroke, ...
PayStroke(p) ==
  /\ req[p].pc = "sab_stroke"
  /\ \E t \in Team :
       /\ p \in Drawers[t]
       /\ \/ /\ budget[t] >= 1
             /\ budget' = [budget EXCEPT ![t] = @ - 1]
             /\ used' = [used EXCEPT ![t] = IF @ > StrokeLimit THEN @ ELSE @ + 1]
             /\ paid' = [paid EXCEPT ![t] = @ + 1]
             /\ SabGoto(p, "sab_use")
          \/ /\ budget[t] < 1                              \* INSUFFICIENT_BUDGET
             /\ SabReturn(p)
             /\ UNCHANGED <<budget, used, paid>>
  /\ UNCHANGED <<room, game, points, lock, hits, top, sab, marks, mixed>>

\* ... sabotage_used is written back as it was read, with the team's own
\* entry set, and the sabotage disarmed, ...
WriteUsed(p) ==
  /\ req[p].pc = "sab_use"
  /\ \E t \in Team :
       /\ p \in Drawers[t]
       /\ sab' = [by |-> Nobody, left |-> 0, used |-> [ask[p].used EXCEPT ![t] = TRUE]]
  /\ SabGoto(p, "sab_mark")
  /\ UNCHANGED <<room, game, budget, points, lock, hits, used, top,
                 paid, marks, mixed>>

\* ... and the operation is put on the other canvas; then the phase is advanced.
Mark(p) ==
  /\ req[p].pc = "sab_mark"
  /\ \E t \in Team : /\ p \in Drawers[t]
                     /\ marks' = [marks EXCEPT ![Other(t)] = @ + 1]
  /\ SabGoto(p, "advance")
  /\ UNCHANGED <<room, game, budget, points, lock, hits, used, top,
                 sab, paid, mixed>>

-----------------------------------------------------------------------------
SabInit ==
  /\ Init
  /\ sab = [by |-> Nobody, left |-> 0, used |-> Unused]
  /\ slock = Nobody
  /\ ask = [p \in Player |-> Quiet]
  /\ paid = [t \in Team |-> 0]
  /\ marks = [t \in Team |-> 0]
  /\ mixed = FALSE

Asking(p) == Arm(p) \/ Use(p) \/ Cancel(p) \/ Leave(p)
SabStep(p) ==
  \/ Lock(p) \/ Read(p) \/ Expire(p) \/ WriteArmed(p) \/ ClearArmed(p)
  \/ PayStroke(p) \/ WriteUsed(p) \/ Mark(p)
Handling(p) == SabStep(p) \/ OtherStep(p)

SabNext ==
  \/ \E p \in Player : BeginOther(p) \/ Asking(p) \/ Handling(p)
  \/ Clock

SabSpec == SabInit /\ [][SabNext]_svars

-----------------------------------------------------------------------------
SabPc == {"sab_lock", "sab_read", "sab_expire", "sab_arm", "sab_clear",
          "sab_stroke", "sab_use", "sab_mark"}
Kind == {"none", "arm", "use", "cancel", "leave"}

\* The values of the variables: only a drawer has a sabotage armed.
SabTypeOK ==
  /\ sab.by \in {Nobody} \cup UNION {Drawers[t] : t \in Team}
  /\ sab.left \in Int
  /\ sab.used \in [Team -> BOOLEAN]
  /\ slock \in Player \cup {Nobody}
  /\ ask \in [Player -> [kind : Kind, used : [Team -> BOOLEAN]]]
  /\ req \in [Player -> [pc : Pc \cup SabPc, round : 0..MaxRounds,
                         guess : Guesses, due : BOOLEAN, pend : Transition,
                         owed : SUBSET Player]]
  /\ paid \in [Team -> Nat] /\ marks \in [Team -> Nat] /\ mixed \in BOOLEAN

\* "Costs exactly 1 stroke", "once per team per game": however the requests of
\* the drawers, the ticks and the expiry of what is armed interleave, a team
\* pays for at most one sabotage in a game, each operation on the other canvas
\* is paid for, and what is armed belongs to a team that has not had its own.
OncePerGame ==
  \A t \in Team :
    /\ marks[Other(t)] <= paid[t] /\ paid[t] <= 1
    /\ sab.by \in Drawers[t] => ~sab.used[t]

\* A sabotage that is armed and whose time is not up is only disarmed by its own
\* drawer or by a phase that is entered: not by another drawer, nor by a request
\* that read the game before it was armed.
ArmedIsKept ==
  [][\A p \in Player :
       sab.by = p /\ sab.left > 0 /\ sab'.by # p
       => \/ req[p].pc \in {"sab_use", "sab_clear"}
          \/ \E q \in Player : req[q].pc \in Disarming /\ OtherStep(q)]_svars

\* "Phase must be DRAW": while requests do not overlap, a sabotage is armed only
\* in the DRAW phase.  Only end_game leaves it armed behind.
ArmedOnlyInDraw ==
  sab.by # Nobody => mixed \/ game.phase = "DRAW" \/ game.reason = "GM_END"
=============================================================================
