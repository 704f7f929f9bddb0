--------------------------- MODULE VoteNextProofs ---------------------------
(***************************************************************************)
(* What holds of the vote in every room, whatever the number of players,   *)
(* of votes and of requests in flight.                                     *)
(***************************************************************************)
EXTENDS VoteNext, FiniteSetTheorems, TLAPS

\* An action that replaces the request of p leaves the others alone.
LEMMA NewRequest ==
  ASSUME req \in [Player -> Request], NEW p \in Player, NEW r \in Request,
         req' = [req EXCEPT ![p] = r]
  PROVE  /\ req' \in [Player -> Request]
         /\ req'[p] = r
         /\ \A q \in Player : q # p => req'[q] = req[q]
  OBVIOUS

\* The request of a connection that waits for its next message is well formed.
LEMMA IdleTyped ==
  Idle \in Request /\ Idle.pc = "idle" /\ NoVotes \in [Player -> Ballot]
  BY VoteAssumption DEF Idle, Request, Pc, NoVotes, Ballot

\* Only the request of p moved, to pc.
Moved(p, pc) ==
  /\ req' \in [Player -> Request]
  /\ req'[p].pc = pc
  /\ \A q \in Player : q # p => req'[q] = req[q]

\* A handler that returns moves only its own request,
LEMMA ReturnMoved ==
  ASSUME req \in [Player -> Request], NEW p \in Player, Return(p)
  PROVE  Moved(p, "idle")
<1>1. req' = [req EXCEPT ![p] = Idle]
  BY DEF Return
<1> QED
  BY <1>1, IdleTyped, NewRequest DEF Moved

\* and so does one that goes on,
LEMMA GotoMoved ==
  ASSUME req \in [Player -> Request], NEW p \in Player, NEW pc \in Pc, Goto(p, pc)
  PROVE  Moved(p, pc)
<1> DEFINE r == [req[p] EXCEPT !.pc = pc]
<1>1. r \in Request /\ r.pc = pc
  BY VoteAssumption DEF Request
<1>2. req' = [req EXCEPT ![p] = r]
  BY DEF Goto
<1> HIDE DEF r
<1> QED
  BY <1>1, <1>2, NewRequest DEF Moved

\* What a handler that has read the active players, or the votes, remembers.
LEMMA EligibleTyped ==
  ASSUME NEW r \in Request, NEW pc \in Pc, NEW eligible \in SUBSET Player
  PROVE  [r EXCEPT !.pc = pc, !.eligible = eligible] \in Request
  BY DEF Request

\* The same for the votes a handler has read.
LEMMA VotesTyped ==
  ASSUME NEW r \in Request, NEW pc \in Pc, NEW votes \in [Player -> Ballot]
  PROVE  [r EXCEPT !.pc = pc, !.votes = votes] \in Request
  BY DEF Request

\* one that has read who is active,
LEMMA EligibleMoved ==
  ASSUME req \in [Player -> Request], NEW p \in Player, NEW pc \in Pc,
         NEW eligible \in SUBSET Player,
         req' = [req EXCEPT ![p].pc = pc, ![p].eligible = eligible]
  PROVE  Moved(p, pc)
<1> DEFINE r == [req[p] EXCEPT !.pc = pc, !.eligible = eligible]
<1>1. r \in Request
  BY EligibleTyped
<1>2. r.pc = pc
  BY DEF Request
<1>3. req' = [req EXCEPT ![p] = r]
  OBVIOUS
<1> HIDE DEF r
<1> QED
  BY <1>1, <1>2, <1>3, NewRequest DEF Moved

\* one that has read the votes,
LEMMA VotesMoved ==
  ASSUME req \in [Player -> Request], NEW p \in Player, NEW pc \in Pc,
         NEW votes \in [Player -> Ballot],
         req' = [req EXCEPT ![p].pc = pc, ![p].votes = votes]
  PROVE  /\ Moved(p, pc)
         /\ req'[p].votes = votes /\ req'[p].eligible = req[p].eligible
<1> DEFINE r == [req[p] EXCEPT !.pc = pc, !.votes = votes]
<1>1. r \in Request
  BY VotesTyped
<1>2. r.pc = pc /\ r.votes = votes /\ r.eligible = req[p].eligible
  BY DEF Request
<1>3. req' = [req EXCEPT ![p] = r]
  OBVIOUS
<1> HIDE DEF r
<1> QED
  BY <1>1, <1>2, <1>3, NewRequest DEF Moved

\* A new request of p.
LEMMA FreshMoved ==
  ASSUME req \in [Player -> Request], NEW p \in Player, NEW pc \in Pc,
         NEW vote \in Ballot,
         req' = [req EXCEPT ![p] = [Idle EXCEPT !.pc = pc, !.vote = vote]]
  PROVE  Moved(p, pc)
<1> DEFINE r == [Idle EXCEPT !.pc = pc, !.vote = vote]
<1>1. r \in Request /\ r.pc = pc
  BY IdleTyped, VoteAssumption DEF Request
<1> HIDE DEF r
<1> QED
  BY <1>1, NewRequest DEF Moved, r

\* and one that begins a tick or an end_game.
LEMMA BegunMoved ==
  ASSUME req \in [Player -> Request], NEW p \in Player, NEW pc \in Pc,
         req' = [req EXCEPT ![p] = [Idle EXCEPT !.pc = pc]]
  PROVE  Moved(p, pc)
<1> DEFINE r == [Idle EXCEPT !.pc = pc]
<1>1. r \in Request /\ r.pc = pc
  BY IdleTyped, VoteAssumption DEF Request
<1> HIDE DEF r
<1> QED
  BY <1>1, NewRequest DEF Moved, r

\* What p writes back: the votes of the others as it has read them.
LEMMA VoteVotesMoved ==
  ASSUME TypeOK, NEW p \in Player, VoteVotes(p)
  PROVE  /\ Moved(p, "vote_record")
         /\ req'[p].eligible = req[p].eligible
         /\ \A q \in req[p].eligible \ {p} : req'[p].votes[q] = game.votes[q]
<1> DEFINE v == [q \in Player |-> IF q = p THEN req[p].vote
                                  ELSE IF q \in req[p].eligible THEN game.votes[q]
                                  ELSE "none"]
<1>1. req[p].eligible \subseteq Player
  BY DEF TypeOK, Request
<1>2. v \in [Player -> Ballot]
  BY DEF TypeOK, Request, Game, Ballot
<1>3. \A q \in req[p].eligible \ {p} : v[q] = game.votes[q]
  BY <1>1
<1>4. req' = [req EXCEPT ![p].pc = "vote_record", ![p].votes = v]
  BY DEF VoteVotes
<1>5. "vote_record" \in Pc /\ req \in [Player -> Request]
  BY DEF Pc, TypeOK
<1> HIDE DEF v
<1>6. /\ Moved(p, "vote_record")
      /\ req'[p].votes = v /\ req'[p].eligible = req[p].eligible
  BY <1>2, <1>4, <1>5, VotesMoved
<1> QED
  BY <1>3, <1>6

\* Where the commands of vote_next take a request.
LEMMA VoteMoves ==
  ASSUME TypeOK, NEW p \in Player
  PROVE  /\ BeginVote(p) => Moved(p, "vote_phase")
         /\ VotePhase(p) => Moved(p, "vote_active") \/ Moved(p, "idle")
         /\ VoteActive(p) => Moved(p, "vote_votes") \/ Moved(p, "idle")
         /\ VoteVotes(p) => Moved(p, "vote_record")
         /\ RecordVote(p) => Moved(p, "vote_resolve")
         /\ ResolveVote(p) => Moved(p, "idle")
<1> USE DEF TypeOK
<1>1. BeginVote(p) => Moved(p, "vote_phase")
  BY FreshMoved DEF BeginVote, Pc, Ballot
<1>2. VotePhase(p) => Moved(p, "vote_active") \/ Moved(p, "idle")
  BY GotoMoved, ReturnMoved DEF VotePhase, ReturnFromVote, Pc
<1>3. VoteActive(p) => Moved(p, "vote_votes") \/ Moved(p, "idle")
  <2>1. "vote_votes" \in Pc
    BY DEF Pc
  <2> QED
    BY <2>1, EligibleMoved, ReturnMoved DEF VoteActive, ReturnFromVote
<1>4. VoteVotes(p) => Moved(p, "vote_record")
  BY VoteVotesMoved
<1>5. RecordVote(p) => Moved(p, "vote_resolve")
  BY GotoMoved DEF RecordVote, Pc
<1>6. ResolveVote(p) => Moved(p, "idle")
  BY ReturnMoved DEF ResolveVote, ReturnFromVote
<1> QED
  BY <1>1, <1>2, <1>3, <1>4, <1>5, <1>6

\* Where those of a tick take it.
LEMMA TickMoves ==
  ASSUME TypeOK, NEW p \in Player
  PROVE  /\ BeginTick(p) \/ Rejoin(p) => Moved(p, "window")
         /\ Window(p) => Moved(p, "window_active") \/ Moved(p, "reset")
         /\ WindowActive(p) => Moved(p, "window_resolve")
         /\ WindowResolve(p) => Moved(p, "reset_header")
         /\ ResetHeader(p) => Moved(p, "reset") \/ Moved(p, "idle")
         /\ Reset(p) => Moved(p, "reset_game") \/ Moved(p, "idle")
         /\ ResetGame(p) => Moved(p, "reset_room")
         /\ ResetRoom(p) => Moved(p, "idle")
<1> USE DEF TypeOK
<1>1. BeginTick(p) \/ Rejoin(p) => Moved(p, "window")
  BY BegunMoved DEF BeginTick, Rejoin, Pc
<1>2. Window(p) => Moved(p, "window_active") \/ Moved(p, "reset")
  <2>1. "window_active" \in Pc /\ "reset" \in Pc /\ game.votes \in [Player -> Ballot]
    BY DEF Pc, Game
  <2> QED
    BY <2>1, VotesMoved, GotoMoved DEF Window
<1>3. WindowActive(p) => Moved(p, "window_resolve")
  <2>1. "window_resolve" \in Pc
    BY DEF Pc
  <2> QED
    BY <2>1, EligibleMoved DEF WindowActive
<1>4. WindowResolve(p) => Moved(p, "reset_header")
  BY GotoMoved DEF WindowResolve, Pc
<1>5. ResetHeader(p) => Moved(p, "reset") \/ Moved(p, "idle")
  BY GotoMoved, ReturnMoved DEF ResetHeader, Pc
<1>6. Reset(p) => Moved(p, "reset_game") \/ Moved(p, "idle")
  BY GotoMoved, ReturnMoved DEF Reset, Pc
<1>7. ResetGame(p) => Moved(p, "reset_room")
  BY GotoMoved DEF ResetGame, Pc
<1>8. ResetRoom(p) => Moved(p, "idle")
  BY ReturnMoved DEF ResetRoom
<1> QED
  BY <1>1, <1>2, <1>3, <1>4, <1>5, <1>6, <1>7, <1>8

\* Where those of end_game take the GameMaster's.
LEMMA EndMoves ==
  ASSUME TypeOK
  PROVE  /\ GM \in Player
         /\ BeginEnd => Moved(GM, "end_game")
         /\ EndGame => Moved(GM, "end_room")
         /\ EndRoom => Moved(GM, "idle")
<1> USE VoteAssumption DEF TypeOK
<1>1. BeginEnd => Moved(GM, "end_game")
  BY BegunMoved DEF BeginEnd, Pc
<1>2. EndGame => Moved(GM, "end_room")
  BY GotoMoved DEF EndGame, Pc
<1>3. EndRoom => Moved(GM, "idle")
  BY ReturnMoved DEF EndRoom
<1> QED
  BY <1>1, <1>2, <1>3

\* The clock moves no request.
LEMMA ClockMoves ==
  ASSUME TypeOK, ClockTick, NEW p \in Player
  PROVE  /\ req'[p].pc = req[p].pc
         /\ req'[p].votes = req[p].votes
         /\ req'[p].eligible = req[p].eligible
<1>1. req[p] \in Request
  BY DEF TypeOK
<1>2. req'[p] = IF req[p].pc = "idle" THEN req[p] ELSE [req[p] EXCEPT !.age = @ + 1]
  BY DEF ClockTick
<1> QED
  BY <1>1, <1>2 DEF Request

-----------------------------------------------------------------------------
(***************************************************************************)
(* Type correctness                                                        *)
(***************************************************************************)
LEMMA DeadlinesTyped ==
  /\ \A sec \in Nat : \A d \in Deadline(sec) : OneSecondLess(d) \in Deadline(sec)
  /\ \A age \in 0..MaxDelay : ResetSec - age \in Deadline(ResetSec)
  /\ \A age \in 0..MaxDelay : VoteSec - age \in Deadline(VoteSec)
  /\ Unset \in Deadline(ResetSec) /\ Unset \in Deadline(VoteSec)
  /\ VoteSec \in Deadline(VoteSec) /\ -MaxDelay \in Deadline(ResetSec)
<1> USE VoteAssumption DEF Deadline
<1>1. ASSUME NEW sec \in Nat, NEW d \in Deadline(sec)
      PROVE  OneSecondLess(d) \in Deadline(sec)
  <2>1. CASE d = Unset
    BY <2>1 DEF OneSecondLess
  <2>2. CASE d \in -MaxDelay..sec
    BY <2>2 DEF OneSecondLess
  <2> QED
    BY <2>1, <2>2
<1>2. ASSUME NEW age \in 0..MaxDelay
      PROVE  ResetSec - age \in Deadline(ResetSec) /\ VoteSec - age \in Deadline(VoteSec)
  OBVIOUS
<1> QED
  BY <1>1, <1>2

\* What the writes of the game hash put in it.
LEMMA GameTyped ==
  ASSUME game \in Game
  PROVE  /\ \A votes \in [Player -> Ballot] : [game EXCEPT !.votes = votes] \in Game
         /\ \A d \in Deadline(ResetSec) :
              [game EXCEPT !.reset_left = d, !.vote_left = Unset, !.outcome = "YES"]
                \in Game
         /\ [game EXCEPT !.phase = "FINAL", !.vote_left = Unset, !.outcome = "NO"]
              \in Game
<1> USE DeadlinesTyped DEF Game
<1>1. ASSUME NEW votes \in [Player -> Ballot]
      PROVE  [game EXCEPT !.votes = votes] \in Game
  OBVIOUS
<1>2. ASSUME NEW d \in Deadline(ResetSec)
      PROVE  [game EXCEPT !.reset_left = d, !.vote_left = Unset, !.outcome = "YES"]
               \in Game
  OBVIOUS
<1>3. [game EXCEPT !.phase = "FINAL", !.vote_left = Unset, !.outcome = "NO"] \in Game
  OBVIOUS
<1> QED
  BY <1>1, <1>2, <1>3

\* Both outcomes of a vote leave the game hash well formed.
LEMMA OutcomesTyped ==
  ASSUME TypeOK, NEW p \in Player, ResolveYes(p) \/ ResolveNo
  PROVE  game' \in Game /\ majority' \in BOOLEAN /\ gm' \in BOOLEAN
<1> USE DEF TypeOK
<1>1. req[p].age \in 0..MaxDelay
  BY DEF Request
<1>2. ResetSec - req[p].age \in Deadline(ResetSec)
  BY <1>1, DeadlinesTyped
<1>3. CASE ResolveYes(p)
  <2>1. game' \in Game
    BY <1>2, <1>3, GameTyped DEF ResolveYes
  <2>2. majority' \in BOOLEAN /\ gm' \in BOOLEAN
    BY <1>3 DEF ResolveYes
  <2> QED
    BY <2>1, <2>2
<1>4. CASE ResolveNo
  BY <1>4, GameTyped DEF ResolveNo
<1> QED
  BY <1>3, <1>4

\* No step of vote_next leaves the types.
LEMMA VoteTyped ==
  ASSUME TypeOK, NEW p \in Player,
         \/ BeginVote(p) \/ VotePhase(p) \/ VoteActive(p) \/ VoteVotes(p)
         \/ RecordVote(p) \/ ResolveVote(p)
  PROVE  TypeOK'
<1> USE DEF TypeOK
<1>1. req' \in [Player -> Request]
  BY VoteMoves DEF Moved
<1>2. lock' \in Player \cup {Nobody}
  BY DEF BeginVote, VotePhase, VoteActive, VoteVotes, RecordVote, ResolveVote,
         ReturnFromVote
<1>3. CASE BeginVote(p)
  <2>1. sent' \in [Player -> Nat]
    BY <1>3 DEF BeginVote
  <2> QED
    BY <1>1, <1>2, <1>3, <2>1 DEF BeginVote
<1>4. CASE VotePhase(p) \/ VoteActive(p) \/ VoteVotes(p)
  BY <1>1, <1>2, <1>4 DEF VotePhase, VoteActive, VoteVotes
<1>5. CASE RecordVote(p)
  <2>1. req[p].votes \in [Player -> Ballot]
    BY DEF Request
  <2>2. game' \in Game
    BY <1>5, <2>1, GameTyped DEF RecordVote
  <2> QED
    BY <1>1, <1>2, <1>5, <2>2 DEF RecordVote
<1>6. CASE ResolveVote(p)
  <2>1. game' \in Game /\ majority' \in BOOLEAN /\ gm' \in BOOLEAN
    BY <1>6, OutcomesTyped DEF ResolveVote
  <2> QED
    BY <1>1, <1>2, <1>6, <2>1 DEF ResolveVote
<1> QED
  BY <1>3, <1>4, <1>5, <1>6

\* No step of a tick leaves the types.
LEMMA TickTyped ==
  ASSUME TypeOK, NEW p \in Player,
         \/ BeginTick(p) \/ Rejoin(p) \/ Window(p) \/ WindowActive(p)
         \/ WindowResolve(p) \/ ResetHeader(p) \/ Reset(p) \/ ResetGame(p)
         \/ ResetRoom(p)
  PROVE  TypeOK'
<1> USE DEF TypeOK
<1>1. req' \in [Player -> Request]
  BY TickMoves DEF Moved
<1>2. CASE BeginTick(p) \/ Rejoin(p) \/ Window(p) \/ WindowActive(p)
  BY <1>1, <1>2 DEF BeginTick, Rejoin, Window, WindowActive
<1>3. CASE WindowResolve(p)
  <2>1. game' \in Game /\ majority' \in BOOLEAN /\ gm' \in BOOLEAN
    BY <1>3, OutcomesTyped DEF WindowResolve
  <2> QED
    BY <1>1, <1>3, <2>1 DEF WindowResolve
<1>4. CASE ResetHeader(p) \/ Reset(p) \/ ResetRoom(p)
  BY <1>1, <1>4 DEF ResetHeader, Reset, ResetRoom
<1>5. CASE ResetGame(p)
  <2>1. game' \in Game
    BY <1>5, IdleTyped, DeadlinesTyped DEF ResetGame, Game
  <2> QED
    BY <1>1, <1>5, <2>1 DEF ResetGame
<1> QED
  BY <1>2, <1>3, <1>4, <1>5

\* No step of end_game leaves the types.
LEMMA EndTyped ==
  ASSUME TypeOK, BeginEnd \/ EndGame \/ EndRoom
  PROVE  TypeOK'
<1> USE DEF TypeOK
<1>1. req' \in [Player -> Request]
  BY EndMoves DEF Moved
<1>2. CASE BeginEnd
  <2>1. ends' \in 0..MaxEnds
    BY <1>2, VoteAssumption DEF BeginEnd
  <2> QED
    BY <1>1, <1>2, <2>1 DEF BeginEnd
<1>3. CASE EndGame
  <2> DEFINE d == VoteSec - req[GM].age
  <2>1. d \in Deadline(VoteSec)
    BY VoteAssumption, DeadlinesTyped DEF Request
  <2>2. game' = [phase |-> "VOTING", votes |-> NoVotes, outcome |-> "",
                 vote_left |-> d, reset_left |-> Unset]
    BY <1>3 DEF EndGame
  <2> HIDE DEF d
  <2>3. game' \in Game
    BY <2>1, <2>2, IdleTyped, DeadlinesTyped DEF Game
  <2>4. sent' \in [Player -> Nat] /\ majority' \in BOOLEAN
    BY <1>3 DEF EndGame
  <2> QED
    BY <1>1, <1>3, <2>3, <2>4 DEF EndGame
<1>4. CASE EndRoom
  BY <1>1, <1>4 DEF EndRoom
<1> QED
  BY <1>2, <1>3, <1>4

\* The game hash as a game without a past leaves it.
LEMMA FirstGameTyped ==
  [phase |-> "VOTING", votes |-> NoVotes, vote_left |-> VoteSec,
   reset_left |-> Unset, outcome |-> ""] \in Game
  BY IdleTyped, DeadlinesTyped DEF Game

\* No step of the room leaves the types.
LEMMA TypeStep == TypeOK /\ [Next]_vars => TypeOK'
<1> SUFFICES ASSUME TypeOK, [Next]_vars PROVE TypeOK'
  OBVIOUS
<1>1. ASSUME NEW p \in Player, BeginVote(p) \/ BeginTick(p) \/ Step(p) PROVE TypeOK'
  BY <1>1, VoteTyped, TickTyped, EndTyped DEF Step
<1>2. ASSUME NEW p \in Player, Leave(p) \/ Rejoin(p) PROVE TypeOK'
  <2>1. CASE Leave(p)
    BY <2>1 DEF Leave, TypeOK
  <2> QED
    BY <1>2, <2>1, TickTyped
<1>3. CASE PlayNextGame
  <2>1. game' \in Game
    <3> DEFINE d == IF game.reset_left = Unset THEN Unset ELSE -MaxDelay
    <3>1. d \in Deadline(ResetSec)
      BY DeadlinesTyped
    <3>2. [game EXCEPT !.phase = "VOTING", !.votes = NoVotes, !.vote_left = VoteSec,
                       !.reset_left = d] \in Game
      <4> HIDE DEF d
      <4> QED
        BY <3>1, IdleTyped, DeadlinesTyped DEF TypeOK, Game
    <3> QED
      BY <1>3, <3>2, FirstGameTyped DEF PlayNextGame
  <2>2. sent' = [p \in Player |-> 0] /\ ends' = 0
    BY <1>3 DEF PlayNextGame
  <2>3. sent' \in [Player -> Nat] /\ ends' \in 0..MaxEnds
    BY <2>2, VoteAssumption
  <2>4. state' \in {"GAME_END", "WAITING"} /\ gm' \in BOOLEAN /\ majority' \in BOOLEAN
    BY <1>3 DEF PlayNextGame
  <2> QED
    BY <1>3, <2>1, <2>2, <2>3, <2>4 DEF PlayNextGame, TypeOK
<1>4. CASE ClockTick
  <2>1. game' \in Game
    BY <1>4, DeadlinesTyped, VoteAssumption DEF ClockTick, TypeOK, Game
  <2>2. req' \in [Player -> Request]
    <3>1. ASSUME NEW p \in Player PROVE [req[p] EXCEPT !.age = @ + 1] \in Request
      BY <1>4, VoteAssumption DEF ClockTick, TypeOK, Request
    <3> QED
      BY <1>4, <3>1 DEF ClockTick, TypeOK
  <2> QED
    BY <1>4, <2>1, <2>2 DEF ClockTick, TypeOK
<1>5. CASE UNCHANGED vars
  BY <1>5 DEF vars, TypeOK
<1> QED
  BY <1>1, <1>2, <1>3, <1>4, <1>5, EndTyped DEF Next

\* A room whose first game has ended is well formed.
LEMMA InitTyped == Init => TypeOK
<1> SUFFICES ASSUME Init PROVE TypeOK
  OBVIOUS
<1>1. req \in [Player -> Request] /\ sent \in [Player -> Nat]
  BY IdleTyped DEF Init
<1>2. game \in Game
  BY FirstGameTyped DEF Init
<1>3. ends \in 0..MaxEnds
  <2>1. ends = 0
    BY DEF Init
  <2> QED
    BY <2>1, VoteAssumption
<1>4. /\ state \in {"GAME_END", "WAITING"} /\ gm \in BOOLEAN /\ majority \in BOOLEAN
      /\ active \in SUBSET Player /\ lock \in Player \cup {Nobody}
  BY DEF Init
<1> QED
  BY <1>1, <1>2, <1>3, <1>4 DEF TypeOK

\* Every variable keeps its type; in particular a room that has voted YES is
\* never further than ResetSec from its reset.
THEOREM TypeCorrect == Spec => []TypeOK
  BY InitTyped, TypeStep, PTL DEF Spec

-----------------------------------------------------------------------------
(***************************************************************************)
(* SINGLE: the lock of the room saves every vote                           *)
(***************************************************************************)
VotePc == {"vote_phase", "vote_active", "vote_votes", "vote_record", "vote_resolve"}

\* A handler in vote_next holds the lock.
Locked == \A p \in Player : req[p].pc \in VotePc => lock = p

\* What a handler is about to write back is what the others have voted.
Current ==
  \A p \in Player : req[p].pc = "vote_record" =>
    \A q \in req[p].eligible \ {p} :
      game.votes[q] # "none" => req[p].votes[q] = game.votes[q]

\* In SINGLE nobody is inside vote_next without the lock, and none gets in beside it.
LEMMA LockedStep ==
  ASSUME Mode = "SINGLE", TypeOK, Locked, [Next]_vars
  PROVE  Locked'
<1> USE VoteAssumption DEF Locked, TypeOK, VotePc
<1>1. ASSUME NEW p \in Player, BeginVote(p) PROVE Locked'
  <2>1. Moved(p, "vote_phase") /\ lock = Nobody /\ lock' = p
    BY <1>1, VoteMoves DEF BeginVote
  <2> QED
    BY <2>1 DEF Moved
<1>2. ASSUME NEW p \in Player, ReturnFromVote(p), req[p].pc \in VotePc PROVE Locked'
  <2>1. Moved(p, "idle")
    BY <1>2, ReturnMoved DEF ReturnFromVote
  <2> QED
    BY <1>2, <2>1 DEF Moved
<1>3. ASSUME NEW p \in Player, NEW pc, Moved(p, pc), lock' = lock,
             pc \in VotePc => req[p].pc \in VotePc
      PROVE  Locked'
  BY <1>3 DEF Moved
<1>4. ASSUME NEW p \in Player,
             VotePhase(p) \/ VoteActive(p) \/ VoteVotes(p) \/ RecordVote(p)
               \/ ResolveVote(p)
      PROVE  Locked'
  <2>1. req[p].pc \in VotePc
    BY <1>4 DEF VotePhase, VoteActive, VoteVotes, RecordVote, ResolveVote
  <2>2. \/ ReturnFromVote(p)
        \/ lock' = lock /\ (Goto(p, "vote_active") \/ VoteActive(p)
                              \/ VoteVotes(p) \/ RecordVote(p))
    BY <1>4 DEF VotePhase, VoteActive, VoteVotes, RecordVote, ResolveVote
  <2>3. CASE lock' = lock /\ Goto(p, "vote_active")
    BY <1>3, <2>1, <2>3, GotoMoved DEF Pc
  <2>4. CASE lock' = lock /\ (VoteActive(p) \/ VoteVotes(p) \/ RecordVote(p))
    <3>1. \E pc : Moved(p, pc)
      BY <2>4, VoteMoves
    <3> QED
      BY <1>3, <2>1, <2>4, <3>1
  <2> QED
    BY <1>2, <2>1, <2>2, <2>3, <2>4
<1>5. ASSUME NEW p \in Player,
             \/ BeginTick(p) \/ Rejoin(p) \/ Window(p) \/ WindowActive(p)
             \/ WindowResolve(p) \/ ResetHeader(p) \/ Reset(p) \/ ResetGame(p)
             \/ ResetRoom(p)
      PROVE  Locked'
  <2>1. lock' = lock
    BY <1>5 DEF BeginTick, Rejoin, Window, WindowActive, WindowResolve, ResetHeader,
                Reset, ResetGame, ResetRoom
  <2>2. \E pc : Moved(p, pc) /\ pc \notin VotePc
    BY <1>5, TickMoves
  <2> QED
    BY <1>3, <2>1, <2>2
<1>6. CASE ClockTick
  BY <1>6 DEF ClockTick, Request
<1>7. CASE (\E p \in Player : Leave(p)) \/ PlayNextGame \/ UNCHANGED vars
  BY <1>7 DEF Leave, PlayNextGame, vars
<1>8. CASE BeginEnd \/ EndGame \/ EndRoom
  <2>1. lock' = lock
    BY <1>8 DEF BeginEnd, EndGame, EndRoom
  <2>2. \E pc : Moved(GM, pc) /\ pc \notin VotePc
    BY <1>8, EndMoves
  <2> QED
    BY <1>3, <2>1, <2>2
<1> QED
  BY <1>1, <1>4, <1>5, <1>6, <1>7, <1>8 DEF Next, Step

\* While one client has the lock, nobody else changes the votes it has read.
LEMMA CurrentStep ==
  ASSUME Mode = "SINGLE", TypeOK, Locked, Current, [Next]_vars
  PROVE  Current'
<1> USE VoteAssumption DEF Current, TypeOK
<1>1. ASSUME NEW p \in Player, NEW pc, Moved(p, pc), pc # "vote_record",
             game'.votes = game.votes
      PROVE  Current'
  BY <1>1 DEF Moved
<1>2. ASSUME NEW p \in Player, VoteVotes(p) PROVE Current'
  <2>1. game' = game
    BY <1>2 DEF VoteVotes
  <2> QED
    BY <1>2, <2>1, VoteVotesMoved DEF Moved
<1>3. ASSUME NEW p \in Player, RecordVote(p) PROVE Current'
  <2>1. Moved(p, "vote_resolve") /\ req[p].pc = "vote_record"
    BY <1>3, VoteMoves DEF RecordVote
  <2>2. \A q \in Player : req'[q].pc # "vote_record"
    BY <2>1 DEF Moved, Locked, VotePc
  <2> QED
    BY <2>2
<1>4. ASSUME NEW p \in Player, ResetGame(p) \/ EndGame PROVE Current'
  <2>1. \A q \in Player : game'.votes[q] = "none"
    <3>1. game'.votes = NoVotes
      <4>1. CASE ResetGame(p)
        BY <4>1 DEF ResetGame, Game
      <4>2. CASE EndGame
        BY <4>2 DEF EndGame
      <4> QED
        BY <1>4, <4>1, <4>2
    <3> QED
      BY <3>1 DEF NoVotes
  <2>2. \A q \in Player : req'[q].pc = "vote_record" =>
           req'[q].eligible \subseteq Player
    BY <1>4, TickMoves, EndMoves DEF Moved, Request
  <2> QED
    BY <2>1, <2>2
<1>5. ASSUME NEW p \in Player,
             \/ BeginVote(p) \/ VotePhase(p) \/ VoteActive(p) \/ ResolveVote(p)
             \/ BeginTick(p) \/ Rejoin(p) \/ Window(p) \/ WindowActive(p)
             \/ WindowResolve(p) \/ ResetHeader(p) \/ Reset(p) \/ ResetRoom(p)
             \/ p = GM /\ (BeginEnd \/ EndRoom)
      PROVE  Current'
  <2>1. \E pc : Moved(p, pc) /\ pc # "vote_record"
    BY <1>5, VoteMoves, TickMoves, EndMoves
  <2>2. game'.votes = game.votes
    BY <1>5 DEF BeginVote, VotePhase, VoteActive, ResolveVote, BeginTick, Rejoin, Window,
                WindowActive, WindowResolve, ResetHeader, Reset, ResetRoom, BeginEnd,
                EndRoom, ResolveYes, ResolveNo, Game
  <2> QED
    BY <1>1, <2>1, <2>2
<1>6. CASE ClockTick
  <2>1. game'.votes = game.votes
    BY <1>6 DEF ClockTick, Game
  <2>2. \A p \in Player : /\ req'[p].pc = req[p].pc
                          /\ req'[p].votes = req[p].votes
                          /\ req'[p].eligible = req[p].eligible
    BY <1>6, ClockMoves
  <2> QED
    BY <2>1, <2>2
<1>7. CASE PlayNextGame
  BY <1>7 DEF PlayNextGame
<1>8. CASE (\E p \in Player : Leave(p)) \/ UNCHANGED vars
  BY <1>8 DEF Leave, vars
<1> QED
  BY <1>2, <1>3, <1>4, <1>5, <1>6, <1>7, <1>8, VoteAssumption DEF Next, Step

\* However many players vote at once, vote_next of SINGLE loses no vote: the
\* handlers take turns, and a reset or an end_game can only have cleared what
\* was read.
THEOREM SingleKeepsVotes ==
  ASSUME Mode = "SINGLE"
  PROVE  Spec => NoVoteLost
<1>1. Init => TypeOK /\ Locked /\ Current
  <2> SUFFICES ASSUME Init PROVE Locked /\ Current
    BY InitTyped
  <2>1. \A p \in Player : req[p].pc = "idle"
    BY DEF Init, Idle
  <2> QED
    BY <2>1 DEF Locked, Current, VotePc
<1>2. TypeOK /\ Locked /\ Current /\ [Next]_vars => (TypeOK /\ Locked /\ Current)'
  BY TypeStep, LockedStep, CurrentStep
<1>3. TypeOK /\ Current =>
        \A p \in Player : \A q \in req[p].eligible \ {p} :
          RecordVote(p) /\ game.votes[q] # "none" => game'.votes[q] = game.votes[q]
  <2> SUFFICES ASSUME TypeOK, Current, NEW p \in Player, NEW q \in req[p].eligible \ {p},
                      RecordVote(p), game.votes[q] # "none"
               PROVE  game'.votes[q] = game.votes[q]
    OBVIOUS
  <2>1. req[p].votes[q] = game.votes[q]
    BY DEF RecordVote, Current
  <2>2. game'.votes = req[p].votes
    BY DEF RecordVote, TypeOK, Game
  <2> QED
    BY <2>1, <2>2
<1>4. TypeOK /\ Current =>
        [\A p \in Player : \A q \in req[p].eligible \ {p} :
           RecordVote(p) /\ game.votes[q] # "none" => game'.votes[q] = game.votes[q]]_vars
  BY <1>3
<1> QED
  BY <1>1, <1>2, <1>4, PTL DEF Spec, NoVoteLost

-----------------------------------------------------------------------------
(***************************************************************************)
(* SINGLE: no way back to WAITING without a majority                       *)
(***************************************************************************)
\* What is left on the way to WAITING: a deadline, a handler that has found it
\* passed, or the cleared game.
Carries ==
  /\ game.reset_left # Unset => majority
  /\ game.phase = "" => majority
  /\ \A p \in Player : req[p].pc = "reset_game" => majority

\* More than half is what len // 2 + 1 asks for.
LEMMA CarriedIsMajority ==
  ASSUME NEW eligible \in SUBSET Player, NEW votes \in [Player -> Ballot],
         Carried(votes, eligible)
  PROVE  2 * Cardinality(Yes(votes, eligible)) > Cardinality(eligible)
<1>1. IsFiniteSet(eligible)
  BY VoteAssumption, FS_Subset
<1>2. IsFiniteSet(Yes(votes, eligible))
  BY <1>1, FS_Subset DEF Yes
<1>3. Cardinality(eligible) \in Nat /\ Cardinality(Yes(votes, eligible)) \in Nat
  BY <1>1, <1>2, FS_CardinalityType
<1> QED
  BY <1>3 DEF Carried

\* Every YES on its way to the reset has been carried by a majority of this vote.
LEMMA CarriesStep ==
  ASSUME Mode = "SINGLE", TypeOK, Carries, [Next]_vars
  PROVE  Carries'
<1> USE VoteAssumption DEF Carries, TypeOK
<1>1. ASSUME NEW p \in Player, NEW pc, Moved(p, pc), pc # "reset_game",
             game' = game, majority' = majority
      PROVE  Carries'
  BY <1>1 DEF Moved
<1>2. ASSUME NEW p \in Player, NEW pc, Moved(p, pc), pc # "reset_game",
             Carried(req[p].votes, req[p].eligible), ResolveYes(p)
      PROVE  Carries'
  <2>1. req[p].eligible \in SUBSET Player /\ req[p].votes \in [Player -> Ballot]
    BY DEF Request
  <2>2. majority' = TRUE
    BY <1>2, <2>1, CarriedIsMajority DEF ResolveYes
  <2> QED
    BY <2>2
<1>3. ASSUME NEW p \in Player, NEW pc, Moved(p, pc), pc # "reset_game", ResolveNo
      PROVE  Carries'
  <2>1. game'.reset_left = game.reset_left /\ game'.phase = "FINAL"
    BY <1>3 DEF ResolveNo, Game
  <2> QED
    BY <1>3, <2>1 DEF ResolveNo, Moved
<1>4. ASSUME NEW p \in Player, ResolveVote(p) \/ WindowResolve(p) PROVE Carries'
  <2>1. Moved(p, "idle") \/ Moved(p, "reset_header")
    BY <1>4, VoteMoves, TickMoves
  <2>2. \/ Carried(req[p].votes, req[p].eligible) /\ ResolveYes(p)
        \/ ResolveNo
        \/ game' = game /\ majority' = majority
    BY <1>4 DEF ResolveVote, WindowResolve
  <2> QED
    BY <1>1, <1>2, <1>3, <2>1, <2>2
<1>5. ASSUME NEW p \in Player, RecordVote(p) PROVE Carries'
  <2>1. game'.reset_left = game.reset_left /\ game'.phase = game.phase
    BY <1>5 DEF RecordVote, Game
  <2> QED
    BY <1>5, <2>1, VoteMoves DEF RecordVote, Moved
<1>6. ASSUME NEW p \in Player, Reset(p) PROVE Carries'
  <2>1. CASE Return(p)
    BY <1>1, <1>6, <2>1, ReturnMoved DEF Reset
  <2>2. CASE Goto(p, "reset_game") /\ Due(game.reset_left, req[p].age)
    BY <1>6, <2>2, GotoMoved DEF Reset, Due, Moved, Pc
  <2> QED
    BY <1>6, <2>1, <2>2 DEF Reset
<1>7. ASSUME NEW p \in Player, ResetGame(p) PROVE Carries'
  BY <1>7 DEF ResetGame
<1>8. ASSUME NEW p \in Player,
             \/ BeginVote(p) \/ VotePhase(p) \/ VoteActive(p) \/ VoteVotes(p)
             \/ BeginTick(p) \/ Rejoin(p) \/ Window(p) \/ WindowActive(p)
             \/ ResetHeader(p) \/ ResetRoom(p) \/ (p = GM /\ (BeginEnd \/ EndRoom))
      PROVE  Carries'
  <2>1. \/ Moved(p, "vote_phase") \/ Moved(p, "vote_active") \/ Moved(p, "vote_votes")
        \/ Moved(p, "vote_record") \/ Moved(p, "window") \/ Moved(p, "window_active")
        \/ Moved(p, "window_resolve") \/ Moved(p, "reset") \/ Moved(p, "end_game")
        \/ Moved(p, "idle")
    BY <1>8, VoteMoves, TickMoves, EndMoves
  <2>2. game' = game /\ majority' = majority
    BY <1>8 DEF BeginVote, VotePhase, VoteActive, VoteVotes, BeginTick, Rejoin, Window,
                WindowActive, ResetHeader, ResetRoom, BeginEnd, EndRoom
  <2> QED
    BY <1>1, <2>1, <2>2
<1>9. CASE ClockTick
  <2>1. /\ game'.phase = game.phase
        /\ game'.reset_left = OneSecondLess(game.reset_left)
    BY <1>9 DEF ClockTick, Game
  <2>2. \A p \in Player : req'[p].pc = req[p].pc
    BY <1>9, ClockMoves
  <2>3. game'.reset_left # Unset => game.reset_left # Unset
    BY <2>1 DEF OneSecondLess
  <2>4. majority' = majority
    BY <1>9 DEF ClockTick
  <2> QED
    BY <2>1, <2>2, <2>3, <2>4
<1>10. CASE PlayNextGame
  <2>0. game' = [phase |-> "VOTING", votes |-> NoVotes, vote_left |-> VoteSec,
                 reset_left |-> Unset, outcome |-> ""]
    BY <1>10 DEF PlayNextGame
  <2>1. game'.reset_left = Unset /\ game'.phase = "VOTING"
    BY <2>0
  <2>2. \A p \in Player : req'[p].pc = "idle"
    BY <1>10 DEF PlayNextGame
  <2> QED
    BY <2>1, <2>2
<1>11. CASE (\E p \in Player : Leave(p)) \/ UNCHANGED vars
  BY <1>11 DEF Leave, vars
<1>12. CASE EndGame
  <2>1. game'.reset_left = Unset /\ game'.phase = "VOTING"
    BY <1>12 DEF EndGame
  <2>2. \A p \in Player : req'[p].pc = "reset_game" => req[p].pc = "reset_game"
    BY <1>12, EndMoves DEF Moved
  <2>3. (\E p \in Player : req[p].pc = "reset_game") => majority'
    BY <1>12 DEF EndGame
  <2> QED
    BY <2>1, <2>2, <2>3
<1> HIDE VoteAssumption DEF Carries, TypeOK
<1>13. ASSUME NEW p \in Player, Step(p) PROVE Carries'
  <2>1. CASE ResolveVote(p) \/ WindowResolve(p) \/ RecordVote(p) \/ Reset(p) \/ ResetGame(p)
    BY <1>4, <1>5, <1>6, <1>7, <2>1
  <2>2. CASE \/ VotePhase(p) \/ VoteActive(p) \/ VoteVotes(p) \/ Window(p)
             \/ WindowActive(p) \/ ResetHeader(p) \/ ResetRoom(p)
    BY <1>8, <2>2
  <2>3. CASE EndGame
    BY <1>12, <2>3
  <2>4. CASE p = GM /\ EndRoom
    BY <1>8, <2>4
  <2> QED
    BY <1>13, <2>1, <2>2, <2>3, <2>4 DEF Step
<1>14. CASE BeginEnd
  BY <1>8, <1>14, VoteAssumption
<1>15. ASSUME NEW p \in Player, BeginVote(p) \/ BeginTick(p) \/ Rejoin(p) PROVE Carries'
  BY <1>8, <1>15
<1> QED
  BY <1>9, <1>10, <1>11, <1>13, <1>14, <1>15 DEF Next

\* A SINGLE room goes back to WAITING only after a vote on this very game in
\* which more than half of the active players said yes, whatever end_game the
\* GameMaster sends meanwhile.
THEOREM SingleResetNeedsMajority ==
  ASSUME Mode = "SINGLE"
  PROVE  Spec => []ResetNeedsMajority
<1>1. Init => TypeOK /\ Carries
  <2> SUFFICES ASSUME Init PROVE Carries
    BY InitTyped
  <2>1. \A p \in Player : req[p].pc = "idle"
    BY DEF Init, Idle
  <2>2. game.reset_left = Unset /\ game.phase = "VOTING"
    BY DEF Init
  <2> QED
    BY <2>1, <2>2 DEF Carries
<1>2. TypeOK /\ Carries /\ [Next]_vars => (TypeOK /\ Carries)'
  BY TypeStep, CarriesStep
<1>3. Carries => ResetNeedsMajority
  BY DEF Carries, ResetNeedsMajority
<1> QED
  BY <1>1, <1>2, <1>3, PTL DEF Spec
=============================================================================
