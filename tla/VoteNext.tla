------------------------------ MODULE VoteNext ------------------------------
(***************************************************************************)
(* The vote that follows a game, in both modes: vote_next, the ticks of    *)
(* heartbeat, snapshot and reconnect that close the vote window and take   *)
(* the room back to WAITING, players who leave and come back meanwhile,    *)
(* an end_game that the GameMaster sends once more and that opens the vote *)
(* again, and the next game, which ends in the next vote.                  *)
(*                                                                         *)
(* As in VSGame a handler is a sequence of actions, one for each Redis     *)
(* command that reads or writes what another handler writes.  SINGLE wraps *)
(* vote_next in a lock of the room, VS does not; nothing wraps the ticks.  *)
(*                                                                         *)
(* A handler takes its time stamp ts once, when it starts.  age is how far *)
(* the clock has moved since: the handler sees a deadline that is d        *)
(* seconds away as d + age seconds away.                                   *)
(***************************************************************************)
EXTENDS Integers, FiniteSets

CONSTANTS
  Mode,        \* header.mode: "VS" or "SINGLE"
  Player,      \* the pids of the room ...
  GM,          \* ... and among them the GameMaster
  Nobody,      \* the vote lock is free
  Unset,       \* a deadline field that is 0: no deadline
  VoteSec,     \* the vote window: vote_end_at is 30 s after the game's end
  ResetSec,    \* reset_to_waiting_at is 2 s after a YES
  MaxDelay,    \* bound on the seconds a handler is under way
  MaxVotes,    \* bound on the votes a client sends in one vote
  MaxEnds,     \* bound on the end_game requests sent after one game
  MaxInFlight  \* bound on the requests being handled at one time

ASSUME VoteAssumption ==
  /\ Mode \in {"VS", "SINGLE"}
  /\ IsFiniteSet(Player) /\ GM \in Player /\ Nobody \notin Player
  /\ Unset \notin Int
  /\ VoteSec \in Nat /\ ResetSec \in Nat
  /\ MaxDelay \in Nat /\ MaxVotes \in Nat /\ MaxEnds \in Nat
  /\ MaxInFlight \in Nat

VARIABLES
  state,     \* header.state
  gm,        \* header.gm_pid is set
  game,      \* the game hash: phase, votes_next, vote_end_at, ...
  active,    \* the set of active pids
  lock,      \* holder of the room's lock in _ROOM_VOTE_LOCKS
  req,       \* req[p]: where the handler of connection p is and what it read
  sent,      \* sent[p]: votes the client of p has sent in this vote
  ends,      \* end_game requests after this game
  majority   \* history: a majority of the active players has voted yes

vars == <<state, gm, game, active, lock, req, sent, ends, majority>>

Ballot == {"none", "yes", "no"}
NoVotes == [q \in Player |-> "none"]

Idle == [pc |-> "idle", age |-> 0, vote |-> "none", eligible |-> {},
         votes |-> NoVotes]

Goto(p, pc) == req' = [req EXCEPT ![p].pc = pc]
Return(p) == req' = [req EXCEPT ![p] = Idle]
\* vote_next of SINGLE gives its lock back when it returns.
ReturnFromVote(p) == Return(p) /\ lock' = IF lock = p THEN Nobody ELSE lock

\* What a handler of this age makes of a deadline field.
Due(deadline, age) == deadline # Unset /\ deadline + age <= 0
\* Deadlines long past all look the same.
OneSecondLess(deadline) ==
  IF deadline = Unset \/ deadline = -MaxDelay THEN deadline ELSE deadline - 1

Yes(votes, eligible) == {q \in eligible : votes[q] = "yes"}
\* Mutant: half of the votes is enough.
CarriedByHalf(votes, eligible) ==
  Cardinality(Yes(votes, eligible)) >= Cardinality(eligible) \div 2
\* The test of the code: yes_count >= (len(eligible) // 2) + 1.
Carried(votes, eligible) ==
  Cardinality(Yes(votes, eligible)) >= (Cardinality(eligible) \div 2) + 1
AllVoted(votes, eligible) == \A q \in eligible : votes[q] # "none"

\* Mutant: a delay counted twice.
ResolveYesLate(p) ==
  /\ game' = [game EXCEPT !.reset_left = ResetSec + req[p].age,
                          !.vote_left = Unset, !.outcome = "YES"]
  /\ majority' = TRUE
  /\ UNCHANGED gm

\* The two outcomes, each one HSET of the game hash.
ResolveYes(p) ==
  /\ game' = [game EXCEPT !.reset_left = ResetSec - req[p].age,
                          !.vote_left = Unset, !.outcome = "YES"]
  /\ majority' = (majority \/ 2 * Cardinality(Yes(req[p].votes, req[p].eligible))
                                > Cardinality(req[p].eligible))
  /\ UNCHANGED gm
\* VS strips the roles and the GameMaster first.
ResolveNo ==
  /\ game' = [game EXCEPT !.phase = "FINAL", !.vote_left = Unset, !.outcome = "NO"]
  /\ gm' = IF Mode = "VS" THEN FALSE ELSE gm
  /\ UNCHANGED majority

CanBegin(p) ==
  /\ req[p].pc = "idle"
  /\ Cardinality({q \in Player : req[q].pc # "idle"}) < MaxInFlight
  /\ state = "GAME_END"

(***************************************************************************)
(* vote_next                                                               *)
(***************************************************************************)
\* Mutant: no lock.
BeginVoteUnlocked(p) ==
  /\ CanBegin(p)
  /\ sent[p] < MaxVotes
  /\ sent' = [sent EXCEPT ![p] = @ + 1]
  /\ \E vote \in {"yes", "no"} :
       req' = [req EXCEPT ![p] = [Idle EXCEPT !.pc = "vote_phase", !.vote = vote]]
  /\ UNCHANGED <<state, game, active, lock, majority, gm, ends>>

\* SINGLE takes the lock, then both read the header.
BeginVote(p) ==
  /\ CanBegin(p)
  /\ sent[p] < MaxVotes
  /\ IF Mode = "SINGLE" THEN lock = Nobody /\ lock' = p ELSE UNCHANGED lock
  /\ sent' = [sent EXCEPT ![p] = @ + 1]
  /\ \E vote \in {"yes", "no"} :
       req' = [req EXCEPT ![p] = [Idle EXCEPT !.pc = "vote_phase", !.vote = vote]]
  /\ UNCHANGED <<state, game, active, majority, gm, ends>>

\* The game is read: BAD_PHASE, VOTE_EXPIRED or go on.
VotePhase(p) ==
  /\ req[p].pc = "vote_phase"
  /\ IF game.phase = "VOTING" /\ ~Due(game.vote_left, req[p].age)
     THEN Goto(p, "vote_active") /\ UNCHANGED lock
     ELSE ReturnFromVote(p)
  /\ UNCHANGED <<state, game, active, sent, majority, gm, ends>>

\* record_vote_all_active reads who is active: NOT_ACTIVE or go on ...
VoteActive(p) ==
  /\ req[p].pc = "vote_active"
  /\ IF p \in active
     THEN /\ req' = [req EXCEPT ![p].pc = "vote_votes", ![p].eligible = active]
          /\ UNCHANGED lock
     ELSE ReturnFromVote(p)
  /\ UNCHANGED <<state, game, active, sent, majority, gm, ends>>

\* ... reads the votes, drops those of inactive players and adds its own ...
VoteVotes(p) ==
  /\ req[p].pc = "vote_votes"
  /\ req' = [req EXCEPT ![p].pc = "vote_record",
                        ![p].votes = [q \in Player |->
                           IF q = p THEN req[p].vote
                           ELSE IF q \in req[p].eligible THEN game.votes[q]
                           ELSE "none"]]
  /\ UNCHANGED <<state, game, active, lock, sent, majority, gm, ends>>

\* ... and writes them back.
RecordVote(p) ==
  /\ req[p].pc = "vote_record"
  /\ game' = [game EXCEPT !.votes = req[p].votes]
  /\ Goto(p, "vote_resolve")
  /\ UNCHANGED <<state, active, lock, sent, majority, gm, ends>>

\* A majority resolves the vote, and so does the last vote without one.
ResolveVote(p) ==
  /\ req[p].pc = "vote_resolve"
  /\ LET votes == req[p].votes
         eligible == req[p].eligible
     IN \/ Carried(votes, eligible) /\ ResolveYes(p)
        \/ ~Carried(votes, eligible) /\ AllVoted(votes, eligible) /\ ResolveNo
        \/ /\ ~Carried(votes, eligible) /\ ~AllVoted(votes, eligible)
           /\ UNCHANGED <<game, gm, majority>>
  /\ ReturnFromVote(p)
  /\ UNCHANGED <<state, active, sent, ends>>

(***************************************************************************)
(* The ticks: first the vote window, then the way back to WAITING          *)
(***************************************************************************)
BeginTick(p) ==
  /\ CanBegin(p)
  /\ p \in active
  /\ req' = [req EXCEPT ![p] = [Idle EXCEPT !.pc = "window"]]
  /\ UNCHANGED <<state, game, active, lock, sent, majority, gm, ends>>

\* _auto_resolve_*_vote_window reads the game ...
Window(p) ==
  /\ req[p].pc = "window"
  /\ IF game.phase = "VOTING" /\ Due(game.vote_left, req[p].age)
     THEN req' = [req EXCEPT ![p].pc = "window_active", ![p].votes = game.votes]
     ELSE Goto(p, "reset")
  /\ UNCHANGED <<state, game, active, lock, sent, majority, gm, ends>>

\* ... and who is active, ...
WindowActive(p) ==
  /\ req[p].pc = "window_active"
  /\ req' = [req EXCEPT ![p].pc = "window_resolve", ![p].eligible = active]
  /\ UNCHANGED <<state, game, active, lock, sent, majority, gm, ends>>

\* Mutant: without a majority the vote stays open.
WindowStaysOpen(p) ==
  /\ req[p].pc = "window_resolve"
  /\ IF Carried(req[p].votes, req[p].eligible) THEN ResolveYes(p)
     ELSE UNCHANGED <<game, gm, majority>>
  /\ Goto(p, "reset_header")
  /\ UNCHANGED <<state, active, lock, sent, ends>>

\* ... and without a majority the answer is NO.
WindowResolve(p) ==
  /\ req[p].pc = "window_resolve"
  /\ IF Carried(req[p].votes, req[p].eligible) THEN ResolveYes(p) ELSE ResolveNo
  /\ Goto(p, "reset_header")
  /\ UNCHANGED <<state, active, lock, sent, ends>>

\* After that the handler reads the header again.
ResetHeader(p) ==
  /\ req[p].pc = "reset_header"
  /\ IF state = "GAME_END" THEN Goto(p, "reset") ELSE Return(p)
  /\ UNCHANGED <<state, game, active, lock, sent, majority, gm, ends>>

\* _auto_reset_*_to_waiting_after_vote_yes
Reset(p) ==
  /\ req[p].pc = "reset"
  /\ IF game.phase = "VOTING" /\ Due(game.reset_left, req[p].age)
     THEN Goto(p, "reset_game")
     ELSE Return(p)
  /\ UNCHANGED <<state, game, active, lock, sent, majority, gm, ends>>

\* VS strips the GameMaster first, and leaves vote_end_at and vote_outcome as
\* they are.
ResetGame(p) ==
  /\ req[p].pc = "reset_game"
  /\ LET g == [game EXCEPT !.phase = "", !.votes = NoVotes, !.reset_left = Unset]
     IN game' = IF Mode = "SINGLE"
                THEN [g EXCEPT !.vote_left = Unset, !.outcome = ""] ELSE g
  /\ gm' = IF Mode = "VS" THEN FALSE ELSE gm
  /\ Goto(p, "reset_room")
  /\ UNCHANGED <<state, active, lock, sent, majority, ends>>

\* SINGLE removes the GameMaster here.
ResetRoom(p) ==
  /\ req[p].pc = "reset_room"
  /\ state' = "WAITING"
  /\ gm' = FALSE
  /\ Return(p)
  /\ UNCHANGED <<game, active, lock, sent, majority, ends>>

(***************************************************************************)
(* handle_end_game: no lock, and nothing is asked of the state.  Out of    *)
(* GAME_END there is no GameMaster until the next game (PlayNextGame).     *)
(***************************************************************************)
\* The header is read: NOT_GM or go on.
BeginEnd ==
  /\ CanBegin(GM)
  /\ gm
  /\ ends < MaxEnds
  /\ ends' = ends + 1
  /\ req' = [req EXCEPT ![GM] = [Idle EXCEPT !.pc = "end_game"]]
  /\ UNCHANGED <<state, gm, game, active, lock, sent, majority>>

\* A new vote is opened; a reset that has found its time come still goes on.
EndGame ==
  /\ req[GM].pc = "end_game"
  /\ game' = [phase |-> "VOTING", votes |-> NoVotes, outcome |-> "",
              vote_left |-> VoteSec - req[GM].age, reset_left |-> Unset]
  /\ majority' = (majority /\ \E p \in Player : req[p].pc = "reset_game")
  /\ sent' = [p \in Player |-> 0]
  /\ Goto(GM, "end_room")
  /\ UNCHANGED <<state, gm, active, lock, ends>>

\* The room is told.
EndRoom ==
  /\ req[GM].pc = "end_room"
  /\ state' = "GAME_END"
  /\ Return(GM)
  /\ UNCHANGED <<gm, game, active, lock, sent, ends, majority>>

(***************************************************************************)
(* Players come and go; a game is played; time passes                      *)
(***************************************************************************)
\* handle_leave, handle_disconnect.
Leave(p) ==
  /\ req[p].pc = "idle"
  /\ p \in active
  /\ active' = active \ {p}
  /\ UNCHANGED <<state, game, lock, req, sent, majority, gm, ends>>

\* handle_reconnect, which goes on with the ticks.
Rejoin(p) ==
  /\ CanBegin(p)
  /\ p \notin active
  /\ active' = active \cup {p}
  /\ req' = [req EXCEPT ![p] = [Idle EXCEPT !.pc = "window"]]
  /\ UNCHANGED <<state, game, lock, sent, majority, gm, ends>>

\* The next game is played to its end: roles, configuration, start and rounds
\* in one step, long enough for every old deadline to pass.  SINGLE and the
\* GameMaster's end_game clear what the last vote left, end_vs_game does not.
PlayNextGame ==
  /\ state = "WAITING"
  /\ \A p \in Player : req[p].pc = "idle"
  /\ state' = "GAME_END"
  /\ \/ game' = [phase |-> "VOTING", votes |-> NoVotes, vote_left |-> VoteSec,
                 reset_left |-> Unset, outcome |-> ""]
     \/ /\ Mode = "VS"
        /\ game' = [game EXCEPT !.phase = "VOTING", !.votes = NoVotes,
                       !.vote_left = VoteSec,
                       !.reset_left = IF @ = Unset THEN Unset ELSE -MaxDelay]
  /\ gm' = TRUE
  /\ sent' = [p \in Player |-> 0]
  /\ ends' = 0
  /\ majority' = FALSE
  /\ UNCHANGED <<active, lock, req>>

\* A second passes, for the deadlines and for the handlers under way.
ClockTick ==
  /\ \A p \in Player : req[p].age < MaxDelay
  /\ game' = [game EXCEPT !.vote_left = OneSecondLess(@),
                          !.reset_left = OneSecondLess(@)]
  /\ req' = [p \in Player |-> IF req[p].pc = "idle" THEN req[p]
                              ELSE [req[p] EXCEPT !.age = @ + 1]]
  /\ UNCHANGED <<state, active, lock, sent, majority, gm, ends>>

-----------------------------------------------------------------------------
\* The first game of the room has ended.
Init ==
  /\ state = "GAME_END"
  /\ gm = TRUE
  /\ game = [phase |-> "VOTING", votes |-> NoVotes, vote_left |-> VoteSec,
             reset_left |-> Unset, outcome |-> ""]
  /\ active = Player
  /\ lock = Nobody
  /\ req = [p \in Player |-> Idle]
  /\ sent = [p \in Player |-> 0]
  /\ ends = 0
  /\ majority = FALSE

Step(p) ==
  \/ VotePhase(p) \/ VoteActive(p) \/ VoteVotes(p) \/ RecordVote(p)
  \/ ResolveVote(p)
  \/ Window(p) \/ WindowActive(p) \/ WindowResolve(p)
  \/ ResetHeader(p) \/ Reset(p) \/ ResetGame(p) \/ ResetRoom(p)
  \/ p = GM /\ (EndGame \/ EndRoom)

Next ==
  \/ \E p \in Player : BeginVote(p) \/ BeginTick(p) \/ Step(p)
  \/ \E p \in Player : Leave(p) \/ Rejoin(p)
  \/ BeginEnd
  \/ PlayNextGame
  \/ ClockTick

Spec == Init /\ [][Next]_vars

\* Time passes, a request that was begun is carried through, and the clients
\* that are connected get their heartbeats handled.
Fairness ==
  /\ WF_vars(ClockTick)
  /\ \A p \in Player : WF_vars(Step(p))
  /\ SF_vars(\E p \in Player : BeginTick(p))

FairSpec == Spec /\ Fairness

-----------------------------------------------------------------------------
Deadline(sec) == (-MaxDelay..sec) \cup {Unset}
Pc == {"idle", "vote_phase", "vote_active", "vote_votes", "vote_record",
       "vote_resolve", "window", "window_active", "window_resolve",
       "reset_header", "reset", "reset_game", "reset_room", "end_game", "end_room"}
Game == [phase : {"VOTING", "FINAL", ""}, votes : [Player -> Ballot],
         vote_left : Deadline(VoteSec), reset_left : Deadline(ResetSec),
         outcome : {"", "YES", "NO"}]
Request == [pc : Pc, age : 0..MaxDelay, vote : Ballot, eligible : SUBSET Player,
            votes : [Player -> Ballot]]

\* The values of the variables.  No deadline is further away than the code
\* ever sets it: a YES is followed by WAITING within ResetSec.
TypeOK ==
  /\ state \in {"GAME_END", "WAITING"}
  /\ gm \in BOOLEAN
  /\ game \in Game
  /\ active \in SUBSET Player
  /\ lock \in Player \cup {Nobody}
  /\ req \in [Player -> Request]
  /\ sent \in [Player -> Nat]
  /\ ends \in 0..MaxEnds
  /\ majority \in BOOLEAN

\* What vote_next writes back holds every vote it does not mean to change: a
\* vote another eligible player has cast meanwhile is not lost.
NoVoteLost ==
  [][\A p \in Player : \A q \in req[p].eligible \ {p} :
       RecordVote(p) /\ game.votes[q] # "none" => game'.votes[q] = game.votes[q]]_vars

\* The room only goes back to WAITING when, in the vote on this game, more
\* than half of the active players have voted yes: in the last vote opened, or
\* in the one before when the GameMaster opens a vote while the reset is made.
ResetNeedsMajority == game.phase = "" => majority

\* "YES" or "NO": once the outcome of a vote is announced it stays until the
\* room has left the vote.
OutcomeStands ==
  [][game.phase # "" /\ game.outcome # "" => game'.outcome \in {game.outcome, ""}]_game

\* Whoever votes or leaves, as long as now and then somebody is there and the
\* GameMaster does not go on sending end_game, the vote is resolved: FINAL, or
\* back to WAITING.
VoteResolves ==
  []<>(active # {}) =>
    (game.phase = "VOTING" ~> (game.phase = "FINAL" \/ state = "WAITING"))
=============================================================================
