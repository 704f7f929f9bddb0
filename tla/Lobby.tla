-------------------------------- MODULE Lobby --------------------------------
(***************************************************************************)
(* A room between its games, in either mode: players join, leave and come  *)
(* back; start_role_pick chooses the GameMaster, the teams and the roles;  *)
(* the GameMaster sets the configuration; start_game, or the countdown     *)
(* that any client's heartbeat finds run out, starts the game; the vote    *)
(* after it takes the room back to WAITING, with all of this cleared.      *)
(*                                                                         *)
(* A player record is one JSON value: every change of a field reads the    *)
(* whole record and writes it back, in two commands.  So the handlers that *)
(* only mark a player as connected may write back a role that another has  *)
(* changed meanwhile, and they come between any two commands of any other. *)
(* The requests that move the room along overlap as far as Overlapping     *)
(* lets them.                                                              *)
(***************************************************************************)
EXTENDS Integers, FiniteSets

CONSTANTS
  Pid,          \* everybody who may be in the room
  Nobody,       \* no pid
  MinPlayers,   \* MinPlayers[mode]: 5 in VS, 3 in SINGLE
  MinTeam,      \* members a VS team needs, 2
  Words,        \* kinds of secret words the GameMaster types
  Overlapping,  \* kinds of requests that may be under way together
  MaxInFlight,  \* bound on the requests being handled at one time
  MaxMoves,     \* bound on the joins, leaves and disconnects
  MaxGames      \* bound on the games played in the room

Mode == {"VS", "SINGLE"}
Team == {"A", "B"}
Kind == {"pick", "config", "start", "over", "end", "lost", "reset"}

ASSUME LobbyAssumption ==
  /\ IsFiniteSet(Pid) /\ Nobody \notin Pid
  /\ MinPlayers \in [Mode -> Nat] /\ MinTeam \in Nat \ {0}
  /\ MinPlayers["VS"] > 2 * MinTeam /\ MinPlayers["SINGLE"] > 1
  /\ Words \subseteq {"word", "blank", "number"}
  /\ Overlapping \subseteq Kind
  /\ MaxInFlight \in Nat /\ MaxMoves \in Nat /\ MaxGames \in Nat

VARIABLES
  room,     \* the header: mode, state, gm_pid, and the countdown
  role,     \* role in each player record
  on,       \* the players whose records say connected
  known,    \* the players who have a record
  teams,    \* the Redis sets of the two teams
  hash,     \* the roles hash: drawer, or drawerA and drawerB
  secret,   \* the kind of secret_word in the round configuration
  game,     \* of the game hash: drawer_pid, and what the vote on the next game said
  req,      \* req[p]: where the handler of connection p is and what it read
  moves,    \* history: joins, leaves and disconnects
  starts,   \* history: games started
  restored  \* history: players whose role was last changed by a handler that was
            \* to change something else, or to give the GameMaster's role back

people == <<role, on, known, moves, restored>>
vars == <<room, role, on, known, teams, hash, secret, game, req, moves, starts, restored>>

Guessing == {"guesser", "guesserA", "guesserB"}
Role == {"none", "gm", "drawer", "drawerA", "drawerB"} \cup Guessing
DrawerOf == [t \in Team |-> IF t = "A" THEN "drawerA" ELSE "drawerB"]
GuesserOf == [t \in Team |-> IF t = "A" THEN "guesserA" ELSE "guesserB"]
NoDrawers == [d \in {"drawer", "drawerA", "drawerB"} |-> Nobody]
NoTeams == [t \in Team |-> {}]

\* What is still to be written to the players' records: a role, a team, or only
\* that the player is connected ("here") or not ("away").
Each(ps, what) == [q \in Pid |-> IF q \in ps THEN what ELSE "keep"]
NoPlan == Each({}, "keep")
NoCopy == [who |-> Nobody, role |-> "none", on |-> FALSE]
Idle == [pc |-> "idle", kind |-> "touch", gm |-> Nobody, here |-> {},
         drawers |-> [t \in Team |-> Nobody], plan |-> NoPlan, next |-> "idle", copy |-> NoCopy]
Busy == {p \in Pid : req[p].pc # "idle"}
Movers == {p \in Busy : req[p].kind # "touch"}
UnderWay(kinds) == \E p \in Busy : req[p].kind \in kinds

Goto(p, pc) == req' = [req EXCEPT ![p].pc = pc]
Return(p) == req' = [req EXCEPT ![p] = Idle]

\* The request r goes on to write the records in plan, and then to r.next.
Planned(r, plan) ==
  IF plan # NoPlan THEN [r EXCEPT !.pc = "get", !.plan = plan]
  ELSE IF r.next = "idle" THEN Idle
  ELSE [r EXCEPT !.pc = r.next, !.plan = plan, !.next = "idle"]
Loop(p, plan, next) == req' = [req EXCEPT ![p] = Planned([@ EXCEPT !.next = next], plan)]

\* A player's request has passed its first tests.
Arrive(p, kind, pc, gm) ==
  /\ p \in known \ Busy /\ Cardinality(Busy) < MaxInFlight
  /\ req' = [req EXCEPT ![p] = [Idle EXCEPT !.pc = pc, !.kind = kind, !.gm = gm]]
  /\ Movers = {} \/ {req[q].kind : q \in Movers} \cup {kind} \subseteq Overlapping

(***************************************************************************)
(* update_player_fields, set_player_connected, set_team and clear_team,    *)
(* for one player after the other.  The pipeline on the team sets is one   *)
(* action with the read that follows it.                                   *)
(***************************************************************************)
GetRecord(p) ==
  /\ req[p].pc = "get"
  /\ \E q \in {x \in Pid : req[p].plan[x] # "keep"} :
       LET what == req[p].plan[q]
       IN /\ req' = [req EXCEPT ![p].pc = "set",
                         ![p].copy = [who |-> q, role |-> role[q], on |-> q \in on]]
          /\ IF what \in {"A", "B", "out"}
             THEN teams' = [t \in Team |-> IF t = what THEN teams[t] \cup {q} ELSE teams[t] \ {q}]
             ELSE UNCHANGED teams
  /\ UNCHANGED <<room, people, hash, secret, game, starts>>

SetRecord(p) ==
  /\ req[p].pc = "set"
  /\ LET r == req[p]
         q == r.copy.who
         what == r.plan[q]
     IN /\ role' = [role EXCEPT ![q] = IF what \in Role THEN what ELSE r.copy.role]
        /\ on' = IF what = "here" \/ (what # "away" /\ r.copy.on)
                 THEN on \cup {q} ELSE on \ {q}
        /\ restored' = IF what \in Role /\ r.kind # "touch" THEN restored \ {q}
                       ELSE IF role'[q] # role[q] THEN restored \cup {q} ELSE restored
        /\ req' = [req EXCEPT ![p] =
                     Planned([r EXCEPT !.copy = NoCopy], [r.plan EXCEPT ![q] = "keep"])]
  /\ UNCHANGED <<room, known, teams, hash, secret, game, moves, starts>>

(***************************************************************************)
(* Players.  handle_join makes a record for a new player.                  *)
(***************************************************************************)
Join(p) ==
  /\ p \notin known
  /\ moves < MaxMoves /\ moves' = moves + 1
  /\ on' = on \cup {p}
  /\ known' = known \cup {p}
  /\ UNCHANGED <<room, role, teams, hash, secret, game, req, starts, restored>>

\* A handler of p that is to write its connection, and then does what is next.
Touch(p, what, next, gm) ==
  /\ p \in known \ Busy /\ Cardinality(Busy) < MaxInFlight
  /\ moves < MaxMoves /\ moves' = moves + 1
  /\ req' = [req EXCEPT ![p] =
               [Idle EXCEPT !.pc = "get", !.plan = Each({p}, what), !.next = next, !.gm = gm]]
  /\ UNCHANGED <<room, role, on, known, teams, hash, secret, game, starts, restored>>

\* handle_leave and handle_disconnect.
Leave(p) == Touch(p, "away", "idle", Nobody)

\* handle_heartbeat after its ticks, and handle_reconnect.
Heartbeat(p) == Touch(p, "here", "idle", Nobody)

\* handle_join of a player who has a record is the same, except that it gives its
\* role to whom the header it has read names as GameMaster.
JoinAsGM(p) == room.gm = p /\ Touch(p, "here", "gm_role", p)

(***************************************************************************)
(* handle_start_role_pick                                                  *)
(***************************************************************************)
BeginPick(p) ==
  /\ room.state \in {"WAITING", "ROLE_PICK"}
  /\ starts < MaxGames
  /\ Arrive(p, "pick", "list", room.gm)
  /\ UNCHANGED <<room, people, teams, hash, secret, game, starts>>

AfterGM == IF room.mode = "VS" THEN "split" ELSE "single_roles"

\* It counts who is connected, and chooses a GameMaster if there is none.
ListPlayers(p) ==
  /\ req[p].pc = "list"
  /\ \/ Cardinality(on) < MinPlayers[room.mode] /\ Return(p)   \* NOT_ENOUGH_PLAYERS
     \/ /\ Cardinality(on) >= MinPlayers[room.mode]
        /\ IF req[p].gm # Nobody
           THEN req' = [req EXCEPT ![p].here = on, ![p].pc = AfterGM]
           ELSE \E gm \in on :
                  req' = [req EXCEPT ![p].here = on, ![p].gm = gm, ![p].pc = "gm_header"]
  /\ UNCHANGED <<room, people, teams, hash, secret, game, starts>>

PickGM(p) ==
  /\ req[p].pc = "gm_header"
  /\ room' = [room EXCEPT !.gm = req[p].gm]
  /\ Loop(p, Each({req[p].gm}, "out"), "gm_role")
  /\ UNCHANGED <<people, teams, hash, secret, game, starts>>

\* Of handle_join, too.
GMRole(p) ==
  /\ req[p].pc = "gm_role"
  /\ Loop(p, Each({req[p].gm}, "gm"), IF req[p].kind = "pick" THEN AfterGM ELSE "idle")
  /\ UNCHANGED <<room, people, teams, hash, secret, game, starts>>

\* A deal of the players in pool to the teams, those in a to team A.
Deal(pool, a) == [q \in Pid |-> IF q \in a THEN "A" ELSE IF q \in pool THEN "B" ELSE "keep"]

\* Mutant: the GameMaster is dealt to a team too.
SplitEverybody(p) ==
  /\ req[p].pc = "split"
  /\ \E a \in SUBSET req[p].here :
       /\ Cardinality(a) = (Cardinality(req[p].here) + 1) \div 2
       /\ Loop(p, Deal(req[p].here, a), "vs_roles")
  /\ UNCHANGED <<room, people, teams, hash, secret, game, starts>>

\* VS: those who were connected are dealt to two even teams, unless there are
\* teams already.
Split(p) ==
  /\ req[p].pc = "split"
  /\ LET pool == req[p].here \ {req[p].gm}
     IN IF \A t \in Team : teams[t] = {}
        THEN \E a \in SUBSET pool :
               /\ Cardinality(a) = (Cardinality(pool) + 1) \div 2
               /\ Loop(p, Deal(pool, a), "vs_roles")
        ELSE Goto(p, "vs_roles")
  /\ UNCHANGED <<room, people, teams, hash, secret, game, starts>>

\* auto_assign_vs_roles: one drawer for each team, not the one of last time if
\* there is another; the rest are guessers, or nothing without a team.
AssignVSRoles(p) ==
  /\ req[p].pc = "vs_roles"
  /\ LET gm == req[p].gm
         Members(t) == teams[t] \ {gm}
         Eligible(t) == IF Cardinality(Members(t)) <= 1 THEN Members(t)
                        ELSE Members(t) \ {hash[DrawerOf[t]]}
         Roles(ab) ==
           [q \in Pid |->
              IF q \notin known THEN "keep"
              ELSE IF q = gm THEN "gm"
              ELSE IF q = ab["A"] THEN "drawerA" ELSE IF q = ab["B"] THEN "drawerB"
              ELSE IF q \in teams["A"] THEN "guesserA"
              ELSE IF q \in teams["B"] THEN "guesserB" ELSE "none"]
     IN IF \E t \in Team : Members(t) = {}
        THEN Return(p)                                     \* ROLE_ASSIGN_FAILED
        ELSE \E a \in Eligible("A"), b \in Eligible("B") :
               LET ab == [t \in Team |-> IF t = "A" THEN a ELSE b]
               IN req' = [req EXCEPT ![p] = Planned([@ EXCEPT !.drawers = ab, !.here = {},
                                                              !.next = "vs_hash"], Roles(ab))]
  /\ UNCHANGED <<room, people, teams, hash, secret, game, starts>>

VSHash(p) ==
  /\ req[p].pc = "vs_hash"
  /\ hash' = [hash EXCEPT !.drawerA = req[p].drawers["A"], !.drawerB = req[p].drawers["B"]]
  /\ Goto(p, "pick_room")
  /\ UNCHANGED <<room, people, teams, secret, game, starts>>

\* The roles when d draws.
SingleRoles(p, d) ==
  [q \in Pid |-> IF q \notin req[p].here THEN "keep"
                ELSE IF q = req[p].gm THEN "gm"
                ELSE IF q = d THEN "drawer" ELSE "guesser"]

\* Mutant: the drawer of an earlier pick stays in the hash.
AssignSingleKeepsHash(p) ==
  /\ req[p].pc = "single_roles"
  /\ \E d \in req[p].here \ {req[p].gm} :
       /\ hash' = IF hash.drawer = Nobody THEN [hash EXCEPT !.drawer = d] ELSE hash
       /\ req' = [req EXCEPT ![p] = Planned([@ EXCEPT !.here = {}, !.next = "pick_room"],
                                            SingleRoles(p, d))]
  /\ UNCHANGED <<room, people, teams, secret, game, starts>>

\* assign_single_roles: one drawer, in the hash first; the rest of those who were
\* connected are guessers; who was away keeps the role he had.
AssignSingleRoles(p) ==
  /\ req[p].pc = "single_roles"
  /\ LET others == req[p].here \ {req[p].gm}
     IN \E d \in IF others = {} THEN req[p].here ELSE others :
          /\ hash' = [hash EXCEPT !.drawer = d]
          /\ req' = [req EXCEPT ![p] = Planned([@ EXCEPT !.here = {}, !.next = "pick_room"],
                                               SingleRoles(p, d))]
  /\ UNCHANGED <<room, people, teams, secret, game, starts>>

\* Mutant: VS rooms wait in ROLE_PICK, as SINGLE rooms do.
PickRoomAlike(p) ==
  /\ req[p].pc = "pick_room"
  /\ room' = [room EXCEPT !.state = "ROLE_PICK", !.countdown = "running"]
  /\ Return(p)
  /\ UNCHANGED <<people, teams, hash, secret, game, starts>>

\* VS goes straight to CONFIG.
PickRoom(p) ==
  /\ req[p].pc = "pick_room"
  /\ room' = [room EXCEPT !.countdown = "running",
                          !.state = IF room.mode = "VS" THEN "CONFIG" ELSE "ROLE_PICK"]
  /\ Return(p)
  /\ UNCHANGED <<people, teams, hash, secret, game, starts>>

(***************************************************************************)
(* handle_vs_set_round_config and handle_single_set_round_config           *)
(***************************************************************************)
IsGM(p) == IF room.mode = "VS" THEN room.gm = p ELSE role[p] = "gm"

\* Mutant: the state is not asked for.
BeginConfigAnytime(p) ==
  /\ IsGM(p)
  /\ Arrive(p, "config", "config", p)
  /\ UNCHANGED <<room, people, teams, hash, secret, game, starts>>

BeginConfig(p) ==
  /\ IsGM(p)
  /\ room.state \in {"ROLE_PICK", "CONFIG"}
  /\ Arrive(p, "config", "config", p)
  /\ UNCHANGED <<room, people, teams, hash, secret, game, starts>>

WriteConfig(p) ==
  /\ req[p].pc = "config"
  /\ secret' \in Words
  /\ Goto(p, "config_room")
  /\ UNCHANGED <<room, people, teams, hash, game, starts>>

\* The header is written without another look at the state.
ConfigRoom(p) ==
  /\ req[p].pc = "config_room"
  /\ room' = [room EXCEPT !.state = "CONFIG", !.countdown = "running"]
  /\ Return(p)
  /\ UNCHANGED <<people, teams, hash, secret, game, starts>>

(***************************************************************************)
(* handle_vs_start_game and handle_single_start_game, for the GameMaster   *)
(* or, from _auto_start_from_countdown, in his name.                       *)
(***************************************************************************)
MayStart(gm) ==
  IF room.mode = "VS" THEN room.state = "CONFIG" /\ room.gm = gm
                      ELSE room.state \in {"CONFIG", "ROLE_PICK"} /\ role[gm] = "gm"

BeginStart(p) ==
  /\ MayStart(p)
  /\ Arrive(p, "start", "read_config", p)
  /\ UNCHANGED <<room, people, teams, hash, secret, game, starts>>

\* A heartbeat, snapshot or reconnect finds the countdown run out.
AutoStart(p) ==
  /\ room.state = "CONFIG" /\ room.countdown = "over"
  /\ room.gm # Nobody
  /\ Arrive(p, "start", "auto_start", room.gm)
  /\ UNCHANGED <<room, people, teams, hash, secret, game, starts>>

AutoStartRead(p) ==
  /\ req[p].pc = "auto_start"
  /\ IF MayStart(req[p].gm) THEN Goto(p, "read_config") ELSE Return(p)
  /\ UNCHANGED <<room, people, teams, hash, secret, game, starts>>

\* A word that looks like a number is read back as one, and strip() raises.
ReadConfig(p) ==
  /\ req[p].pc = "read_config"
  /\ IF secret = "word" THEN Goto(p, "start_game")
                        ELSE Return(p)     \* CONFIG_MISSING, or the handler raises
  /\ UNCHANGED <<room, people, teams, hash, secret, game, starts>>

\* Mutant: who has left is not counted.
ReadyOnline(gm) ==
  IF room.mode = "VS"
  THEN /\ Cardinality(on) >= MinPlayers["VS"]
       /\ \A t \in Team :
            /\ Cardinality(teams[t] \ {gm}) >= MinTeam
            /\ Cardinality({q \in teams[t] \cap known : role[q] = DrawerOf[t]}) = 1
  ELSE hash.drawer # Nobody

\* validate_vs_start_conditions, or that a drawer has been assigned.
Ready(gm) ==
  IF room.mode = "VS"
  THEN /\ Cardinality(known) >= MinPlayers["VS"]
       /\ \A t \in Team :
            /\ Cardinality(teams[t] \ {gm}) >= MinTeam
            /\ Cardinality({q \in teams[t] \cap known : role[q] = DrawerOf[t]}) = 1
  ELSE hash.drawer # Nobody

StartGame(p) ==
  /\ req[p].pc = "start_game"
  /\ IF Ready(req[p].gm)
     THEN /\ game' = [drawer |-> hash.drawer, vote |-> "none"]
          /\ Goto(p, "start_room")
     ELSE Return(p) /\ UNCHANGED game                      \* START_FAILED, NO_DRAWER
  /\ UNCHANGED <<room, people, teams, hash, secret, starts>>

StartRoom(p) ==
  /\ req[p].pc = "start_room"
  /\ room' = [room EXCEPT !.state = "IN_GAME", !.countdown = "none"]
  /\ starts' = IF starts > MaxGames THEN starts ELSE starts + 1
  /\ Return(p)
  /\ UNCHANGED <<people, teams, hash, secret, game>>

(***************************************************************************)
(* The end of a game, by itself (VSGame, SingleGame) or by end_game, which *)
(* the GameMaster may send in any state; the vote (VoteNext); and what is  *)
(* cleared after each.  A game, and the voting after it, outlast the       *)
(* handlers that were under way when they began.                           *)
(***************************************************************************)
BeginOver(p) ==
  /\ room.state = "IN_GAME" /\ ~UnderWay({"start", "over"})
  /\ Arrive(p, "over", IF room.mode = "SINGLE" THEN "clear_hash" ELSE "end_game", Nobody)
  /\ UNCHANGED <<room, people, teams, hash, secret, game, starts>>

BeginEnd(p) ==
  /\ p \in known /\ room.gm = p
  /\ Arrive(p, "end", "end_game", p)
  /\ UNCHANGED <<room, people, teams, hash, secret, game, starts>>

EndGame(p) ==
  /\ req[p].pc = "end_game"
  /\ game' = [game EXCEPT !.vote = "open"]
  /\ Goto(p, "end_room")
  /\ UNCHANGED <<room, people, teams, hash, secret, starts>>

EndRoom(p) ==
  /\ req[p].pc = "end_room"
  /\ room' = [room EXCEPT !.state = "GAME_END"]
  /\ Return(p)
  /\ UNCHANGED <<people, teams, hash, secret, game, starts>>

Voting ==
  room.state = "GAME_END" /\ ~UnderWay({"pick", "config", "start", "over"})

VoteYes ==
  /\ Voting /\ game.vote \in {"open", "yes"}
  /\ game' = [game EXCEPT !.vote = "yes"]
  /\ UNCHANGED <<room, people, teams, hash, secret, req, starts>>

\* A vote that is lost, also after it was won.  In VS the final screen shows
\* points only, so the roles, teams and GameMaster are cleared first.
BeginLost(p) ==
  /\ Voting /\ game.vote \in {"open", "yes"}
  /\ Arrive(p, "lost", IF room.mode = "VS" THEN "clear_hash" ELSE "lose", Nobody)
  /\ UNCHANGED <<room, people, teams, hash, secret, game, starts>>

Lose(p) ==
  /\ req[p].pc = "lose"
  /\ game' = [game EXCEPT !.vote = "no"]
  /\ Return(p)
  /\ UNCHANGED <<room, people, teams, hash, secret, starts>>

\* The tick that takes the room back to WAITING.
BeginReset(p) ==
  /\ room.state = "GAME_END" /\ game.vote = "yes"
  /\ Arrive(p, "reset", IF room.mode = "VS" THEN "clear_hash" ELSE "clear_roles", Nobody)
  /\ UNCHANGED <<room, people, teams, hash, secret, game, starts>>

\* clear_all_roles, strip_identity and the SINGLE reset, which has the roles first
\* and the GameMaster last.
ClearHash(p) ==
  /\ req[p].pc = "clear_hash"
  /\ hash' = NoDrawers
  /\ Goto(p, IF room.mode = "SINGLE" /\ req[p].kind = "reset"
             THEN "clear_config" ELSE "clear_roles")
  /\ UNCHANGED <<room, people, teams, secret, game, starts>>

ClearRoles(p) ==
  /\ req[p].pc = "clear_roles"
  /\ Loop(p, Each(known, "none"),
          IF room.mode = "VS" THEN "clear_teams"
          ELSE IF req[p].kind = "over" THEN "end_game" ELSE "clear_hash")
  /\ UNCHANGED <<room, people, teams, hash, secret, game, starts>>

ClearTeams(p) ==
  /\ req[p].pc = "clear_teams"
  /\ Loop(p, Each(known, "out"), "clear_gm")
  /\ UNCHANGED <<room, people, teams, hash, secret, game, starts>>

ClearGM(p) ==
  /\ req[p].pc = "clear_gm"
  /\ room' = [room EXCEPT !.gm = Nobody]
  /\ Goto(p, IF room.mode = "SINGLE" THEN "reset_room"
             ELSE IF req[p].kind = "lost" THEN "lose" ELSE "clear_config")
  /\ UNCHANGED <<people, teams, hash, secret, game, starts>>

ClearConfig(p) ==
  /\ req[p].pc = "clear_config"
  /\ secret' = "none"
  /\ Goto(p, "reset_game")
  /\ UNCHANGED <<room, people, teams, hash, game, starts>>

ResetGame(p) ==
  /\ req[p].pc = "reset_game"
  /\ game' = [drawer |-> Nobody, vote |-> "none"]
  /\ Goto(p, IF room.mode = "SINGLE" THEN "clear_gm" ELSE "reset_room")
  /\ UNCHANGED <<room, people, teams, hash, secret, starts>>

ResetRoom(p) ==
  /\ req[p].pc = "reset_room"
  /\ room' = [room EXCEPT !.state = "WAITING", !.countdown = "none"]
  /\ Return(p)
  /\ UNCHANGED <<people, teams, hash, secret, game, starts>>

CountdownRunsOut ==
  /\ room.countdown = "running"
  /\ room' = [room EXCEPT !.countdown = "over"]
  /\ UNCHANGED <<people, teams, hash, secret, game, req, starts>>

-----------------------------------------------------------------------------
\* A new room that enough players have joined.
Init ==
  /\ \E m \in Mode :
       /\ room = [mode |-> m, state |-> "WAITING", gm |-> Nobody, countdown |-> "none"]
       /\ known \in {ps \in SUBSET Pid : Cardinality(ps) >= MinPlayers[m]}
  /\ on = known
  /\ role = [p \in Pid |-> "none"]
  /\ teams = NoTeams
  /\ hash = NoDrawers
  /\ secret = "none"
  /\ game = [drawer |-> Nobody, vote |-> "none"]
  /\ req = [p \in Pid |-> Idle]
  /\ moves = 0
  /\ starts = 0
  /\ restored = {}

Begin(p) ==
  \/ BeginPick(p) \/ BeginConfig(p) \/ BeginStart(p) \/ AutoStart(p)
  \/ BeginOver(p) \/ BeginEnd(p) \/ BeginLost(p) \/ BeginReset(p)

Step(p) ==
  \/ GetRecord(p) \/ SetRecord(p)
  \/ ListPlayers(p) \/ PickGM(p) \/ GMRole(p) \/ Split(p)
  \/ AssignVSRoles(p) \/ VSHash(p) \/ AssignSingleRoles(p) \/ PickRoom(p)
  \/ WriteConfig(p) \/ ConfigRoom(p)
  \/ AutoStartRead(p) \/ ReadConfig(p) \/ StartGame(p) \/ StartRoom(p)
  \/ EndGame(p) \/ EndRoom(p) \/ Lose(p)
  \/ ClearHash(p) \/ ClearRoles(p) \/ ClearTeams(p) \/ ClearGM(p)
  \/ ClearConfig(p) \/ ResetGame(p) \/ ResetRoom(p)

Next ==
  \/ \E p \in Pid : Join(p) \/ Leave(p) \/ Heartbeat(p) \/ JoinAsGM(p)
  \/ \E p \in Pid : Begin(p) \/ Step(p)
  \/ VoteYes \/ CountdownRunsOut

Spec == Init /\ [][Next]_vars

-----------------------------------------------------------------------------
RoomState == {"WAITING", "ROLE_PICK", "CONFIG", "IN_GAME", "GAME_END"}
Pc == {"idle", "get", "set", "list", "gm_header", "gm_role", "split", "vs_roles", "vs_hash",
       "single_roles", "pick_room", "config", "config_room", "auto_start", "read_config",
       "start_game", "start_room", "end_game", "end_room", "lose", "clear_hash",
       "clear_roles", "clear_teams", "clear_gm", "clear_config", "reset_game", "reset_room"}
Request ==
  [pc : Pc, next : Pc, kind : Kind \cup {"touch"}, gm : Pid \cup {Nobody},
   here : SUBSET Pid, drawers : [Team -> Pid \cup {Nobody}],
   plan : [Pid -> Role \cup {"keep", "here", "away", "A", "B", "out"}],
   copy : [who : Pid \cup {Nobody}, role : Role, on : BOOLEAN]]

\* The values of the variables.  Only SINGLE rooms are ever in ROLE_PICK, so
\* that assign_roles (handle_vs_role_pick) always answers BAD_STATE.
TypeOK ==
  /\ room \in [mode : Mode, state : RoomState, gm : known \cup {Nobody},
               countdown : {"none", "running", "over"}]
  /\ room.state = "ROLE_PICK" => room.mode = "SINGLE"
  /\ role \in [Pid -> Role]
  /\ known \in SUBSET Pid /\ on \in SUBSET known
  /\ teams \in [Team -> SUBSET known]
  /\ hash \in [{"drawer", "drawerA", "drawerB"} -> known \cup {Nobody}]
  /\ secret \in Words \cup {"none"}
  /\ game \in [drawer : known \cup {Nobody}, vote : {"none", "open", "yes", "no"}]
  /\ req \in [Pid -> Request]
  /\ moves \in 0..MaxMoves /\ starts \in 0..MaxGames + 1
  /\ restored \in SUBSET known

\* Once the roles are picked they fit together until the game is over, whatever
\* records are read and written back meanwhile, and however starts and ends
\* overlap: the GameMaster is nobody else's role and on no team, each team has its
\* members and its one drawer, the drawer of a SINGLE game is the one the roles
\* hash names.  Only in a record that was written back with a role that had been
\* changed can there be another role.
RolesFit ==
  LET gm == room.gm
      Told == known \ restored
  IN ~UnderWay({"pick", "over"}) =>
  /\ room.mode = "VS" /\ room.state \in {"CONFIG", "IN_GAME"} =>
       /\ gm \in known /\ \A q \in Told : role[q] = "gm" <=> q = gm
       /\ gm \notin teams["A"] \cup teams["B"] /\ teams["A"] \cap teams["B"] = {}
       /\ \A t \in Team : /\ Cardinality(teams[t]) >= MinTeam
                          /\ hash[DrawerOf[t]] \in teams[t]
                          /\ \A q \in Told : role[q] = DrawerOf[t] <=> q = hash[DrawerOf[t]]
  /\ room.mode = "SINGLE" /\ room.state \in {"ROLE_PICK", "CONFIG", "IN_GAME"} =>
       /\ gm \in known /\ \A q \in Told : role[q] = "gm" <=> q = gm
       /\ hash.drawer \in known \ {gm}
       /\ hash.drawer \in Told => role[hash.drawer] = "drawer"
       /\ room.state = "IN_GAME" => game.drawer = hash.drawer

\* A room in CONFIG with a word can be started: neither the GameMaster nor the
\* countdown is refused because of who has come or gone since the role pick, unless
\* a role was written back that had been changed.
ConfigStartable ==
  Movers = {} /\ room.state = "CONFIG" /\ secret = "word" /\ restored = {}
    => MayStart(room.gm) /\ Ready(room.gm)

\* _should_show_secret
SeesWord(p) ==
  p = room.gm \/ role[p] \in {"gm", "drawer", "drawerA", "drawerB"}
  \/ \E d \in DOMAIN hash : hash[d] = p

\* No player who may guess is shown the secret word, also when the roles were
\* picked again while a former drawer was away, unless the role is one that was
\* written back after it had been changed.
GuesserDoesNotSeeWord ==
  secret # "none" =>
    \A p \in known \ restored : role[p] \in Guessing => ~SeesWord(p)

\* A game that runs is left for GAME_END only: a start by the countdown and one
\* by the GameMaster, however they overlap, do not take it back.
GameNotInterrupted ==
  [][room.state = "IN_GAME" => room'.state \in {"IN_GAME", "GAME_END"}]_room

\* "GM starts game with start_game": a word that set_round_config has accepted
\* is read back as the word it was.
WordIsEnough ==
  [][\A p \in Pid : ReadConfig(p) /\ secret \notin {"none", "blank"}
       => req'[p].pc = "start_game"]_vars
=============================================================================
