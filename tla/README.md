# A TLA+ model of the DrawGuess backend

DrawGuess is a multi-player drawing game. Its backend is a FastAPI process that
holds a WebSocket per player and keeps everything it knows about a room in
Redis. This directory holds TLA+ modules that model its game logic, the TLC
configurations that check them on small rooms, and proofs, checked by TLAPS,
that hold for rooms of every size. `src/app` is the program; all paths below are
relative to `src/`.

## 1. The system

### 1.1 How the program runs

* One coroutine per WebSocket (`app/transport/ws.py`, `ws_room`) receives a
  message, calls `dispatch_message`, sends the answers, and receives the next.
  The messages of one connection are therefore handled in order, one at a time.
* Handlers of different connections interleave at every `await`, which in practice
  means at every Redis command. Redis executes a single command atomically; nothing
  groups several commands but one Lua script (a stroke of a VS budget) and four tables
  of `asyncio.Lock`.
* There is no background timer. Everything that "happens after n seconds"
  happens when some client's `heartbeat`, `snapshot`, `reconnect` or
  `phase_tick` is handled after the deadline (a *tick*).
* A handler reads the clock once (`now_ts()`, whole seconds) and the room header
  once, at its start, and uses both to the end.

A room goes WAITING -> ROLE_PICK -> CONFIG -> IN_GAME -> GAME_END -> WAITING.
Inside IN_GAME and GAME_END the `game` hash has a *phase*: DRAW, GUESS,
TRANSITION (a five second screen) and then VOTING and FINAL.

### 1.2 Components

| component | source | state it keeps | operations | model |
|---|---|---|---|---|
| VS game | `app/domain/vs/handlers_common.py`, `handlers_draw.py`, `handlers_guess.py`, `handlers_phase.py` | header `state`, `round_no`; game hash; budget hash; points | draw_op, guess, phase_tick, tick, end_vs_game | `VSGame` |
| SINGLE game | `app/domain/single/handlers_draw.py`, `handlers_guess.py`, `handlers_phase.py`, `lifecycle/handlers.py` | header, game hash, roles, points | draw_op, guess, `_auto_expire_single_game` | `SingleGame` |
| GameMaster's end_game | `app/domain/common/end_game.py` | header, game hash | end_game | `VSGame`, `SingleGame`; during the vote `VoteNext`; in every state `Lobby` |
| vote on the next game | `vs/handlers_vote.py`, `single/handlers_vote.py`, `helpers/voting.py`, `lifecycle/handlers.py` | game hash (votes_next, deadlines, outcome), header, active set | vote_next, window, reset to WAITING | `VoteNext` |
| start and configuration | `vs/handlers_config.py`, `vs/handlers_start_round.py`, `vs/rules.py`, `single/handlers_config.py`, `handlers_start.py` | round_config, header, game hash | set_config, start_game, the countdown's start | `Lobby` |
| role pick and teams | `lobby/handlers.py`, `helpers/role_pick.py`, `vs/handlers_role_pick.py`, `vs/roles.py`, `common/roles.py` | `gm_pid`, roles in player records and roles hash, team sets | start_role_pick, strip_identity | `Lobby` |
| sabotage | `vs/handlers_sabotage.py` | budget, `sabotage_*` fields of the game hash, ops | arm, use, cancel, clean-up of a leaving player | `Sabotage` |
| life cycle of a room | `lifecycle/handlers.py` | header, player records, active set | create, join, leave, reconnect, snapshot, heartbeat | each in the module whose state it changes; not the clearing of the drawing |
| moderation | `moderation/handlers.py` | player records | kick, mute, warn | `Players` |
| store | `store/redis_repo.py`, `redis_keys.py`, `models.py` | the Redis keys of a room | HSET, HGET, Lua scripts, TTLs | through the operations that use it; the read and write back of player records in `Players` and `Lobby` |
| transport | `transport/ws.py`, `ws_manager.py`, `dispatcher.py`, `protocols.py` | the registry of sockets | receive loop, dispatch, broadcast, close | `Players` |
| admin | `transport/admin.py` | all keys of a room | list, close | `Players` |
| fsm, op validation, old round end | `common/fsm.py`, `ops.py`, `validation.py`, `end_round.py` | none | pure functions | no: never called, or data only |

### 1.3 How the components interact

The components share the Redis keys of a room and nothing else, apart from the
locks: `_ROOM_VS_END_LOCKS` (end_vs_game), `_ROOM_SINGLE_TIMEOUT_LOCKS`
(`_auto_expire_single_game`), `_ROOM_VOTE_LOCKS` (vote_next in SINGLE) and
`_ROOM_SABOTAGE_LOCKS` (sabotage), each in the memory of the one process. Taking
a stroke of a VS budget is an atomic Lua script. Everything else that reads and
then writes is several commands.

The games start where `handle_*_start_game` leaves the room, and end in
`end_vs_game`, `_finish_single_game` or `handle_end_game`, which open the vote.
The vote ends in FINAL or in the reset to WAITING, from which role pick and
configuration lead to the next start.

### 1.4 What is hard in it, and what makes each part correct

* *Read, decide, write.* The header and the game hash are read at the start and
  written at the end of a handler; other handlers run between. The VS guess, the
  VS vote and the SINGLE guess are of this form. Correct: what a handler writes
  does not undo what another has recorded meanwhile (`OneGuessPerTeam`,
  `CorrectGuessWins`, `FirstCorrectGuessWins`, `NoVoteLost`).
* *Several ticks at once.* Every client sends a heartbeat each second, so a
  deadline is usually found passed by several handlers together. Correct: the end
  of a game is scored once and for the right people (`ScoredOnce`,
  `PaidTeamGuessed`, `WinnersPaid`, `EndAgreesWithScore`), and a phase that is
  entered twice does not hand out strokes twice (`StrokesPerWindow`,
  `StrokesPerGame`, `DrawWindowNotCutShort`).
* *Several writes for one change.* A phase is the game hash, the budget hash and
  the header, three commands; the end of a game is the points, the game hash and
  the header. Correct: what is seen in between does no harm
  (`NoWinnerOnlyAfterLastRound`, `EndReachesVoting`, `EndOpensVote`).
* *The GameMaster's end_game* takes no lock and asks nothing of the room's state,
  so it meets all of the above (`GameNotInterrupted`, `ImplementsResult`).
* *Votes against clocks.* A vote may be answered while the window closes or the
  room is already on its way back (`OutcomeStands`,
  `ResetNeedsMajority`).
* *One record, many writers.* A player record is one JSON value: to change one
  field, a handler reads it whole and writes it back. Correct: a kick and a point
  outlast everything else that is written (`KickedStayOut`, `PointsKept`), and
  presence, which is written by everybody, comes right in the end
  (`PresenceHeals`). A role that is written back after it was changed is wrong
  until the next one is written; nothing else may go wrong with it (`RolesFit`).
* *Two sockets, one pid.* A reconnect takes over the pid while the old socket is
  still there; its end must not undo the new one (`RegistryTrue`, `Listening`). A client
  that is gone before its `hello` is sent never gets to the clause that cleans up.
* *Roles in four places*: `gm_pid`, `role` of each record, the roles hash and the team
  sets, written by a role pick one after the other, between the commands of players
  who come and go. Correct: they agree as long as anybody relies on them (`RolesFit`,
  `ConfigStartable`, `GuesserDoesNotSeeWord`).
* *A lock that covers half*: the sabotage lock orders the sabotage requests, and
  not the phases around them (`OncePerGame`, `ArmedIsKept`, `ArmedOnlyInDraw`).
* *A restart* of the process loses the locks and every handler under way, and
  keeps Redis (`ScoredOnce`, `EndAgreesWithScore`, `GameEnds` of `SingleGame`).
* *Progress.* All of it depends on clients that go on sending heartbeats
  (`GameEnds`, `VoteResolves`).

## 2. The modules

| module | what it is | extends |
|---|---|---|
| `GameResult` | what a game promises about its result: the abstract specification of both games | |
| `VSGame` | a game of a VS room | instance of `GameResult` |
| `SingleGame` | a game of a SINGLE room, with restarts | instance of `GameResult` |
| `VoteNext` | the vote after a game | |
| `Lobby` | a room between its games | |
| `Sabotage` | sabotage in a VS game | `VSGame` |
| `Players` | player records, presence, sockets, moderation, closing a room | |
| `MC...` | small rooms and symmetry for TLC | the module of that name |
| `VSGameProofs`, `SingleGameProofs`, `VoteNextProofs`, `LobbyProofs`, `PlayersProofs` | the theorems, and that a SINGLE game implements `GameResult` | the module of that name |
| `SabotageProofs` | the theorems on sabotage | `Sabotage`, `VSGameProofs` |
| `VSGameRefinement` | that a VS game implements `GameResult` | `VSGameProofs` |
| `VSGameSerialProofs` | what holds of a VS game when requests are handled one at a time | `VSGameProofs` |

All six specifications of the program are built in the same way.

* *One action is one Redis command that reads or writes what another handler
  writes.* A handler is a sequence of actions; `req[p]` says where the handler of
  connection `p` is (`pc`) and holds what it has read and not yet used. A command
  that only touches what nobody else writes during the phase (`last_activity`, the
  TTL, the configuration of a running game) takes no step of its own.
* *One connection, one request at a time*: an action `Begin...` needs
  `req[p].pc = "idle"`.
* *Time.* A deadline field is the number of seconds it is still away. `ClockTick`
  lowers it, and raises the age of every request under way, because a handler
  goes on with the time stamp it took at its start: it sees a deadline `d` as
  `d + age`, and a deadline it sets `sec` seconds ahead is `sec - age` away. Two
  handlers may therefore disagree on what has passed, as they do in the program.
* *Messages and texts* are reduced to what the decisions use: a guess is right
  or wrong, a vote is yes or no, a stroke costs one.
* *Locks* are variables with the holder's pid.

### 2.1 VSGame

A game of a VS room from handle_vs_start_game to GAME_END.

| model | code |
|---|---|
| `room`, `game`, `budget`, `points`, `lock` | header `state`/`round_no`, game hash, budget hash, `points` of the player records, `_ROOM_VS_END_LOCKS[room]` |
| `game.left` | `draw_end_at`, `guess_end_at` or `transition_until`, whichever belongs to the phase |
| `game.guess` | `team_guessed` and `team_guess_result`, which are always written together |
| `game.trans`, `req[p].pend` | the `transition_*` fields, stored and on their way |
| `BeginTick` .. `SetRound` | `auto_advance_vs_phase` as heartbeat, snapshot and phase_tick call it, with `enter_vs_transition`, `enter_vs_guess_phase` and the three writes of `enter_vs_draw_phase` |
| `DrawRead`, `Stroke` | `handle_vs_draw_op`, the Lua script, then `Advance` |
| `GuessRead`, `GuessWrite` | `handle_vs_guess`, then `EnterTransition` |
| `EndCheck`, `Award`, `Pay`, `EndGame`, `EndRoom` | `end_vs_game` under its lock: who is to be paid, a point for one of them after the other (`req[p].owed` are those left), the vote, the room |
| `BeginGMEnd`, `GMEndGame`, `GMEndRoom` | `handle_end_game` |
| `hits`, `used`, `top` | history: teams that have guessed right, strokes drawn in the round, the highest round shown |

### 2.2 VoteNext

The vote in both modes (`Mode`), the ticks that close it and take the room back,
players who leave and return, and the next game as one step to the next vote.

| model | code |
|---|---|
| `state`, `gm`, `game`, `active`, `lock` | header `state`; that `gm_pid` is set; `phase`, `votes_next`, `vote_end_at`, `reset_to_waiting_at`, `vote_outcome`; the active set; `_ROOM_VOTE_LOCKS[room]` |
| `BeginVote` .. `ResolveVote` | `handle_vs_vote_next` and `handle_single_vote_next` with `record_vote_all_active` |
| `Window` .. `WindowResolve` | `_auto_resolve_vs_vote_window`, `_auto_resolve_single_vote_window` |
| `Reset`, `ResetGame`, `ResetRoom` | `_auto_reset_vs_to_waiting_after_vote_yes` and its SINGLE twin |
| `BeginEnd`, `EndGame`, `EndRoom` | `handle_end_game`, sent again while the room votes or is reset; `ends` counts them |
| `Leave`, `Rejoin` | `handle_leave`/`handle_disconnect`, `handle_reconnect` |
| `PlayNextGame` | what the next game leaves in these fields: `end_vs_game` keeps an old `reset_to_waiting_at`, `_finish_single_game` and `handle_end_game` clear it |
| `majority` | history: this vote has been carried by more than half |

### 2.3 SingleGame

A game of a SINGLE room. Every handler first runs `_auto_expire_single_game` (`Lock`,
`Expire`, `StartDraw`, `TimesUp`, and `Award`, `AwardDrawer`, `ClearRoles`, `EndGame`,
`EndRoom` for `_finish_single_game`); a stroke (`DrawRead`, `Stroke`) or a guess
(`GuessRead`, `GuessRole`, `GuessWrite`) goes on after it, without its lock.

`Restart` stops the server while handlers are under way and starts it again: Redis
keeps what has been written, the locks and the handlers are gone. `torn` counts the
restarts that hit the end of a game after its first point was written, between the
guesser's and the drawer's for one; each may pay the winners once more, and
`ScoredOnce` allows for exactly that. `overlap` remembers whether two requests have
been under way together, for the two properties that only hold while none have.

### 2.4 GameResult

Points are given one after the other. Whoever gets one has none yet, and all who
have one are on the same side: the members of a side that has a correct guess on
record or, if the game has run out, the GameMaster. Only after a crash in the
middle of the end (`torn`) may there be more. A room that is over stays over.
`VSGame` and `SingleGame` map their state to it and are checked to implement it
(`ImplementsResult`):

| GameResult | VSGame | SingleGame |
|---|---|---|
| `Side`, `MembersOf` | the teams and their members | the guessers, each with the drawer |
| `right` | teams with a correct guess | players with a correct guess |
| `lost` | the last round has been shown | no second of the game is left (`game.end <= 0`) |
| `over` | `room.state = "GAME_END"` | `state = "GAME_END"` |
| `torn` | never | a restart has torn the end of a game |

### 2.5 Lobby

From WAITING to a running game and back, in both modes.

| model | code |
|---|---|
| `room` | header: `mode`, `state`, `gm_pid`, `countdown_end_at` (running, over or none) |
| `role`, `hash`, `teams` | `role` of the records, the roles hash, the team sets |
| `known`, `on` | players with a record, and with `connected` in it |
| `GetRecord`, `SetRecord` | `update_player_fields` and `set_player_connected`: a record is read, and written back with one field changed; `set_team` and `clear_team`, too |
| `req[p].plan` | the records that are still to be written, and with what, before the request goes on at `req[p].next` (`Loop`) |
| `Touch`: `Leave`, `Heartbeat`, `JoinAsGM` | `handle_leave` and `handle_disconnect`; `handle_heartbeat`, `handle_reconnect` and a join of a known player; the same for the GameMaster, who gets its role back |
| `BeginPick` .. `PickRoom` | `handle_start_role_pick`, `auto_assign_vs_roles`, `assign_single_roles` |
| `BeginConfig`, `WriteConfig`, `ConfigRoom` | `handle_vs_set_round_config`, `handle_single_set_round_config` |
| `BeginStart` .. `StartRoom` | `handle_vs_start_game`, `handle_single_start_game`; `AutoStart` is `_auto_start_from_countdown` |
| `BeginEnd`, `EndGame`, `EndRoom` | `handle_end_game`, in whatever state the room is |
| `BeginOver` | the game's own end: `_finish_single_game` clears the roles, `end_vs_game` does not |
| `VoteYes`, `BeginLost`, `Lose` | the vote, which `VoteNext` models in full; a lost one in VS clears everything first |
| `BeginReset`, `ClearHash` .. `ResetRoom` | `clear_all_roles`, `strip_identity` and the resets to WAITING in both modes |
| `restored` | history: the players whose role was last changed by a handler that was to change something else, or to give the GameMaster its role back |

`Overlapping` names the kinds of request that may be under way together; a kind that
is not in it runs alone among those that move the room along. The handlers that only
mark a player as connected or not (`Touch`) are in none of these kinds: they come
between any two commands of any request, as they do in the program. A word is a
`"word"`, a `"blank"`, or a `"number"` that comes back from the store as something
other than a string.

### 2.6 Sabotage

`Sabotage` extends `VSGame`: its actions and those of `VSGame` share the room, the
phases, the budgets and the connections, so that a connection has one request
under way, of either kind. `Lock` .. `Mark` are the handlers of
`handlers_sabotage.py`, `slock` is `_ROOM_SABOTAGE_LOCKS[room]`, `sab` the
`sabotage_*` fields. A request that finds the DRAW window over, or that is
done, runs `auto_advance_vs_phase`: it goes on with the actions of `VSGame`, still
holding the lock (`Leaves` lets it go). `OtherStep` adds to the actions of
`VSGame` that a phase they enter disarms.

### 2.7 Players

| model | code |
|---|---|
| `rec`, `active` | the players hash (`connected`, `kicked`, `points`), the active set |
| `reg`, `link[s].pid` | `WSManager._rooms[room]`, the variable `pid` of the coroutine of socket `s` |
| `link[s].st` | the socket is new, registered and about to be sent its hello, in the receive loop (`"open"`), ended, or lost at the hello |
| `Connect`, `Hello` | `wsman.add`, then the send of the hello; both come before the `try` of `ws_room`, so if the send raises, `finally` does not run |
| `link[s].shut` | the server has closed the socket; its coroutine has not noticed yet |
| `room` | the header: there, deleted, or brought back with one field by an HSET |
| `GetRecord`, `SetRecord`, `SetActive` | `set_player_connected` and `update_player_fields`, command by command |
| `Reconnect` | `replace_pid` in `ws_room`, then `handle_reconnect` |
| `Drop`, `Raise`, `Remove` | WebSocketDisconnect with `handle_disconnect`, any other exception, and the `finally` clause of `ws_room` |
| `Moderate`, `Award` | kick and warn of `handle_moderation`; a point given by a game's end |
| `CloseRoom`, `CloseNext`, `Close`, `Unregister` | the administrator's `close_room`, and `close_pid` |

## 3. What is checked

Passing runs:

| run | checks | room and bounds |
|---|---|---|
| `VSGameSafety` | `TypeOK`, `ScoredOnce`, `PaidTeamGuessed`, `WinnersPaid`, `NoWinnerOnlyAfterLastRound`, `GameEnds`, `ImplementsResult` | two rounds, GM, two guessers of one team and one of the other connected (the drawers' strokes are in `VSGameSerial`), two requests at once; 1.5 million states |
| `VSGameSerial` | `CorrectGuessWins`, `StrokesPerWindow`, `OneGuessPerTeam`, `DrawWindowNotCutShort`, `EndReachesVoting` | all six connected, two strokes, one request at a time |
| `VoteSingle` | `TypeOK`, `NoVoteLost`, `ResetNeedsMajority` | SINGLE, three players, a vote each after every end, one end_game sent again, two requests at once; 6.5 million states |
| `VoteLive` | `VoteResolves` | VS, two players, one end_game sent again, two requests at once |
| `SingleSafety` | `TypeOK`, `ScoredOnce`, `EndAgreesWithScore`, `StrokesPerGame`, `FirstCorrectGuessWins`, `EndOpensVote`, `GameEnds`, `ImplementsResult` | two guessers, two requests at once, one restart; 0.5 million states |
| `Lobby` | `TypeOK`, `RolesFit`, `ConfigStartable`, `GuesserDoesNotSeeWord`, `GameNotInterrupted` | both modes, four players, one join, leave or heartbeat, one game; two requests at once, one of them a join, leave or heartbeat or both starts and ends; 1.5 million states |
| `Sabotage` | `SabTypeOK`, `OncePerGame`, `ArmedOnlyInDraw`, `ArmedIsKept` | one round, GM and both drawers connected, two strokes, a window of two seconds and a sabotage armed for one, two requests at once; 3.8 million states |
| `Players` | `TypeOK`, `RegistryTrue`, `KickedStayOut`, `PointsKept`, `PresenceHeals` | the GameMaster and two sockets that come, go and take over a pid, any of which may fail at its hello, two requests at once except for kicks and points; 0.7 million states |

`VSGameSerial` shows that the rules of the guides hold when handlers do not
overlap. The following runs find a statement of the documentation broken; each comes
with a finding in `PROJECT.json`.

| run | statement | how it breaks |
|---|---|---|
| `VSGameLostWin` | a correct guess ends the game | a correct guess of one team is written, then the guess of the other team, which both sees the first and is the last of the round, puts the NO_WINNER screen over it |
| `VoteReversed` | the outcome of a vote | phase stays VOTING after a YES; a NO of a player who has come back resolves the vote again. One request at a time |
| `NumberWord` | the GameMaster starts the game | the word 1984 is read back from Redis as a number; `.strip()` raises in start_game, and in every heartbeat once the countdown has run out |
| `Deaf` | reconnect restores the player's connection | the old socket ends after the new one has taken over its pid, and takes the new one's registry entry with it. One request at a time |

### 3.1 What breaks when more may overlap

Some properties hold only while certain handlers do not overlap. The runs are
set where they hold; this is what TLC shows beyond, and how to see it.

* `VSGameSerial` with `MaxInFlight = 2`: two ticks both enter DRAW, and the
  second refills a budget that has been used (`StrokesPerWindow`); a tick that
  read the phase before end_game writes TRANSITION over VOTING, where nothing but
  another end_game leads out (`EndReachesVoting`); two guessers of a team both
  read the hash before either writes (`OneGuessPerTeam`); a tick takes the budget
  of the round before for that of the new window (`DrawWindowNotCutShort`).
* `VoteSingle` with `Mode = "VS"`, which takes no lock: a YES of the last vote
  writes `reset_to_waiting_at` after the reset, and the next VOTING starts
  with it (`ResetNeedsMajority`); votes are lost (`NoVoteLost`).
* `SingleGame` states `FirstCorrectGuessWins` and `EndOpensVote` for games whose
  handlers have not overlapped (`~overlap`); without that premise a second
  correct guess replaces the winner of the first, and a tick puts the TIMEOUT
  screen over the VOTING of end_game.
* `Lobby` excludes one thing by a history variable, `restored`, and not by
  forbidding an overlap, since nothing in the program forbids it: a heartbeat, join
  or leave (`lifecycle/handlers.py:934`, `:770`, `:973`) that reads a record before
  a role pick or `strip_identity` writes it, and writes it back after, brings the
  old role back. Without `restored` in the properties TLC shows that a team then has
  no drawer or a second one, that nobody or two are the GameMaster by their records
  (`RolesFit`), that start_game is refused (`ConfigStartable`), and that the
  player the roles hash names as the drawer has the record of a guesser and is
  shown the word (`GuesserDoesNotSeeWord`). In a SINGLE room whose GameMaster's
  record lost `"gm"` so, no configuration and no start is accepted until it joins again
  (the GameMaster's join writes the role; its heartbeat does not) or roles are
  picked again. What is checked and proved is that this is all: whoever
  has not been restored has the role that fits, whatever was written back for
  others.
* `Lobby` with `"config"` in `Overlapping`: a set_config under way while the
  countdown starts the game writes CONFIG over IN_GAME (`GameNotInterrupted`).
  With `"pick"`: two role picks each choose a GameMaster (`RolesFit`), and the
  drawer of one is a guesser of the other (`GuesserDoesNotSeeWord`).
* `VoteNext` shows what an end_game does that overlaps a reset: the reset still clears
  the phase after the new vote was opened, and end_game still writes GAME_END after
  the reset wrote WAITING. The room is then in GAME_END with no phase and no
  GameMaster, where votes are answered with BAD_PHASE and nothing leads out.
  `VoteResolves` holds all the same, because the room has passed through WAITING; it
  says nothing of the GAME_END without a phase that follows.
* `Players` has a socket whose hello could not be sent keep its registry entry, as
  the code does: `RegistryTrue` allows a dead entry for such a socket only, under
  the pid it was accepted with. The comment at `transport/ws_manager.py:66`, that
  `ws.py` will clean up on disconnect, is not true of it.
* `Players` with `"kick"` and `"ban"` (the two halves of a kick) in
  `Overlapping`: a heartbeat or join that has read the record before a kick writes
  it back after, and the player is in again (`KickedStayOut`). With `"award"`:
  the same handlers write back the points from before (`PointsKept`). `TypeOK`
  and `RegistryTrue` hold with everything overlapping (4.1 million states).
* `Sabotage` states `ArmedOnlyInDraw` while no two requests have been under way
  together (`~mixed`): the sabotage lock does not cover the phases, and a request
  that has looked at the phase arms after it is over.

### 3.2 The bounds, and why they are enough

* `MaxInFlight`: handlers under way at once. Every race found needs two: one
  that has read, one that writes. More only add handlers that repeat a part of
  one of the two; the proofs of section 4 need no bound.
* `Overlapping` (`Lobby`, `Players`): see 3.1.
* `Lobby` writes player by player, so rooms are kept small: four players, of whom
  three (VS) or two (SINGLE) are enough, instead of five and three, and a team needs
  one member instead of two. A player may still be away while roles are picked, one
  team is larger than the other or not, and a SINGLE game has a guesser and somebody
  who was away; players are interchangeable and a symmetry set. One
  `MaxMoves` is one handler that reads a record before and writes it back after
  any commands of another. `MaxGames = 1`: after the game the room goes through the
  vote and the reset, and what they leave is that of any later game; a SINGLE room
  picks its roles any number of times before its game. Lost votes and resets run
  alone in it: that they may overlap as well, any number of players, moves and games, is
  `LobbyProofs`, whose hypothesis is weaker than the setting of the run.
* `VSGameSafety` connects two guessers of team A and one of team B, so that a team is
  paid in two steps.
* `MaxEnds = 1`: one end_game that meets the vote of a game, or its reset.
* `MaxRestarts = 1`: one restart tears a game's end; a second does the same again.
* `Players`: `Watched` is the one pid that is taken over, kicked and given a point,
  by its own sockets or others; two `Unsteady` sockets are an old and a new one
  of the same player. The GameMaster's socket stays. The room is a SINGLE one: in VS,
  leave and drop also end a sabotage (`Sabotage`).
* `MaxDelay = 1`: a handler may be a second old, which lets two handlers
  disagree on every deadline. Durations of a second (`DrawSec`, `GuessSec`,
  `TransitionSec`, `VoteSec`, `ResetSec`) let a deadline be ahead, just reached
  and past; a deadline `MaxDelay` past is past for everyone and counted no further.
* `MaxRounds = 2`: a first round that leads to DRAW and a last that does not. One
  round in `Sabotage`, whose property is about a game and not its rounds.
  `StrokeLimit` 1 or 2: the last stroke, and one before.
* `MaxVotes`: votes a client sends in one vote, and again in the vote that end_game
  opens; with two of them, so that it can change its mind, and no end_game in
  between (`MaxVotes = 2`, `MaxEnds = 0`) the properties of `VoteSingle` hold as well.
  The proofs take any number.
* History counters (`used`, `drawn`) stop one above their limit.

### 3.3 Fairness

`FairSpec` assumes weak fairness of the clock and of every step of a request under
way: an `await` on Redis returns, and the event loop runs every coroutine that is
ready. It assumes strong fairness of beginning a tick, for the clients together and
not for each: clients send a heartbeat each second, and a connection handles its queue
in order, so a tick that is possible again and again is begun. In `SingleGame` it is
assumed of the heartbeats of `Beating`, in `Players` of the heartbeat of each socket
that goes on. `SingleGame` assumes strong fairness of `Lock(p)`, since `asyncio.Lock`
wakes its waiters first come, first served. No fairness is assumed of strokes,
guesses, votes, leaving, returning or end_game. `VoteResolves` is conditional on
somebody being there again and again: with nobody connected nothing runs; and a
GameMaster who sends end_game for ever opens a new vote each time, so it sends
`MaxEnds` at most; `PresenceHeals` is about a socket that stays and whose player
nobody makes leave. A restart is never forced, and at most `MaxRestarts` happen: a
server that stops again and again ends nothing. `Lobby` and `Sabotage` assume no
fairness.

## 4. What is proved

The proofs hold for all values of the constants that satisfy the assumptions
`RolesAssumption`, `ConfigAssumption`, `SingleAssumption`, `ArmAssumption`,
`VoteAssumption`, `LobbyAssumption` and `PlayersAssumption`: any teams, guessers,
rounds, strokes, durations, players and sockets, and any number of requests in
flight and of restarts. `LobbyAssumption` takes a finite set of players, and of
the numbers in the code (5 and 3 players, teams of 2) only that a team needs a
member and that the fewest players are more than two teams, or more than one
player: with less, the players that are left when the GameMaster is out would not
fill the teams, or there would be nobody to draw.

Every safety property that a passing run checks is stated by a theorem. Where a
property holds only as long as certain handlers do not overlap (section 3.1), so
does its theorem, with that as a hypothesis of its own and no other handlers
excluded.

`VSGameProofs` and `VSGameRefinement`:

| theorem | states |
|---|---|
| `TypeCorrect` | `Spec => []TypeOK` |
| `GameScoredOnce` | `Spec => []ScoredOnce` |
| `OnlyGuessersPaid` | `Spec => []PaidTeamGuessed` |
| `WinnersAlwaysPaid` | `Spec => []WinnersPaid` |
| `NoWinnerNeedsLastRound` | `Spec => []NoWinnerOnlyAfterLastRound` |
| `ImplementsGameResult` | `Spec => ImplementsResult`: a VS game implements `GameResult` |

1. `Typed` is `TypeOK` and `DrawPending`: a request inside `enter_vs_draw_phase`
   carries a transition to DRAW, so the round it writes is at least 1.
   `TypeOK` alone is not inductive, since a transition may have round 0.
2. `Scoring` adds to `ScoredOnce` that whoever is past the check of `end_vs_game`
   holds the lock (`EnderHoldsLock`) and that once something is paid, the room is
   in GAME_END or the payer still has the lock (`PaidThenEnded`). That is the
   reason for checking the header again under the lock. `PaidInTurn` says whom a
   payer has left: those it owes a point have none, and the others of the side it
   pays have theirs. From it follow that nobody is paid twice by one payer, and
   `WinnersAlwaysPaid`: the result is written when nobody is left. The GameMaster's
   end_game can only move the room to GAME_END, which keeps it.
3. `Honest` says that every transition, on the screen or on its way, is `Sound`:
   one that credits a team credits one with a correct guess, and one that says
   NO_WINNER was decided when the last round had been shown; and that no round
   number in a request is above the highest shown. So `Award` and `Pay`, which believe
   the transition they are given, pay the right people, however old it is.
4. The refinement: under `Typed`, `Scoring` and `Honest` every step is one of
   `GameResult` or leaves its variables alone (`StepRefines`). `Pay` is the step
   that needs all three: whoever it pays has no point, those who have one are on the
   same side (`Scoring`), and that side
   has guessed right or the last round has been shown (`Honest`).

`VSGameSerialProofs`, each with the hypothesis `MaxInFlight = 1`:

| theorem | states |
|---|---|
| `SerialGuessWins` | `Spec => []CorrectGuessWins` |
| `SerialStrokesBounded` | `Spec => []StrokesPerWindow` |
| `SerialOneGuess` | `Spec => OneGuessPerTeam` |
| `SerialWindowKept` | `Spec => DrawWindowNotCutShort` |

These are the promises of the guide, which two overlapping requests can break.
The hypothesis is about requests and not about the room: rounds, strokes,
windows, teams and stale clocks are as they like, and a request still is several
commands. The inductive invariant `Serial` says that one request at most is under
way, and that what it has read still holds: header and game hash have the same
round but between two of the writes of `enter_vs_draw_phase`, and a transition to
DRAW leads to the next one (`RoundsGood`); the strokes drawn and those left are
`strokes_per_phase`, but while a budget is about to be refilled (`StrokesGood`);
the results a guess writes back are the stored ones (`GuessesGood`); and after a
correct guess nothing else is shown or under way than the end it leads to
(`WinGood`). The last one is what overlapping breaks: phase stays GUESS until the
request that guessed right has written its screen, and in between only it may run.

`SingleGameProofs`:

| theorem | states |
|---|---|
| `TypeCorrect` | `Spec => []TypeOK` |
| `ScoredOnceOrTorn` | `Spec => []ScoredOnce` |
| `ResultIsPaid` | `Spec => []EndAgreesWithScore` |
| `StrokesBounded` | `Spec => []StrokesPerGame` |
| `ImplementsGameResult` | `Spec => ImplementsResult`: a SINGLE game, restarts included, implements `GameResult` |
| `FirstGuessDecides` | `Spec => []FirstCorrectGuessWins` |
| `EndIsVote` | `Spec => []EndOpensVote` |

One inductive invariant, `Inv`, carries the first five. None of them is inductive
alone: the types of the strokes need to know that a stroke writes back what is
still there, and the score needs to know who may still give points.

1. `EndSound(p)` is what a request on the way to the end relies on. Past the test
   of the header it holds the lock; until it has paid, nobody has been paid since
   the last restart that cut an end short (`Open`); the transition it carries
   names a guesser with a correct guess, or the time was up (`Sound`), though the
   screen may have changed since; and what it has paid is what that transition
   says (`Winners`).
2. `PaidThenEnded`: once the game is paid, the room is in GAME_END or whoever paid
   is about to end it. So the header read again under the lock shows an unpaid
   game (`LockKeeps`). A restart takes the payer away with its lock; that is when
   `torn` counts, and the bound of the points with it (`RestartKeeps`).
3. `PlaySound(p)` and `StrokesAddUp`: what is drawn and what is left add up to the
   limit at most. `draw_op` writes back a counter it has read without a lock; that
   is safe because only the one drawer writes it, the refill belongs to the ROUND
   START screen, and during that screen no stroke is under way (`StartKeeps`).
4. The refinement: under `Inv` every step is one of `GameResult` or leaves its
   variables alone. `Award` and `AwardDrawer` are the steps that need it all
   (`AwardPays`, `DrawerPays`). The GameMaster is paid only when `game.end <= 0`: a
   handler of age `a` sees a deadline as past `a` seconds late, never early, because
   the clock it took is older than the one of the deadline.
5. The last two are about games without overlaps; their second invariant is
   `Orderly`: until two requests have overlapped one is under way at most, and
   what it is about to write and what is stored agree. Nothing is shown or decided
   before the first correct guess; afterwards whatever is shown, carried or
   recorded names its guesser (`FirstGood`). A room is told of an end only when
   its vote is open, and nothing but another end_game follows (`VoteGood`). A
   restart may still cut any of this short: it takes the one request away.

`SabotageProofs`:

| theorem | states |
|---|---|
| `SabotagedOnce` | `SabSpec => []OncePerGame` |
| `ArmedStays` | `SabSpec => ArmedIsKept` |
| `SabTypeCorrect` | `SabSpec => []SabTypeOK` |
| `ArmedInDraw` | `SabSpec => []ArmedOnlyInDraw` |

The handlers of `VSGame` enter only by what they cannot do: they move one request,
which stays outside the part the sabotage lock guards, and change the sabotage only by
disarming it (`OtherMoves`, `OutsideBooked`). The inductive invariant `Booked` says
that whoever is inside holds the lock (`InsideHoldsLock`), that what it has found out
is still so when it is used (`StillSo`: the team has not used its sabotage,
`sabotage_used` is as it was read, what it took for expired is not running), and that
a stroke that is paid is booked or about to be, by whoever holds the lock
(`PaidIsBooked`). From the last two a team that is about to pay has never paid before.
`Shaped` is as much of the types as this takes; it says nothing of the rounds, budgets
and transitions. Those are `SabTyped`, for which the steps of `VSGame` keep what
`VSGameProofs` shows of them; `DrawersArm` is its content: whoever has a sabotage, or
is about to arm it, draws. `ArmedInDraw` has a third invariant, `InDraw`: until two
requests overlap, the request under way is alone, so the phase it has read is still on
when it arms, and a phase that is entered disarms. The GameMaster's end_game is the
exception the property names: it writes VOTING and leaves the sabotage armed.

`VoteNextProofs`:

| theorem | states |
|---|---|
| `TypeCorrect` | `Spec => []TypeOK`, with deadlines never further off than the code sets them |
| `SingleKeepsVotes` | in SINGLE, `Spec => NoVoteLost` |
| `SingleResetNeedsMajority` | in SINGLE, `Spec => []ResetNeedsMajority` |

`SingleKeepsVotes` rests on `Locked` (whoever is inside vote_next holds the lock)
and `Current` (what the holder has read still holds every vote that is stored):
the window changes no vote, the reset only wipes them, and end_game, which takes no
lock, opens a vote without any (`EndMoves`, `EndTyped`).
`SingleResetNeedsMajority` rests on `Carries`: a set `reset_to_waiting_at`, and a
tick past its test, mean that this vote was carried. Both are proved for SINGLE
because they are false for VS, as section 3.1 shows: VS has
no lock, and `end_vs_game` does not clear `reset_to_waiting_at`.

`LobbyProofs`:

| theorem | hypothesis | states |
|---|---|---|
| `TypeCorrect` | none | `Spec => []TypeOK` |
| `NoGuesserSeesTheWord` | `Harmless` | `Spec => []GuesserDoesNotSeeWord` |
| `RolesAlwaysFit` | `Harmless` | `Spec => []RolesFit` |
| `AlwaysStartable` | `Harmless` | `Spec => []ConfigStartable` |
| `NoGameInterrupted` | `Harmless` | `Spec => GameNotInterrupted` |

`Harmless` is the hypothesis `Overlapping \subseteq Harmless`: role picks and
configurations overlap no other request that moves the room along, while starts,
ends, lost votes and resets may overlap. It says nothing of joins, leaves and
heartbeats, which come between any two commands of all of these.

1. `Typed` is `TypeOK` and that whom a handler has counted is known. It holds
   whatever overlaps.
2. `Shaped` follows a request: where it may be (`Belongs`) and what it may still
   have to write there (`Writes`). `Together` turns the hypothesis, and what the
   guards ask of the state, into which kinds may be under way at once.
3. The loops over the players are the hard part: while one runs, the records are
   half old and half new. `Sound(p)` is therefore stated about the roles and teams
   that the records still to be written lead to (`Will`, `WillTeam`), and about the
   players of whom this is certain (`Certain`): those the request is still to write,
   and those whose role nobody has restored. So a single `SetRecord` changes
   nothing of what a pick, a strip or a reset is going to leave, and neither
   does one of a heartbeat except for the player it restores (`RecordSound`).
4. `StateSound` says for each state of the room who plays what when no such loop is
   running: nobody is anything in WAITING (`Clear`); from the pick to the end of the
   game one known player is the GameMaster, the drawers are who the hash says, and in
   VS both teams have enough members (`Staffed`); no guesser is the GameMaster or
   in the hash (`Blind`), which has drawers of the room's own mode only. That is
   why the hash of an earlier pick does no harm, and it needs that each pick writes
   the hash whole.
5. A start counts on the roles, and a reset takes them away, under the same
   hypothesis: the two do not meet because a vote that was won means that no start,
   pick or configuration is under way (section 5). That a VS room leaves `MinTeam`
   players for each team when the GameMaster is out and the rest are split evenly is a
   fact about cardinalities, and the reason for `MinPlayers["VS"] > 2 * MinTeam`.

`PlayersProofs`:

| theorem | hypothesis | states |
|---|---|---|
| `TypeCorrect` | none | `Spec => []TypeOK` |
| `RegistryAlwaysTrue` | none | `Spec => []RegistryTrue` |
| `KicksHold` | kicks overlap no other request | `Spec => []KickedStayOut` |
| `PointsStay` | awards overlap no other request | `Spec => []PointsKept` |

1. `Typed` is `TypeOK` and `Shaped`: whoever writes a record has read one that is
   there, and a point is only given to a player who has none. That is what keeps a
   record at one point though each write of it writes the points back too.
2. `Registered`: an entry of the registry is a socket that answers for that pid
   (`Entry`), and one that has not got to its receive loop, or never will, answers for
   the pid it was accepted with. Both depend on `replace_pid` and `remove` taking the
   old entry out in the same step.
3. `KickedOut`: of a player who is out nothing is active (`OutSound`), and whoever
   is about to write its record has read that it is kicked (`KickSound`). A join
   that adds a record cannot be of that player, since its record is there as long
   as the room is. The hypothesis is what makes what the kick itself has read
   still true at its next step.
4. `Pointed` is the same for points: whoever writes the record of a player with a
   point has read the point (`WriteSound`).

`Alone` and its lemmas turn the two hypotheses into what the state shows. Each is
weaker than the setting of the run, where neither kicks nor points nor warnings
overlap: warnings may, and `KicksHold` lets points overlap, `PointsStay` kicks.

Only model-checked: the liveness properties `GameEnds`, `EndReachesVoting`,
`VoteResolves` and `PresenceHeals` (liveness under fairness and ENABLED are outside
what the prover does), and that `CorrectGuessWins`, `OutcomeStands`, `WordIsEnough`
and `Listening` are broken in the runs that show it. No module uses RECURSIVE
operators.

## 5. Abstractions, and what is not modelled

* The server restarts in `SingleGame` only. In VS a restart after the points
  and before GAME_END does what it does there: the next tick finds the same
  screen due and pays again. No Redis command fails; in `Players` an exception
  ends the coroutine of its connection, in `Lobby` a raised exception leaves the
  request undone.
* Each player who is paid is paid by a step of its own in the games; that this is
  two commands, a read of the record and a write, is in `Players`, where others write
  the record meanwhile, and a point may be lost (section 3.1). The games take
  the other writers of a record for careful ones.
* Commands that only read, and follow each other in one handler, are one action where
  no decision falls between them: the lists of players and teams in
  `auto_assign_vs_roles`, or the pipeline on the team sets and the read of the record in
  `set_team`. The loops over the players write the records in any order; the code
  has some order, which depends on when they joined.
* The `team` field of the records is not modelled: it is shown in snapshots and asked
  by the VS stroke, guess and sabotage, and goes with the team sets except where a
  record is written back, as the role does. `ClearRoles` of `SingleGame` is one step;
  record by record it is in `Lobby`.
* Drawing operations that cost no stroke act like a tick in VS, so they have no
  action. The stored operations, `clear_ops_at` and the contents of a snapshot are
  not modelled: nothing the game decides reads them.
* The expiry of Redis keys is not modelled (a room nobody has touched for the
  TTL is gone as `CloseRoom` leaves it), nor is the log of moderation.
* The votes_next Redis set is written and never read, and left out.
* `PlayNextGame` in `VoteNext` is one step, taken when nothing is in flight: it shows
  what a vote leaves for the next one. Overlaps with role pick and start are in
  `Lobby`.
* In `Lobby` a game's own end and the votes after it begin when no start, pick,
  configuration or end of that room is still under way (`BeginOver`, `Voting`): what
  comes before the end takes the seconds of a game, and the reset is two seconds
  after the vote (`reset_to_waiting_at = ts + 2`), while a handler of the start
  or the end takes a few commands. The end_game of the GameMaster and the reset
  itself may begin at any time, and overlap.
* SINGLE rooms never leave the phases TRANSITION, DRAW and VOTING while IN_GAME;
  the branches for other phases cannot be reached and have no action. Other code
  that is never reached: `auto_assign_vs_roles` keeping teams that are there (the
  pick clears them first) or leaving out the previous drawer, and
  `handle_vs_role_pick` past its test of the state, since no VS room is ever in
  ROLE_PICK (`TypeOK` of `Lobby`). `handle_set_team` answers every request with
  an error, so it changes nothing and has no action.
* During a game of `VSGame` and `SingleGame`, connections are fixed (`Online`,
  `Beating`): a disconnect only changes who is paid in VS. Players come and go
  in `VoteNext`, `Lobby` and `Players`.
* The capacity of a room is not a property: `handle_join` tests it before it adds
  the player, and a reconnect does not test it, so overlapping joins and
  reconnects may exceed it; the documents promise it for new players only.
* `common/fsm.py` is never called; `common/ops.py` and `validation.py` look at
  the shape of a drawing operation only; `end_round.py` is not dispatched to
  any more.

## 6. Plan

Done, in this order because the interleavings of a running game are what the
locks and Lua scripts of the code were written for: `VSGame`, `VoteNext`,
`SingleGame` with restarts, `GameResult` and its two refinements, `Lobby`,
`Sabotage`, `Players`; proofs of all their safety properties, with both
refinements.

Next, proofs:

1. With less excluded: which of the properties proved for `MaxInFlight = 1`, for
   `Overlapping` or before an overlap still hold when the overlapping handlers are
   of certain kinds only (`StrokesPerWindow` when ticks do not overlap,
   `EndOpensVote` when end_game does not).
2. The refinement of `GameResult` by `Sabotage`, whose steps include those of a VS
   game.

What is left of the code is output (snapshots, broadcasts, texts), stored drawing
operations and the expiry of keys.
