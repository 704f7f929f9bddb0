----------------------------- MODULE LobbyProofs -----------------------------
(***************************************************************************)
(* What holds of a room between its games for any number of players who    *)
(* come and go, of requests in flight and of games.  The types hold        *)
(* whatever overlaps.  The rest is for role picks and configurations that  *)
(* overlap no other request; joins, leaves and heartbeats come between any *)
(* two commands, and starts, ends, lost votes and resets may overlap.      *)
(***************************************************************************)
EXTENDS Lobby, FiniteSetTheorems, TLAPS

Item == Role \cup {"keep", "here", "away", "A", "B", "out"}
TeamItem == {"A", "B", "out"}

-----------------------------------------------------------------------------
(***************************************************************************)
(* What becomes of the request that moves.                                 *)
(***************************************************************************)
Moved(p) ==
  /\ req' \in [Pid -> Request]
  /\ \A q \in Pid \ {p} : req'[q] = req[q]
\* It goes on to the stage s, after the records in plan.
On(p, s, plan) ==
  /\ Moved(p)
  /\ req'[p].plan = plan /\ req'[p].kind = req[p].kind /\ req'[p].gm = req[p].gm
  /\ \/ req'[p].pc = s /\ s # "idle" /\ plan = NoPlan /\ req'[p].next = "idle"
     \/ req'[p].pc = "get" /\ req'[p].next = s
Same(p) == req'[p].here = req[p].here /\ req'[p].drawers = req[p].drawers

LEMMA Requests ==
  /\ Idle \in Request /\ NoPlan \in [Pid -> Item]
  /\ \A q \in Pid : NoPlan[q] = "keep"
  /\ Idle.pc = "idle" /\ Idle.kind = "touch" /\ Idle.gm = Nobody /\ Idle.here = {}
  /\ Idle.plan = NoPlan /\ Idle.drawers = [t \in Team |-> Nobody] /\ Idle.next = "idle"
<1>1. NoPlan = [q \in Pid |-> "keep"]
  BY DEF NoPlan, Each
<1>2. NoCopy \in [who : Pid \cup {Nobody}, role : Role, on : BOOLEAN]
  BY DEF NoCopy, Role
<1> QED
  BY <1>1, <1>2 DEF Idle, Request, Pc, Item

LEMMA Goes ==
  ASSUME req \in [Pid -> Request], NEW p \in Pid, NEW s \in Pc, Goto(p, s)
  PROVE  /\ Moved(p) /\ Same(p)
         /\ req'[p].pc = s /\ req'[p].plan = req[p].plan /\ req'[p].kind = req[p].kind
         /\ req'[p].gm = req[p].gm /\ req'[p].next = req[p].next
<1>1. req[p] \in Request
  OBVIOUS
<1> DEFINE r == [req[p] EXCEPT !.pc = s]
<1>2. /\ r \in Request /\ r.pc = s /\ r.plan = req[p].plan /\ r.kind = req[p].kind
      /\ r.gm = req[p].gm /\ r.here = req[p].here /\ r.drawers = req[p].drawers
      /\ r.next = req[p].next
  BY <1>1 DEF Request
<1>3. req' = [req EXCEPT ![p] = r]
  BY DEF Goto
<1> HIDE DEF r
<1> QED
  BY <1>2, <1>3 DEF Moved, Same

LEMMA Returns ==
  ASSUME req \in [Pid -> Request], NEW p \in Pid, Return(p)
  PROVE  Moved(p) /\ req'[p] = Idle
  BY Requests DEF Return, Moved

LEMMA PlannedIs ==
  ASSUME NEW r \in Request, NEW plan \in [Pid -> Item]
  PROVE  /\ Planned(r, plan) \in Request /\ Planned(r, plan).plan = plan
         /\ \/ Planned(r, plan) = Idle /\ r.next = "idle" /\ plan = NoPlan
            \/ /\ Planned(r, plan).kind = r.kind /\ Planned(r, plan).gm = r.gm
               /\ Planned(r, plan).here = r.here /\ Planned(r, plan).drawers = r.drawers
               /\ \/ /\ Planned(r, plan).pc = r.next /\ plan = NoPlan /\ r.next # "idle"
                     /\ Planned(r, plan).next = "idle"
                  \/ Planned(r, plan).pc = "get" /\ Planned(r, plan).next = r.next
<1>1. "get" \in Pc /\ "idle" \in Pc /\ r.next \in Pc
  BY DEF Pc, Request
<1>2. CASE plan # NoPlan
  <2>1. Planned(r, plan) = [r EXCEPT !.pc = "get", !.plan = plan]
    BY <1>2 DEF Planned
  <2> QED
    BY <1>1, <2>1 DEF Request, Item
<1>3. CASE plan = NoPlan /\ r.next = "idle"
  BY <1>3, Requests DEF Planned
<1>4. CASE plan = NoPlan /\ r.next # "idle"
  <2>1. Planned(r, plan) = [r EXCEPT !.pc = r.next, !.plan = plan, !.next = "idle"]
    BY <1>4 DEF Planned
  <2> QED
    BY <1>1, <1>4, <2>1 DEF Request, Item
<1> QED
  BY <1>2, <1>3, <1>4

LEMMA Loops ==
  ASSUME req \in [Pid -> Request], NEW p \in Pid, NEW plan \in [Pid -> Item], NEW s \in Pc,
         Loop(p, plan, s)
  PROVE  /\ Moved(p) /\ req'[p].plan = plan
         /\ \/ req'[p] = Idle /\ s = "idle" /\ plan = NoPlan
            \/ On(p, s, plan) /\ Same(p)
<1> DEFINE r == [req[p] EXCEPT !.next = s]
           n == Planned(r, plan)
<1>1. req[p] \in Request
  OBVIOUS
<1>2. /\ r \in Request /\ r.next = s /\ r.kind = req[p].kind /\ r.gm = req[p].gm
      /\ r.here = req[p].here /\ r.drawers = req[p].drawers
  BY <1>1 DEF Request
<1>3. req' = [req EXCEPT ![p] = n]
  BY DEF Loop
<1> HIDE DEF r
<1>4. /\ n \in Request /\ n.plan = plan
      /\ \/ n = Idle /\ s = "idle" /\ plan = NoPlan
         \/ /\ n.kind = req[p].kind /\ n.gm = req[p].gm
            /\ n.here = req[p].here /\ n.drawers = req[p].drawers
            /\ \/ n.pc = s /\ s # "idle" /\ plan = NoPlan /\ n.next = "idle"
               \/ n.pc = "get" /\ n.next = s
  BY <1>2, PlannedIs
<1> HIDE DEF n
<1>5. Moved(p) /\ req'[p] = n
  BY <1>3, <1>4 DEF Moved
<1> QED
  BY <1>4, <1>5 DEF On, Same

LEMMA Arrives ==
  ASSUME req \in [Pid -> Request], NEW p \in Pid, NEW kind \in Kind, NEW pc \in Pc,
         NEW gm \in Pid \cup {Nobody}, Arrive(p, kind, pc, gm)
  PROVE  /\ Moved(p) /\ p \in known /\ req[p].pc = "idle"
         /\ req'[p].pc = pc /\ req'[p].kind = kind /\ req'[p].plan = NoPlan
         /\ req'[p].gm = gm /\ req'[p].here = {} /\ req'[p].drawers = Idle.drawers
         /\ req'[p].next = "idle"
         /\ \A q \in Pid : \/ req[q].pc = "idle" \/ req[q].kind = "touch"
                           \/ {req[q].kind, kind} \subseteq Overlapping
<1> DEFINE r == [Idle EXCEPT !.pc = pc, !.kind = kind, !.gm = gm]
<1>1. /\ r \in Request /\ r.pc = pc /\ r.kind = kind /\ r.gm = gm /\ r.here = {}
      /\ r.plan = NoPlan /\ r.drawers = Idle.drawers /\ r.next = "idle"
  BY Requests DEF Request
<1>2. req' = [req EXCEPT ![p] = r] /\ p \in known /\ req[p].pc = "idle"
  BY DEF Arrive, Busy
<1> HIDE DEF r
<1>3. Moved(p) /\ req'[p] = r
  BY <1>1, <1>2 DEF Moved
<1>4. \A q \in Pid : \/ req[q].pc = "idle" \/ req[q].kind = "touch"
                     \/ {req[q].kind, kind} \subseteq Overlapping
  BY DEF Arrive, Movers, Busy
<1> QED
  BY <1>1, <1>2, <1>3, <1>4

-----------------------------------------------------------------------------
(***************************************************************************)
(* The types.                                                              *)
(***************************************************************************)
Header == [mode : Mode, state : RoomState, gm : Pid \cup {Nobody},
           countdown : {"none", "running", "over"}]
Hash == [{"drawer", "drawerA", "drawerB"} -> known \cup {Nobody}]
Game == [drawer : known \cup {Nobody}, vote : {"none", "open", "yes", "no"}]

\* Who a handler has counted or found, or is writing, is known.
Found(p) ==
  LET r == req[p] IN
  /\ r.here \subseteq known /\ r.gm \in known \cup {Nobody}
  /\ \A t \in Team : r.drawers[t] \in known \cup {Nobody}
  /\ \A q \in Pid : r.plan[q] # "keep" => q \in known
  /\ r.pc = "set" => r.copy.who \in known
  /\ r.pc = "idle" => r.kind = "touch"
  /\ r.next \notin {"get", "set"}

Typed == TypeOK /\ \A p \in Pid : Found(p)

LEMMA TypedFacts ==
  ASSUME Typed
  PROVE  /\ room \in Header /\ room.gm \in known \cup {Nobody} /\ room.mode \in Mode
         /\ room.state \in RoomState /\ (room.state = "ROLE_PICK" => room.mode = "SINGLE")
         /\ role \in [Pid -> Role] /\ known \subseteq Pid /\ on \subseteq known
         /\ restored \subseteq known /\ teams \in [Team -> SUBSET known]
         /\ hash \in Hash /\ secret \in Words \cup {"none"} /\ starts \in 0..MaxGames + 1
         /\ game \in Game /\ moves \in 0..MaxMoves
         /\ req \in [Pid -> Request] /\ \A p \in Pid : req[p] \in Request /\ Found(p)
         /\ NoTeams \in [Team -> SUBSET known] /\ NoDrawers \in Hash /\ Nobody \notin Pid
  BY LobbyAssumption DEF Typed, TypeOK, Header, Hash, Game, NoTeams, NoDrawers

LEMMA IdleFound ==
  ASSUME NEW p \in Pid, req'[p] = Idle
  PROVE  Found(p)'
<1>1. \A t \in Team : Idle.drawers[t] = Nobody
  BY Requests
<1> QED
  BY <1>1, Requests DEF Found

\* A header that is written.
LEMMA GMWritten ==
  ASSUME room \in Header, NEW gm \in Pid \cup {Nobody}, room' = [room EXCEPT !.gm = gm]
  PROVE  /\ room' \in Header /\ room'.gm = gm
         /\ room'.mode = room.mode /\ room'.state = room.state
  BY DEF Header

LEMMA StateWritten ==
  ASSUME room \in Header, NEW state \in RoomState,
         NEW countdown \in {"none", "running", "over"},
         \/ room' = [room EXCEPT !.state = state]
         \/ room' = [room EXCEPT !.state = state, !.countdown = countdown]
         \/ room' = [room EXCEPT !.countdown = countdown, !.state = state]
  PROVE  /\ room' \in Header /\ room'.state = state
         /\ room'.mode = room.mode /\ room'.gm = room.gm
  BY DEF Header

LEMMA CountdownWritten ==
  ASSUME room \in Header, room' = [room EXCEPT !.countdown = "over"]
  PROVE  /\ room' \in Header /\ room'.state = room.state
         /\ room'.mode = room.mode /\ room'.gm = room.gm
  BY DEF Header

\* Only the room's mode and the players who are known matter to the types of the rest.
LEMMA StillTyped ==
  ASSUME Typed, NEW p \in Pid, Moved(p), Found(p)', known' = known,
         on' \subseteq known, restored' \subseteq known, moves' \in 0..MaxMoves,
         room' \in Header, room'.mode = room.mode, room'.gm \in known \cup {Nobody},
         room'.state \in {room.state, "WAITING", "IN_GAME", "GAME_END", "CONFIG"}
           \/ room.mode = "SINGLE",
         role' \in [Pid -> Role], teams' \in [Team -> SUBSET known],
         hash' \in Hash, game' \in Game,
         secret' \in Words \cup {"none"}, starts' \in 0..MaxGames + 1
  PROVE  Typed'
<1>1. \A q \in Pid : Found(q)'
  BY DEF Moved, Typed, Found
<1>2. /\ room' \in [mode : Mode, state : RoomState, gm : known' \cup {Nobody},
                    countdown : {"none", "running", "over"}]
      /\ room'.state = "ROLE_PICK" => room'.mode = "SINGLE"
  BY DEF Header, Typed, TypeOK, Mode
<1>3. /\ hash' \in [{"drawer", "drawerA", "drawerB"} -> known' \cup {Nobody}]
      /\ game' \in [drawer : known' \cup {Nobody}, vote : {"none", "open", "yes", "no"}]
  BY DEF Hash, Game
<1>4. TypeOK'
  BY <1>2, <1>3 DEF Typed, TypeOK, Moved
<1> QED
  BY <1>1, <1>4 DEF Typed

\* Nothing but the request changes.
Quiet == UNCHANGED <<room, people, teams, hash, secret, game, starts>>

LEMMA QuietTyped ==
  ASSUME Typed, NEW p \in Pid, Moved(p), Found(p)',
         UNCHANGED <<room, role, on, known, restored, teams, hash, secret, game, starts>>,
         moves' \in 0..MaxMoves
  PROVE  Typed'
  BY TypedFacts, StillTyped DEF Quiet, people

LEMMA JoinTyped ==
  ASSUME Typed, NEW p \in Pid, Join(p)
  PROVE  Typed'
<1>1. /\ known' = known \cup {p} /\ on' = on \cup {p}
      /\ UNCHANGED <<room, role, teams, hash, secret, game, req, starts, restored>>
  BY DEF Join
<1>2. moves' \in 0..MaxMoves
  BY LobbyAssumption DEF Join, Typed, TypeOK
<1>3. \A q \in Pid : Found(q)'
  BY <1>1, TypedFacts DEF Found
<1>4. TypeOK'
  <2>1. /\ room' \in [mode : Mode, state : RoomState, gm : known' \cup {Nobody},
                      countdown : {"none", "running", "over"}]
        /\ room'.state = "ROLE_PICK" => room'.mode = "SINGLE"
    BY <1>1 DEF Typed, TypeOK
  <2>2. /\ teams' \in [Team -> SUBSET known']
        /\ hash' \in [{"drawer", "drawerA", "drawerB"} -> known' \cup {Nobody}]
        /\ game' \in [drawer : known' \cup {Nobody}, vote : {"none", "open", "yes", "no"}]
    BY <1>1 DEF Typed, TypeOK
  <2> QED
    BY <1>1, <1>2, <2>1, <2>2 DEF Typed, TypeOK
<1> QED
  BY <1>3, <1>4 DEF Typed

\* A handler begins that writes a connection, ...
LEMMA Touches ==
  ASSUME Typed, NEW p \in Pid, Leave(p) \/ Heartbeat(p) \/ JoinAsGM(p)
  PROVE  /\ UNCHANGED <<room, role, on, known, restored, teams, hash, secret, game, starts>>
         /\ moves' \in 0..MaxMoves
         /\ Moved(p) /\ Found(p)'
         /\ req[p].kind = "touch" /\ req'[p].kind = "touch" /\ req'[p].pc = "get"
         /\ req'[p].next \in {"idle", "gm_role"}
         /\ \A q \in Pid : req'[p].plan[q] \in {"keep", "here", "away"}
<1>1. PICK what \in {"here", "away"}, next \in {"idle", "gm_role"}, gm \in {p, Nobody} :
        Touch(p, what, next, gm)
  BY DEF Leave, Heartbeat, JoinAsGM
<1>2. /\ UNCHANGED <<room, role, on, known, restored, teams, hash, secret, game, starts>>
      /\ p \in known /\ req[p].pc = "idle"
  BY <1>1 DEF Touch, Busy
<1>3. moves' \in 0..MaxMoves
  BY <1>1, LobbyAssumption DEF Touch, Typed, TypeOK
<1> DEFINE plan == Each({p}, what)
           r == [Idle EXCEPT !.pc = "get", !.plan = plan, !.next = next, !.gm = gm]
<1>4. plan \in [Pid -> Item] /\ \A q \in Pid : plan[q] = IF q = p THEN what ELSE "keep"
  BY DEF Each, Item
<1>5. req' = [req EXCEPT ![p] = r]
  BY <1>1 DEF Touch
<1> HIDE DEF plan
<1>6. /\ r \in Request /\ r.pc = "get" /\ r.plan = plan /\ r.next = next /\ r.gm = gm
      /\ r.kind = "touch" /\ r.here = {} /\ r.drawers = [t \in Team |-> Nobody]
  <2>1. /\ "get" \in Pc /\ next \in Pc
        /\ plan \in [Pid -> Role \cup {"keep", "here", "away", "A", "B", "out"}]
    BY <1>4 DEF Pc, Item
  <2>2. Idle.drawers = [t \in Team |-> Nobody]
    BY Requests
  <2> QED
    BY <2>1, <2>2, Requests DEF Request
<1> HIDE DEF r
<1>7. Moved(p) /\ req'[p] = r
  BY <1>5, <1>6, TypedFacts DEF Moved
<1>8. Found(p)'
  BY <1>2, <1>4, <1>6, <1>7 DEF Found
<1>9. req[p].kind = "touch"
  BY <1>2 DEF Typed, Found
<1> QED
  BY <1>2, <1>3, <1>4, <1>6, <1>7, <1>8, <1>9

\* ... or one that moves the room along, ...
LEMMA Begins ==
  ASSUME Typed, NEW p \in Pid, Begin(p)
  PROVE  /\ Quiet /\ Moved(p) /\ Found(p)'
         /\ req[p].kind = "touch" /\ req'[p].plan = NoPlan
         /\ \A q \in Pid : \/ req[q].kind = "touch"
                           \/ {req[q].kind, req'[p].kind} \subseteq Overlapping
         /\ \/ /\ req'[p].pc = "list" /\ req'[p].kind = "pick" /\ req'[p].gm = room.gm
               /\ room.state \in {"WAITING", "ROLE_PICK"}
            \/ /\ req'[p].pc = "config" /\ req'[p].kind = "config"
               /\ room.state \in {"ROLE_PICK", "CONFIG"}
            \/ /\ req'[p].pc \in {"read_config", "auto_start"} /\ req'[p].kind = "start"
               /\ room.state \in {"ROLE_PICK", "CONFIG"}
            \/ /\ req'[p].kind = "over" /\ room.state = "IN_GAME"
               /\ req'[p].pc = IF room.mode = "SINGLE" THEN "clear_hash" ELSE "end_game"
               /\ ~UnderWay({"start", "over"})
            \/ req'[p].pc = "end_game" /\ req'[p].kind = "end"
            \/ /\ req'[p].kind = "lost" /\ Voting
               /\ req'[p].pc = IF room.mode = "VS" THEN "clear_hash" ELSE "lose"
            \/ /\ req'[p].kind = "reset" /\ room.state = "GAME_END" /\ game.vote = "yes"
               /\ req'[p].pc = IF room.mode = "VS" THEN "clear_hash" ELSE "clear_roles"
<1>1. Quiet
  BY DEF Begin, BeginPick, BeginConfig, BeginStart, AutoStart, BeginOver, BeginEnd,
         BeginLost, BeginReset, Quiet
<1>2. PICK kind \in Kind, pc \in Pc, gm \in {room.gm, p, Nobody} :
        /\ Arrive(p, kind, pc, gm)
        /\ \/ /\ pc = "list" /\ kind = "pick" /\ gm = room.gm
              /\ room.state \in {"WAITING", "ROLE_PICK"}
           \/ /\ pc = "config" /\ kind = "config"
              /\ room.state \in {"ROLE_PICK", "CONFIG"}
           \/ /\ pc \in {"read_config", "auto_start"} /\ kind = "start"
              /\ room.state \in {"ROLE_PICK", "CONFIG"}
           \/ /\ kind = "over" /\ room.state = "IN_GAME"
              /\ pc = IF room.mode = "SINGLE" THEN "clear_hash" ELSE "end_game"
              /\ ~UnderWay({"start", "over"})
           \/ pc = "end_game" /\ kind = "end"
           \/ /\ kind = "lost" /\ Voting
              /\ pc = IF room.mode = "VS" THEN "clear_hash" ELSE "lose"
           \/ /\ kind = "reset" /\ room.state = "GAME_END" /\ game.vote = "yes"
              /\ pc = IF room.mode = "VS" THEN "clear_hash" ELSE "clear_roles"
  <2>1. /\ {"list", "config", "read_config", "auto_start", "clear_hash", "end_game", "lose",
            "clear_roles"} \subseteq Pc
        /\ {"pick", "config", "start", "over", "end", "lost", "reset"} \subseteq Kind
    BY DEF Pc, Kind
  <2>2. CASE BeginPick(p)
    BY <2>1, <2>2 DEF BeginPick
  <2>3. CASE BeginConfig(p)
    BY <2>1, <2>3 DEF BeginConfig
  <2>4. CASE BeginStart(p)
    <3>1. room.state \in {"ROLE_PICK", "CONFIG"} /\ Arrive(p, "start", "read_config", p)
      BY <2>4 DEF BeginStart, MayStart
    <3> QED
      BY <2>1, <3>1
  <2>5. CASE AutoStart(p)
    BY <2>1, <2>5 DEF AutoStart
  <2>6. CASE BeginOver(p)
    <3> DEFINE to == IF room.mode = "SINGLE" THEN "clear_hash" ELSE "end_game"
    <3>1. to \in Pc /\ Arrive(p, "over", to, Nobody)
      BY <2>1, <2>6 DEF BeginOver
    <3> QED
      BY <2>1, <2>6, <3>1 DEF BeginOver
  <2>7. CASE BeginEnd(p)
    BY <2>1, <2>7 DEF BeginEnd
  <2>8. CASE BeginLost(p)
    <3> DEFINE to == IF room.mode = "VS" THEN "clear_hash" ELSE "lose"
    <3>1. to \in Pc /\ Arrive(p, "lost", to, Nobody)
      BY <2>1, <2>8 DEF BeginLost
    <3> QED
      BY <2>1, <2>8, <3>1 DEF BeginLost
  <2>9. CASE BeginReset(p)
    <3> DEFINE to == IF room.mode = "VS" THEN "clear_hash" ELSE "clear_roles"
    <3>1. to \in Pc /\ Arrive(p, "reset", to, Nobody)
      BY <2>1, <2>9 DEF BeginReset
    <3> QED
      BY <2>1, <2>9, <3>1 DEF BeginReset
  <2> QED
    BY <2>2, <2>3, <2>4, <2>5, <2>6, <2>7, <2>8, <2>9 DEF Begin
<1>3. gm \in Pid \cup {Nobody} /\ req \in [Pid -> Request] /\ gm \in known \cup {Nobody, p}
  BY TypedFacts
<1>4. /\ Moved(p) /\ p \in known /\ req[p].pc = "idle"
      /\ req'[p].pc = pc /\ req'[p].kind = kind /\ req'[p].plan = NoPlan
      /\ req'[p].gm = gm /\ req'[p].here = {} /\ req'[p].drawers = Idle.drawers
      /\ req'[p].next = "idle"
      /\ \A q \in Pid : \/ req[q].pc = "idle" \/ req[q].kind = "touch"
                        \/ {req[q].kind, kind} \subseteq Overlapping
  BY <1>2, <1>3, Arrives
<1>5. \A q \in Pid : req[q].pc = "idle" => req[q].kind = "touch"
  BY DEF Typed, Found
<1>6. pc \notin {"idle", "set"} /\ known' = known
  BY <1>1, <1>2 DEF Quiet, people
<1>7. Found(p)'
  <2>1. \A t \in Team : req'[p].drawers[t] = Nobody
    BY <1>4, Requests
  <2>2. \A q \in Pid : req'[p].plan[q] = "keep"
    BY <1>4, Requests
  <2> QED
    BY <1>3, <1>4, <1>6, <2>1, <2>2 DEF Found
<1> QED
  BY <1>1, <1>2, <1>4, <1>5, <1>7

-----------------------------------------------------------------------------
(***************************************************************************)
(* What each step does, in the words of the invariant.                     *)
(***************************************************************************)
LEMMA GoesFound ==
  ASSUME Typed, NEW p \in Pid, NEW s \in Pc \ {"idle", "set"}, Goto(p, s), known' = known
  PROVE  Found(p)'
<1>1. /\ Same(p) /\ req'[p].pc = s /\ req'[p].plan = req[p].plan /\ req'[p].gm = req[p].gm
      /\ req'[p].next = req[p].next
  BY TypedFacts, Goes
<1>2. Found(p)
  BY TypedFacts
<1> QED
  BY <1>1, <1>2 DEF Found, Same

LEMMA LoopsFound ==
  ASSUME Typed, NEW p \in Pid, NEW plan \in [Pid -> Item], NEW s \in Pc \ {"get", "set"},
         Loop(p, plan, s), \A q \in Pid : plan[q] # "keep" => q \in known, known' = known
  PROVE  Found(p)'
<1>1. \/ req'[p] = Idle
      \/ On(p, s, plan) /\ Same(p)
  BY TypedFacts, Loops
<1>2. CASE req'[p] = Idle
  BY <1>2, IdleFound
<1>3. CASE On(p, s, plan) /\ Same(p)
  <2>1. /\ Found(p) /\ req'[p].gm = req[p].gm /\ req'[p].plan = plan /\ Same(p)
        /\ req'[p].pc \notin {"idle", "set"} /\ req'[p].next \in {"idle", s}
    BY <1>3, TypedFacts DEF On
  <2> QED
    BY <2>1 DEF Found, Same
<1> QED
  BY <1>1, <1>2, <1>3

LEMMA EachItem ==
  ASSUME NEW ps, NEW what \in Item
  PROVE  /\ Each(ps, what) \in [Pid -> Item] /\ "keep" \in Item
         /\ \A q \in Pid : Each(ps, what)[q] = IF q \in ps THEN what ELSE "keep"
  BY DEF Each, Item

LEMMA GetRecordIs ==
  ASSUME Typed, NEW p \in Pid, GetRecord(p)
  PROVE  /\ UNCHANGED <<room, people, hash, secret, game, starts>>
         /\ Moved(p) /\ Same(p) /\ Found(p)'
         /\ req[p].pc = "get" /\ req'[p].pc = "set"
         /\ req'[p].next = req[p].next /\ req'[p].plan = req[p].plan
         /\ req'[p].kind = req[p].kind /\ req'[p].gm = req[p].gm
         /\ \E q \in known :
              /\ req[p].plan[q] # "keep" /\ req'[p].copy.who = q
              /\ \/ req[p].plan[q] \notin TeamItem /\ teams' = teams
                 \/ /\ req[p].plan[q] \in TeamItem
                    /\ teams' = [t \in Team |-> IF t = req[p].plan[q] THEN teams[t] \cup {q}
                                                                      ELSE teams[t] \ {q}]
<1>1. PICK q \in Pid :
        /\ req[p].plan[q] # "keep"
        /\ req' = [req EXCEPT ![p].pc = "set",
                     ![p].copy = [who |-> q, role |-> role[q], on |-> q \in on]]
        /\ IF req[p].plan[q] \in {"A", "B", "out"}
           THEN teams' = [t \in Team |-> IF t = req[p].plan[q] THEN teams[t] \cup {q}
                                                               ELSE teams[t] \ {q}]
           ELSE UNCHANGED teams
  BY DEF GetRecord
<1>2. req[p] \in Request /\ Found(p) /\ role[q] \in Role /\ known \subseteq Pid
  BY TypedFacts
<1>3. q \in known
  BY <1>1, <1>2 DEF Found
<1> DEFINE c == [who |-> q, role |-> role[q], on |-> q \in on]
           r == [req[p] EXCEPT !.pc = "set", !.copy = c]
<1>4. c \in [who : Pid \cup {Nobody}, role : Role, on : BOOLEAN] /\ c.who = q /\ "set" \in Pc
  BY <1>2 DEF Pc
<1>5. req' = [req EXCEPT ![p] = r]
  <2>1. req \in [Pid -> Request]
    BY TypedFacts
  <2> QED
    BY <1>1, <2>1
<1> HIDE DEF c
<1>6. /\ r \in Request /\ r.pc = "set" /\ r.copy = c
      /\ r.next = req[p].next /\ r.plan = req[p].plan /\ r.kind = req[p].kind
      /\ r.gm = req[p].gm /\ r.here = req[p].here /\ r.drawers = req[p].drawers
  BY <1>2, <1>4 DEF Request
<1> HIDE DEF r
<1>7. Moved(p) /\ req'[p] = r
  BY <1>5, <1>6, TypedFacts DEF Moved
<1>8. UNCHANGED <<room, people, hash, secret, game, starts>> /\ req[p].pc = "get"
  BY DEF GetRecord
<1>9. Found(p)'
  BY <1>2, <1>3, <1>4, <1>6, <1>7, <1>8 DEF Found, people
<1> QED
  BY <1>1, <1>3, <1>4, <1>6, <1>7, <1>8, <1>9 DEF Same, TeamItem

LEMMA SetRecordIs ==
  ASSUME Typed, NEW p \in Pid, SetRecord(p)
  PROVE  /\ UNCHANGED <<room, known, teams, hash, secret, game, moves, starts>>
         /\ Moved(p) /\ Found(p)' /\ req[p].pc = "set"
         /\ \/ req'[p] = Idle /\ req[p].next = "idle"
            \/ On(p, req[p].next, req'[p].plan) /\ Same(p)
         /\ role' \in [Pid -> Role] /\ on' \subseteq known /\ restored' \subseteq known
         /\ LET q == req[p].copy.who
                what == req[p].plan[q]
            IN /\ q \in known
               /\ req'[p].plan = [req[p].plan EXCEPT ![q] = "keep"]
               /\ \A x \in Pid \ {q} : /\ role'[x] = role[x]
                                       /\ x \in restored' <=> x \in restored
               /\ \/ /\ what \in Role /\ req[p].kind # "touch"
                     /\ role'[q] = what /\ q \notin restored'
                  \/ /\ what \notin Role \/ req[p].kind = "touch"
                     /\ q \in restored' \/ (role'[q] = role[q] /\ q \notin restored)
<1> DEFINE r == req[p]
           q == r.copy.who
           what == r.plan[q]
           plan == [r.plan EXCEPT ![q] = "keep"]
           to == IF what \in Role THEN what ELSE r.copy.role
           done == [r EXCEPT !.copy = NoCopy]
<1>1. /\ req[p].pc = "set"
      /\ role' = [role EXCEPT ![q] = to]
      /\ on' = IF what = "here" \/ (what # "away" /\ r.copy.on)
               THEN on \cup {q} ELSE on \ {q}
      /\ restored' = IF what \in Role /\ r.kind # "touch" THEN restored \ {q}
                     ELSE IF role'[q] # role[q] THEN restored \cup {q} ELSE restored
      /\ req' = [req EXCEPT ![p] = Planned(done, plan)]
      /\ UNCHANGED <<room, known, teams, hash, secret, game, moves, starts>>
  BY DEF SetRecord
<1>2. /\ r \in Request /\ q \in known /\ known \subseteq Pid /\ Found(p)
      /\ role \in [Pid -> Role] /\ restored \subseteq known /\ on \subseteq known
      /\ req \in [Pid -> Request]
  BY <1>1, TypedFacts DEF Found
<1>3. to \in Role /\ r.plan \in [Pid -> Item]
  BY <1>2 DEF Request, Item
<1>4. NoCopy \in [who : Pid \cup {Nobody}, role : Role, on : BOOLEAN]
  BY DEF NoCopy, Role
<1>5. /\ done \in Request /\ done.kind = r.kind /\ done.gm = r.gm /\ done.here = r.here
      /\ done.drawers = r.drawers /\ done.next = r.next
  BY <1>2, <1>4 DEF Request
<1>6. /\ plan \in [Pid -> Item] /\ plan[q] = "keep"
      /\ \A x \in Pid \ {q} : plan[x] = r.plan[x]
  BY <1>2, <1>3 DEF Item
<1> HIDE DEF to
<1>7. /\ role' \in [Pid -> Role] /\ role'[q] = to /\ on' \subseteq known
      /\ restored' \subseteq known /\ \A x \in Pid \ {q} : role'[x] = role[x]
  BY <1>1, <1>2, <1>3
<1>8. \A x \in Pid \ {q} : x \in restored' <=> x \in restored
  BY <1>1
<1>9. \/ /\ what \in Role /\ r.kind # "touch"
         /\ role'[q] = what /\ q \notin restored'
      \/ /\ what \notin Role \/ r.kind = "touch"
         /\ q \in restored' \/ (role'[q] = role[q] /\ q \notin restored)
  BY <1>1, <1>7 DEF to
<1> HIDE DEF done, plan
<1>10. /\ Planned(done, plan) \in Request /\ Planned(done, plan).plan = plan
       /\ \/ Planned(done, plan) = Idle /\ r.next = "idle"
          \/ /\ Planned(done, plan).kind = r.kind /\ Planned(done, plan).gm = r.gm
             /\ Planned(done, plan).here = r.here /\ Planned(done, plan).drawers = r.drawers
             /\ \/ /\ Planned(done, plan).pc = r.next /\ plan = NoPlan /\ r.next # "idle"
                   /\ Planned(done, plan).next = "idle"
                \/ Planned(done, plan).pc = "get" /\ Planned(done, plan).next = r.next
  BY <1>5, <1>6, PlannedIs
<1>11. Moved(p) /\ req'[p] = Planned(done, plan)
  BY <1>1, <1>2, <1>10 DEF Moved
<1>12. \/ req'[p] = Idle /\ req[p].next = "idle"
       \/ On(p, req[p].next, req'[p].plan) /\ Same(p)
  BY <1>10, <1>11 DEF On, Same
<1>13. Found(p)'
  <2>1. CASE req'[p] = Idle
    BY <2>1, IdleFound
  <2>2. CASE On(p, req[p].next, req'[p].plan) /\ Same(p)
    <3>1. /\ req'[p].gm = r.gm /\ req'[p].plan = plan /\ req'[p].pc \notin {"idle", "set"}
          /\ req'[p].next \notin {"get", "set"}
      BY <1>2, <1>10, <1>11, <2>2 DEF On, Found
    <3>2. \A x \in Pid : plan[x] # "keep" => x \in known
      BY <1>2, <1>6 DEF Found
    <3> QED
      BY <1>1, <1>2, <2>2, <3>1, <3>2 DEF Found, Same
  <2> QED
    BY <1>12, <2>1, <2>2
<1> QED
  BY <1>1, <1>2, <1>7, <1>8, <1>9, <1>10, <1>11, <1>12, <1>13 DEF plan

LEMMA Stages ==
  {"list", "gm_header", "gm_role", "split", "vs_roles", "vs_hash", "single_roles", "pick_room",
   "config", "config_room", "auto_start", "read_config", "start_game", "start_room",
   "end_game", "end_room", "lose", "clear_hash", "clear_roles", "clear_teams", "clear_gm",
   "clear_config", "reset_game", "reset_room"} = Pc \ {"idle", "get", "set"}
  BY DEF Pc

\* It has gone on to s and writes no records.
Gone(p, s) ==
  /\ Moved(p) /\ Same(p) /\ req'[p].pc = s /\ req'[p].plan = req[p].plan
  /\ req'[p].kind = req[p].kind /\ req'[p].gm = req[p].gm /\ req'[p].next = req[p].next

LEMMA GotoIs ==
  ASSUME Typed, NEW p \in Pid, NEW s \in Pc \ {"idle", "get", "set"}, Goto(p, s), known' = known
  PROVE  Gone(p, s) /\ Found(p)'
  BY TypedFacts, Goes, GoesFound DEF Gone

LEMMA ReturnIs ==
  ASSUME Typed, NEW p \in Pid, Return(p)
  PROVE  Moved(p) /\ req'[p] = Idle /\ Found(p)'
  BY TypedFacts, Returns, IdleFound

LEMMA LoopIs ==
  ASSUME Typed, NEW p \in Pid, NEW ps \in SUBSET (known \cup {Nobody}), NEW what \in Item,
         NEW s \in Pc \ {"get", "set"},
         Loop(p, Each(ps, what), s), known' = known
  PROVE  /\ Moved(p) /\ Found(p)'
         /\ \A q \in Pid : req'[p].plan[q] = IF q \in ps THEN what ELSE "keep"
         /\ \/ req'[p] = Idle /\ s = "idle"
            \/ On(p, s, req'[p].plan) /\ Same(p)
<1>1. /\ Each(ps, what) \in [Pid -> Item]
      /\ \A q \in Pid : Each(ps, what)[q] = IF q \in ps THEN what ELSE "keep"
  BY EachItem
<1>2. \A q \in Pid : Each(ps, what)[q] # "keep" => q \in known
  BY <1>1, TypedFacts
<1>3. Found(p)'
  BY <1>1, <1>2, LoopsFound
<1>4. /\ Moved(p) /\ req'[p].plan = Each(ps, what)
      /\ \/ req'[p] = Idle /\ s = "idle"
         \/ On(p, s, Each(ps, what)) /\ Same(p)
  BY <1>1, Loops, TypedFacts
<1> QED
  BY <1>1, <1>3, <1>4

LEMMA ListPlayersIs ==
  ASSUME Typed, NEW p \in Pid, ListPlayers(p)
  PROVE  /\ Quiet /\ Moved(p) /\ Found(p)' /\ req[p].pc = "list"
         /\ \/ req'[p] = Idle
            \/ /\ req'[p].kind = req[p].kind /\ req'[p].plan = req[p].plan
               /\ req'[p].here = on /\ Cardinality(on) >= MinPlayers[room.mode]
               /\ \/ /\ req[p].gm # Nobody /\ req'[p].gm = req[p].gm
                     /\ req'[p].pc = AfterGM
                  \/ /\ req[p].gm = Nobody /\ req'[p].gm \in on
                     /\ req'[p].pc = "gm_header"
<1>1. /\ req[p] \in Request /\ Found(p) /\ on \subseteq known /\ known \subseteq Pid
      /\ req \in [Pid -> Request] /\ AfterGM \in Pc /\ "gm_header" \in Pc
      /\ AfterGM \notin {"idle", "get", "set"}
  BY TypedFacts DEF AfterGM, Pc
<1>2. Quiet /\ req[p].pc = "list" /\ known' = known
  BY DEF ListPlayers, Quiet, people
<1>3. CASE Return(p)
  BY <1>2, <1>3, ReturnIs
<1>4. ASSUME NEW gm \in Pid, NEW s \in Pc \ {"idle", "get", "set"}, gm \in known,
             req' = [req EXCEPT ![p].here = on, ![p].gm = gm, ![p].pc = s]
      PROVE  /\ Moved(p) /\ Found(p)' /\ req'[p].kind = req[p].kind
             /\ req'[p].plan = req[p].plan /\ req'[p].here = on /\ req'[p].gm = gm
             /\ req'[p].pc = s
  <2> DEFINE r == [req[p] EXCEPT !.here = on, !.gm = gm, !.pc = s]
  <2>1. /\ r \in Request /\ r.kind = req[p].kind /\ r.plan = req[p].plan /\ r.here = on
        /\ r.gm = gm /\ r.pc = s /\ r.drawers = req[p].drawers /\ r.next = req[p].next
    BY <1>1 DEF Request
  <2>2. req' = [req EXCEPT ![p] = r]
    BY <1>1, <1>4
  <2> HIDE DEF r
  <2>3. Moved(p) /\ req'[p] = r
    BY <1>1, <2>1, <2>2 DEF Moved
  <2>4. Found(p)'
    BY <1>1, <1>2, <1>4, <2>1, <2>3 DEF Found
  <2> QED
    BY <2>1, <2>3, <2>4
<1>5. CASE req[p].gm # Nobody /\ req' = [req EXCEPT ![p].here = on, ![p].pc = AfterGM]
           /\ Cardinality(on) >= MinPlayers[room.mode]
  <2>1. req[p].gm \in known
    BY <1>1, <1>5 DEF Found
  <2>2. req' = [req EXCEPT ![p].here = on, ![p].gm = req[p].gm, ![p].pc = AfterGM]
    <3>1. [req[p] EXCEPT !.here = on, !.gm = req[p].gm, !.pc = AfterGM]
            = [req[p] EXCEPT !.here = on, !.pc = AfterGM]
      BY <1>1 DEF Request
    <3> QED
      BY <1>1, <1>5, <3>1
  <2>3. /\ Moved(p) /\ Found(p)' /\ req'[p].kind = req[p].kind
        /\ req'[p].plan = req[p].plan /\ req'[p].here = on /\ req'[p].gm = req[p].gm
        /\ req'[p].pc = AfterGM
    BY <1>1, <1>4, <2>1, <2>2
  <2> QED
    BY <1>2, <1>5, <2>3
<1>6. CASE req[p].gm = Nobody /\ Cardinality(on) >= MinPlayers[room.mode]
           /\ \E gm \in on :
                req' = [req EXCEPT ![p].here = on, ![p].gm = gm, ![p].pc = "gm_header"]
  <2>1. PICK gm \in on :
          req' = [req EXCEPT ![p].here = on, ![p].gm = gm, ![p].pc = "gm_header"]
    BY <1>6
  <2>2. gm \in Pid /\ gm \in known /\ "gm_header" \in Pc \ {"idle", "get", "set"}
    BY <1>1
  <2>3. /\ Moved(p) /\ Found(p)' /\ req'[p].kind = req[p].kind
        /\ req'[p].plan = req[p].plan /\ req'[p].here = on /\ req'[p].gm = gm
        /\ req'[p].pc = "gm_header"
    BY <1>4, <2>1, <2>2
  <2> QED
    BY <1>2, <1>6, <2>3
<1> QED
  BY <1>3, <1>5, <1>6 DEF ListPlayers

\* The plan when gm is the GameMaster and a and b draw.
VSRoles(gm, a, b) ==
  [q \in Pid |-> IF q \notin known THEN "keep"
                ELSE IF q = gm THEN "gm"
                ELSE IF q = a THEN "drawerA" ELSE IF q = b THEN "drawerB"
                ELSE IF q \in teams["A"] THEN "guesserA"
                ELSE IF q \in teams["B"] THEN "guesserB" ELSE "none"]

\* A request that has given up whom it has counted, and writes plan.
LEMMA PlannedOn ==
  ASSUME Typed, NEW p \in Pid, NEW plan \in [Pid -> Item],
         NEW s \in Pc \ {"idle", "get", "set"}, NEW r \in Request,
         r.kind = req[p].kind, r.gm = req[p].gm, r.here = {}, r.next = s,
         \A t \in Team : r.drawers[t] \in known \cup {Nobody},
         req' = [req EXCEPT ![p] = Planned(r, plan)],
         \A q \in Pid : plan[q] # "keep" => q \in known, known' = known
  PROVE  On(p, s, plan) /\ Found(p)' /\ req'[p].drawers = r.drawers
<1>1. Found(p) /\ req \in [Pid -> Request] /\ known \subseteq Pid
  BY TypedFacts
<1> DEFINE n == Planned(r, plan)
<1>2. /\ n \in Request /\ n.plan = plan
      /\ n.kind = r.kind /\ n.gm = r.gm
      /\ n.here = r.here /\ n.drawers = r.drawers
      /\ \/ n.pc = r.next /\ plan = NoPlan /\ n.next = "idle"
         \/ n.pc = "get" /\ n.next = r.next
  BY PlannedIs
<1> HIDE DEF n
<1>3. Moved(p) /\ req'[p] = n
  BY <1>1, <1>2 DEF Moved, n
<1>4. On(p, s, plan)
  BY <1>2, <1>3 DEF On
<1>5. Found(p)'
  BY <1>1, <1>2, <1>3 DEF Found
<1> QED
  BY <1>2, <1>3, <1>4, <1>5

LEMMA AssignVSRolesIs ==
  ASSUME Typed, NEW p \in Pid, AssignVSRoles(p)
  PROVE  /\ Quiet /\ Moved(p) /\ Found(p)' /\ req[p].pc = "vs_roles"
         /\ \/ (\E t \in Team : teams[t] \ {req[p].gm} = {}) /\ req'[p] = Idle
            \/ \E a \in teams["A"] \ {req[p].gm}, b \in teams["B"] \ {req[p].gm} :
                 /\ On(p, "vs_hash", VSRoles(req[p].gm, a, b))
                 /\ req'[p].drawers = [t \in Team |-> IF t = "A" THEN a ELSE b]
<1>1. /\ Quiet /\ req[p].pc = "vs_roles" /\ known' = known
  BY DEF AssignVSRoles, Quiet, people
<1> DEFINE gm == req[p].gm
           Members(t) == teams[t] \ {gm}
           Eligible(t) == IF Cardinality(Members(t)) <= 1 THEN Members(t)
                          ELSE Members(t) \ {hash[DrawerOf[t]]}
           AB(a, b) == [t \in Team |-> IF t = "A" THEN a ELSE b]
           Roles(ab) ==
             [q \in Pid |->
                IF q \notin known THEN "keep"
                ELSE IF q = gm THEN "gm"
                ELSE IF q = ab["A"] THEN "drawerA" ELSE IF q = ab["B"] THEN "drawerB"
                ELSE IF q \in teams["A"] THEN "guesserA"
                ELSE IF q \in teams["B"] THEN "guesserB" ELSE "none"]
<1>2. CASE (\E t \in Team : Members(t) = {}) /\ Return(p)
  BY <1>1, <1>2, ReturnIs
<1>3. ASSUME NEW a \in Members("A"), NEW b \in Members("B"),
             req' = [req EXCEPT ![p] = Planned([@ EXCEPT !.drawers = AB(a, b), !.here = {},
                                                         !.next = "vs_hash"], Roles(AB(a, b)))]
      PROVE  /\ Moved(p) /\ Found(p)' /\ On(p, "vs_hash", VSRoles(gm, a, b))
             /\ req'[p].drawers = AB(a, b)
  <2>1. a \in known /\ b \in known
    BY TypedFacts DEF Team
  <2>2. AB(a, b) \in [Team -> known] /\ AB(a, b)["A"] = a /\ AB(a, b)["B"] = b
    BY <2>1 DEF Team
  <2>3. Roles(AB(a, b)) = VSRoles(gm, a, b)
    BY <2>2 DEF VSRoles
  <2>4. /\ VSRoles(gm, a, b) \in [Pid -> Item]
        /\ \A q \in Pid : VSRoles(gm, a, b)[q] # "keep" => q \in known
    BY DEF VSRoles, Item, Role, Guessing
  <2>5. "vs_hash" \in Pc \ {"idle", "get", "set"}
    BY DEF Pc
  <2> HIDE DEF AB, Roles
  <2> DEFINE r == [req[p] EXCEPT !.drawers = AB(a, b), !.here = {}, !.next = "vs_hash"]
  <2>6. /\ r \in Request /\ r.drawers = AB(a, b) /\ r.next = "vs_hash"
        /\ r.kind = req[p].kind /\ r.gm = gm /\ r.here = {}
    <3>1. req[p] \in Request /\ AB(a, b) \in [Team -> Pid \cup {Nobody}] /\ "vs_hash" \in Pc
      BY <2>2, <2>5, TypedFacts
    <3> QED
      BY <3>1 DEF Request
  <2>7. req' = [req EXCEPT ![p] = Planned(r, VSRoles(gm, a, b))]
    BY <1>3, <2>3
  <2> HIDE DEF r
  <2>8. \A t \in Team : r.drawers[t] \in known \cup {Nobody}
    BY <2>2, <2>6
  <2>9. On(p, "vs_hash", VSRoles(gm, a, b)) /\ Found(p)' /\ req'[p].drawers = r.drawers
    BY <1>1, <2>4, <2>5, <2>6, <2>7, <2>8, PlannedOn
  <2> QED
    BY <2>6, <2>9 DEF On
<1>4. \/ (\E t \in Team : Members(t) = {}) /\ Return(p)
      \/ \E a \in Eligible("A"), b \in Eligible("B") :
           req' = [req EXCEPT ![p] = Planned([@ EXCEPT !.drawers = AB(a, b), !.here = {},
                                                       !.next = "vs_hash"], Roles(AB(a, b)))]
  BY Zenon DEF AssignVSRoles
<1>5. Eligible("A") \subseteq Members("A") /\ Eligible("B") \subseteq Members("B")
  OBVIOUS
<1> HIDE DEF Eligible, Roles, Members
<1>6. CASE \E a \in Eligible("A"), b \in Eligible("B") :
             req' = [req EXCEPT ![p] = Planned([@ EXCEPT !.drawers = AB(a, b), !.here = {},
                                                         !.next = "vs_hash"], Roles(AB(a, b)))]
  <2>1. PICK a \in Members("A"), b \in Members("B") :
          req' = [req EXCEPT ![p] = Planned([@ EXCEPT !.drawers = AB(a, b), !.here = {},
                                                      !.next = "vs_hash"], Roles(AB(a, b)))]
    BY <1>5, <1>6
  <2>2. /\ Moved(p) /\ Found(p)' /\ On(p, "vs_hash", VSRoles(gm, a, b))
        /\ req'[p].drawers = AB(a, b)
    BY <1>3, <2>1
  <2> QED
    BY <1>1, <2>2 DEF Members
<1> QED
  BY <1>2, <1>4, <1>6

LEMMA AssignSingleRolesIs ==
  ASSUME Typed, NEW p \in Pid, AssignSingleRoles(p)
  PROVE  /\ UNCHANGED <<room, people, teams, secret, game, starts>>
         /\ Moved(p) /\ Found(p)' /\ req[p].pc = "single_roles"
         /\ \E d \in req[p].here :
              /\ req[p].here \ {req[p].gm} # {} => d # req[p].gm
              /\ hash' = [hash EXCEPT !.drawer = d]
              /\ On(p, "pick_room", SingleRoles(p, d))
<1>1. /\ req[p].pc = "single_roles" /\ known' = known
      /\ UNCHANGED <<room, people, teams, secret, game, starts>>
  BY DEF AssignSingleRoles, people
<1>2. PICK d \in IF req[p].here \ {req[p].gm} = {} THEN req[p].here
                 ELSE req[p].here \ {req[p].gm} :
        /\ hash' = [hash EXCEPT !.drawer = d]
        /\ req' = [req EXCEPT ![p] = Planned([@ EXCEPT !.here = {}, !.next = "pick_room"],
                                             SingleRoles(p, d))]
  BY Zenon DEF AssignSingleRoles
<1>3. d \in req[p].here /\ (req[p].here \ {req[p].gm} # {} => d # req[p].gm)
  OBVIOUS
<1>4. req[p].here \subseteq known /\ "pick_room" \in Pc \ {"idle", "get", "set"}
  BY TypedFacts DEF Found, Pc
<1>5. /\ SingleRoles(p, d) \in [Pid -> Item]
      /\ \A q \in Pid : SingleRoles(p, d)[q] # "keep" => q \in known
  BY <1>4 DEF SingleRoles, Item, Role, Guessing
<1> DEFINE r == [req[p] EXCEPT !.here = {}, !.next = "pick_room"]
<1>6. /\ r \in Request /\ r.drawers = req[p].drawers /\ r.next = "pick_room"
      /\ r.kind = req[p].kind /\ r.gm = req[p].gm /\ r.here = {}
  <2>1. req[p] \in Request /\ "pick_room" \in Pc
    BY <1>4, TypedFacts
  <2> QED
    BY <2>1 DEF Request
<1>7. \A t \in Team : r.drawers[t] \in known \cup {Nobody}
  BY <1>6, TypedFacts DEF Found
<1>8. req' = [req EXCEPT ![p] = Planned(r, SingleRoles(p, d))]
  BY <1>2
<1> HIDE DEF r
<1>9. On(p, "pick_room", SingleRoles(p, d)) /\ Found(p)'
  BY <1>1, <1>4, <1>5, <1>6, <1>7, <1>8, PlannedOn
<1> QED
  BY <1>1, <1>2, <1>3, <1>9 DEF On

LEMMA SplitIs ==
  ASSUME Typed, NEW p \in Pid, Split(p)
  PROVE  /\ Quiet /\ Moved(p) /\ Found(p)' /\ req[p].pc = "split"
         /\ \/ (\E t \in Team : teams[t] # {}) /\ Gone(p, "vs_roles")
            \/ \E a \in SUBSET (req[p].here \ {req[p].gm}) :
                 /\ Cardinality(a) = (Cardinality(req[p].here \ {req[p].gm}) + 1) \div 2
                 /\ On(p, "vs_roles", Deal(req[p].here \ {req[p].gm}, a))
<1> DEFINE pool == req[p].here \ {req[p].gm}
<1>1. /\ Quiet /\ req[p].pc = "split" /\ known' = known
      /\ "vs_roles" \in Pc \ {"idle", "get", "set"} /\ pool \subseteq known
  BY TypedFacts DEF Split, Quiet, people, Pc, Found
<1>2. CASE (\E t \in Team : teams[t] # {}) /\ Goto(p, "vs_roles")
  BY <1>1, <1>2, GotoIs DEF Gone
<1>3. ASSUME NEW a \in SUBSET pool, Loop(p, Deal(pool, a), "vs_roles")
      PROVE  Moved(p) /\ Found(p)' /\ On(p, "vs_roles", Deal(pool, a))
  <2>1. /\ Deal(pool, a) \in [Pid -> Item]
        /\ \A q \in Pid : Deal(pool, a)[q] # "keep" => q \in known
    BY <1>1 DEF Deal, Item
  <2>2. Found(p)'
    BY <1>1, <1>3, <2>1, LoopsFound
  <2>3. req \in [Pid -> Request]
    BY TypedFacts
  <2> QED
    BY <1>1, <1>3, <2>1, <2>2, <2>3, Loops
<1>4. \/ (\E t \in Team : teams[t] # {}) /\ Goto(p, "vs_roles")
      \/ \E a \in SUBSET pool : /\ Cardinality(a) = (Cardinality(pool) + 1) \div 2
                                /\ Loop(p, Deal(pool, a), "vs_roles")
  BY DEF Split
<1>5. CASE \E a \in SUBSET pool : /\ Cardinality(a) = (Cardinality(pool) + 1) \div 2
                                  /\ Loop(p, Deal(pool, a), "vs_roles")
  BY <1>1, <1>3, <1>5
<1> QED
  BY <1>2, <1>4, <1>5

\* The steps that write the records next: for the GameMaster, ...
LEMMA GMLoops ==
  ASSUME Typed, NEW p \in Pid, PickGM(p) \/ GMRole(p)
  PROVE  /\ Moved(p) /\ Found(p)' /\ UNCHANGED <<people, teams, hash, secret, game, starts>>
         /\ \/ /\ PickGM(p) /\ req[p].pc = "gm_header" /\ room' = [room EXCEPT !.gm = req[p].gm]
               /\ On(p, "gm_role", req'[p].plan) /\ Same(p)
               /\ \A q \in Pid : req'[p].plan[q] = IF q = req[p].gm THEN "out" ELSE "keep"
            \/ /\ req[p].pc = "gm_role" /\ UNCHANGED room
               /\ \A q \in Pid : req'[p].plan[q] = IF q = req[p].gm THEN "gm" ELSE "keep"
               /\ \/ req'[p] = Idle /\ req[p].kind # "pick"
                  \/ /\ On(p, IF req[p].kind = "pick" THEN AfterGM ELSE "idle", req'[p].plan)
                     /\ Same(p)
<1>1. /\ UNCHANGED <<people, teams, hash, secret, game, starts>> /\ known' = known
      /\ {req[p].gm} \in SUBSET (known \cup {Nobody})
  BY TypedFacts DEF PickGM, GMRole, people, Found
<1>2. CASE PickGM(p)
  <2>1. "gm_role" \in Pc \ {"get", "set"} /\ "out" \in Item
    BY DEF Pc, Item
  <2>2. /\ req[p].pc = "gm_header" /\ room' = [room EXCEPT !.gm = req[p].gm]
        /\ Loop(p, Each({req[p].gm}, "out"), "gm_role")
    BY <1>2 DEF PickGM
  <2>3. /\ Moved(p) /\ Found(p)'
        /\ \A q \in Pid : req'[p].plan[q] = IF q \in {req[p].gm} THEN "out" ELSE "keep"
        /\ On(p, "gm_role", req'[p].plan) /\ Same(p)
    BY <1>1, <2>1, <2>2, LoopIs
  <2> QED
    BY <1>1, <1>2, <2>2, <2>3
<1>3. CASE GMRole(p)
  <2> DEFINE s == IF req[p].kind = "pick" THEN AfterGM ELSE "idle"
  <2>1. s \in Pc \ {"get", "set"} /\ "gm" \in Item /\ (req[p].kind = "pick" => s # "idle")
    BY DEF Pc, Item, Role, AfterGM
  <2>2. /\ req[p].pc = "gm_role" /\ UNCHANGED room
        /\ Loop(p, Each({req[p].gm}, "gm"), s)
    BY <1>3 DEF GMRole
  <2> HIDE DEF s
  <2>3. /\ Moved(p) /\ Found(p)'
        /\ \A q \in Pid : req'[p].plan[q] = IF q \in {req[p].gm} THEN "gm" ELSE "keep"
        /\ \/ req'[p] = Idle /\ s = "idle"
           \/ On(p, s, req'[p].plan) /\ Same(p)
    BY <1>1, <2>1, <2>2, LoopIs
  <2> QED
    BY <1>1, <2>1, <2>2, <2>3 DEF s
<1> QED
  BY <1>2, <1>3

\* ... and for everybody.
LEMMA ClearLoops ==
  ASSUME Typed, NEW p \in Pid, ClearRoles(p) \/ ClearTeams(p)
  PROVE  /\ Quiet /\ Moved(p) /\ Found(p)'
         /\ \/ /\ req[p].pc = "clear_roles" /\ Same(p)
               /\ \A q \in Pid : req'[p].plan[q] = IF q \in known THEN "none" ELSE "keep"
               /\ On(p, IF room.mode = "VS" THEN "clear_teams"
                        ELSE IF req[p].kind = "over" THEN "end_game" ELSE "clear_hash",
                     req'[p].plan)
            \/ /\ req[p].pc = "clear_teams" /\ On(p, "clear_gm", req'[p].plan) /\ Same(p)
               /\ \A q \in Pid : req'[p].plan[q] = IF q \in known THEN "out" ELSE "keep"
<1>1. Quiet /\ known' = known /\ known \in SUBSET (known \cup {Nobody})
  BY DEF ClearRoles, ClearTeams, Quiet, people
<1>2. CASE ClearRoles(p)
  <2> DEFINE s == IF room.mode = "VS" THEN "clear_teams"
                  ELSE IF req[p].kind = "over" THEN "end_game" ELSE "clear_hash"
  <2>1. s \in Pc \ {"get", "set"} /\ "none" \in Item /\ s # "idle"
    BY DEF Pc, Item, Role
  <2>2. req[p].pc = "clear_roles" /\ Loop(p, Each(known, "none"), s)
    BY <1>2 DEF ClearRoles
  <2> HIDE DEF s
  <2>3. /\ Moved(p) /\ Found(p)'
        /\ \A q \in Pid : req'[p].plan[q] = IF q \in known THEN "none" ELSE "keep"
        /\ On(p, s, req'[p].plan) /\ Same(p)
    BY <1>1, <2>1, <2>2, LoopIs
  <2> QED
    BY <1>1, <2>2, <2>3 DEF s
<1>3. CASE ClearTeams(p)
  <2>1. "clear_gm" \in Pc \ {"get", "set"} /\ "out" \in Item
    BY DEF Pc, Item
  <2>2. req[p].pc = "clear_teams" /\ Loop(p, Each(known, "out"), "clear_gm")
    BY <1>3 DEF ClearTeams
  <2>3. /\ Moved(p) /\ Found(p)'
        /\ \A q \in Pid : req'[p].plan[q] = IF q \in known THEN "out" ELSE "keep"
        /\ On(p, "clear_gm", req'[p].plan) /\ Same(p)
    BY <1>1, <2>1, <2>2, LoopIs
  <2> QED
    BY <1>1, <2>2, <2>3
<1> QED
  BY <1>2, <1>3

\* The steps that write no records next.
Plain(p) ==
  \/ VSHash(p) \/ PickRoom(p) \/ WriteConfig(p) \/ ConfigRoom(p)
  \/ AutoStartRead(p) \/ ReadConfig(p) \/ StartGame(p) \/ StartRoom(p)
  \/ EndGame(p) \/ EndRoom(p) \/ Lose(p) \/ ClearHash(p) \/ ClearGM(p)
  \/ ClearConfig(p) \/ ResetGame(p) \/ ResetRoom(p)

\* From one stage to the next, by the handler and the mode.
After(p, s) ==
  CASE s = "vs_hash" -> {"pick_room"} [] s = "config" -> {"config_room"}
    [] s = "auto_start" -> {"read_config"} [] s = "read_config" -> {"start_game"}
    [] s = "start_game" -> {"start_room"} [] s = "end_game" -> {"end_room"}
    [] s = "clear_hash" -> IF room.mode = "SINGLE" /\ req[p].kind = "reset"
                           THEN {"clear_config"} ELSE {"clear_roles"}
    [] s = "clear_gm" -> IF room.mode = "SINGLE" THEN {"reset_room"}
                         ELSE IF req[p].kind = "lost" THEN {"lose"} ELSE {"clear_config"}
    [] s = "clear_config" -> {"reset_game"}
    [] s = "reset_game" -> IF room.mode = "SINGLE" THEN {"clear_gm"} ELSE {"reset_room"}
    [] OTHER -> {}

LEMMA PlainIs ==
  ASSUME Typed, NEW p \in Pid, Plain(p)
  PROVE  /\ Moved(p) /\ Found(p)' /\ UNCHANGED <<people, teams>>
         /\ req[p].pc \in Pc \ {"idle", "get", "set"}
         /\ \/ req'[p] = Idle
            \/ req'[p].pc \in After(p, req[p].pc) /\ Gone(p, req'[p].pc)
<1>1. /\ UNCHANGED <<people, teams>> /\ known' = known
      /\ req[p].pc \in Pc \ {"idle", "get", "set"}
  BY DEF Plain, VSHash, PickRoom, WriteConfig, ConfigRoom, AutoStartRead, ReadConfig,
         StartGame, StartRoom, EndGame, EndRoom, Lose, ClearHash, ClearGM, ClearConfig,
         ResetGame, ResetRoom, people, Pc
<1>2. Return(p) \/ \E s \in After(p, req[p].pc) : Goto(p, s)
  <2>1. CASE VSHash(p) \/ WriteConfig(p) \/ EndGame(p) \/ ClearConfig(p)
    BY <2>1 DEF VSHash, WriteConfig, EndGame, ClearConfig, After
  <2>2. CASE AutoStartRead(p) \/ ReadConfig(p) \/ StartGame(p)
    BY <2>2 DEF AutoStartRead, ReadConfig, StartGame, After
  <2>3. CASE PickRoom(p) \/ ConfigRoom(p) \/ StartRoom(p) \/ EndRoom(p) \/ Lose(p) \/ ResetRoom(p)
    BY <2>3 DEF PickRoom, ConfigRoom, StartRoom, EndRoom, Lose, ResetRoom
  <2>4. CASE ClearHash(p) \/ ClearGM(p) \/ ResetGame(p)
    BY <2>4 DEF ClearHash, ClearGM, ResetGame, After
  <2> QED
    BY <2>1, <2>2, <2>3, <2>4 DEF Plain
<1>3. After(p, req[p].pc) \subseteq Pc \ {"idle", "get", "set"}
  BY DEF After, Pc
<1>4. CASE Return(p)
  BY <1>1, <1>4, ReturnIs
<1>5. CASE \E s \in After(p, req[p].pc) : Goto(p, s)
  BY <1>1, <1>3, <1>5, GotoIs DEF Gone
<1> QED
  BY <1>1, <1>2, <1>4, <1>5

\* Those that write the state of the room.
LEMMA RoomIs ==
  ASSUME Typed, NEW p \in Pid,
         PickRoom(p) \/ ConfigRoom(p) \/ StartRoom(p) \/ EndRoom(p) \/ ResetRoom(p)
  PROVE  /\ room' \in Header /\ room'.mode = room.mode /\ room'.gm = room.gm
         /\ UNCHANGED <<people, teams, hash, secret, game>>
         /\ Moved(p) /\ req'[p] = Idle /\ Found(p)'
         /\ \/ /\ req[p].pc = "pick_room"
               /\ room'.state = IF room.mode = "VS" THEN "CONFIG" ELSE "ROLE_PICK"
            \/ req[p].pc = "config_room" /\ room'.state = "CONFIG"
            \/ req[p].pc = "start_room" /\ room'.state = "IN_GAME"
            \/ req[p].pc = "end_room" /\ room'.state = "GAME_END"
            \/ req[p].pc = "reset_room" /\ room'.state = "WAITING"
<1>1. /\ {"WAITING", "IN_GAME", "GAME_END", "CONFIG", "ROLE_PICK"} \subseteq RoomState
      /\ room \in Header
  BY TypedFacts DEF RoomState
<1>2. UNCHANGED <<people, teams, hash, secret, game>> /\ Return(p)
  BY DEF PickRoom, ConfigRoom, StartRoom, EndRoom, ResetRoom, people
<1>3. Moved(p) /\ req'[p] = Idle /\ Found(p)'
  BY <1>2, ReturnIs
<1>4. CASE PickRoom(p)
  <2> DEFINE state == IF room.mode = "VS" THEN "CONFIG" ELSE "ROLE_PICK"
  <2>1. /\ state \in RoomState /\ req[p].pc = "pick_room"
        /\ room' = [room EXCEPT !.countdown = "running", !.state = state]
    BY <1>1, <1>4 DEF PickRoom
  <2> HIDE DEF state
  <2>2. /\ room' \in Header /\ room'.state = state
        /\ room'.mode = room.mode /\ room'.gm = room.gm
    BY <1>1, <2>1 DEF Header
  <2> QED
    BY <1>2, <1>3, <2>1, <2>2 DEF state
<1>5. CASE ConfigRoom(p)
  BY <1>1, <1>2, <1>3, <1>5 DEF ConfigRoom, Header
<1>6. CASE StartRoom(p)
  BY <1>1, <1>2, <1>3, <1>6 DEF StartRoom, Header
<1>7. CASE EndRoom(p)
  BY <1>1, <1>2, <1>3, <1>7 DEF EndRoom, Header
<1>8. CASE ResetRoom(p)
  BY <1>1, <1>2, <1>3, <1>8 DEF ResetRoom, Header
<1> QED
  BY <1>4, <1>5, <1>6, <1>7, <1>8

-----------------------------------------------------------------------------
LEMMA PlainTyped ==
  ASSUME Typed, NEW p \in Pid, Plain(p)
  PROVE  Typed'
<1>1. /\ Moved(p) /\ Found(p)' /\ UNCHANGED <<people, teams>>
  BY PlainIs
<1>2. /\ room \in Header /\ room.gm \in known \cup {Nobody} /\ room.mode \in Mode
      /\ role \in [Pid -> Role] /\ known \subseteq Pid /\ on \subseteq known
      /\ restored \subseteq known /\ teams \in [Team -> SUBSET known]
      /\ hash \in Hash /\ secret \in Words \cup {"none"} /\ starts \in 0..MaxGames + 1
      /\ game \in Game /\ moves \in 0..MaxMoves /\ NoDrawers \in Hash
  BY TypedFacts
<1>3. CASE PickRoom(p) \/ ConfigRoom(p) \/ StartRoom(p) \/ EndRoom(p) \/ ResetRoom(p)
  <2>1. starts' \in 0..MaxGames + 1
    BY <1>2, <1>3, LobbyAssumption
    DEF PickRoom, ConfigRoom, StartRoom, EndRoom, ResetRoom
  <2>2. /\ room' \in Header /\ room'.mode = room.mode /\ room'.gm = room.gm
        /\ UNCHANGED <<hash, secret, game>>
        /\ room'.state \in {"WAITING", "IN_GAME", "GAME_END", "CONFIG"} \/ room.mode = "SINGLE"
    BY <1>2, <1>3, RoomIs DEF Mode
  <2> QED
    BY <1>1, <1>2, <2>1, <2>2, StillTyped DEF people
<1>4. CASE ClearGM(p)
  <2>1. /\ room' = [room EXCEPT !.gm = Nobody] /\ UNCHANGED <<hash, secret, game, starts>>
    BY <1>4 DEF ClearGM
  <2>2. /\ room' \in Header /\ room'.mode = room.mode /\ room'.state = room.state
        /\ room'.gm = Nobody
    BY <1>2, <2>1, GMWritten
  <2> QED
    BY <1>1, <1>2, <2>1, <2>2, StillTyped DEF people
<1>5. CASE VSHash(p) \/ ClearHash(p)
  <2>1. hash' \in Hash /\ UNCHANGED <<room, secret, game, starts>>
    <3>1. CASE ClearHash(p)
      BY <1>2, <3>1 DEF ClearHash
    <3>2. CASE VSHash(p)
      <4>1. /\ req[p].drawers["A"] \in known \cup {Nobody}
            /\ req[p].drawers["B"] \in known \cup {Nobody}
        BY TypedFacts DEF Found, Team
      <4> QED
        BY <1>2, <3>2, <4>1 DEF VSHash, Hash
    <3> QED
      BY <1>5, <3>1, <3>2
  <2> QED
    BY <1>1, <1>2, <2>1, StillTyped DEF people
<1>6. CASE \/ WriteConfig(p) \/ AutoStartRead(p) \/ ReadConfig(p) \/ StartGame(p)
           \/ EndGame(p) \/ Lose(p) \/ ClearConfig(p) \/ ResetGame(p)
  <2>1. UNCHANGED <<room, hash, starts>>
    BY <1>6 DEF WriteConfig, AutoStartRead, ReadConfig, StartGame, EndGame, Lose,
                ClearConfig, ResetGame
  <2>2. secret' \in Words \cup {"none"}
    BY <1>2, <1>6 DEF WriteConfig, AutoStartRead, ReadConfig, StartGame, EndGame, Lose,
                      ClearConfig, ResetGame
  <2>3. game' \in Game
    BY <1>2, <1>6 DEF WriteConfig, AutoStartRead, ReadConfig, StartGame, EndGame, Lose,
                      ClearConfig, ResetGame, Game, Hash
  <2> QED
    BY <1>1, <1>2, <2>1, <2>2, <2>3, StillTyped DEF people
<1> QED
  BY <1>3, <1>4, <1>5, <1>6 DEF Plain

LEMMA StepTyped ==
  ASSUME Typed, NEW p \in Pid, Step(p)
  PROVE  Typed'
<1>1. /\ room \in Header /\ room.gm \in known \cup {Nobody} /\ room.mode \in Mode
      /\ role \in [Pid -> Role] /\ known \subseteq Pid /\ on \subseteq known
      /\ restored \subseteq known /\ teams \in [Team -> SUBSET known]
      /\ hash \in Hash /\ secret \in Words \cup {"none"} /\ starts \in 0..MaxGames + 1
      /\ game \in Game /\ moves \in 0..MaxMoves
  BY TypedFacts
<1>2. CASE Plain(p)
  BY <1>2, PlainTyped
<1>3. CASE ListPlayers(p) \/ Split(p) \/ AssignVSRoles(p) \/ ClearRoles(p) \/ ClearTeams(p)
  <2>1. Quiet /\ Moved(p) /\ Found(p)'
    BY <1>3, ListPlayersIs, SplitIs, AssignVSRolesIs, ClearLoops
  <2> QED
    BY <1>1, <2>1, QuietTyped DEF Quiet, people
<1>4. CASE GetRecord(p)
  <2>1. /\ UNCHANGED <<room, people, hash, secret, game, starts>> /\ Moved(p) /\ Found(p)'
    BY <1>4, GetRecordIs
  <2>2. PICK q \in known :
          \/ teams' = teams
          \/ teams' = [t \in Team |-> IF t = req[p].plan[q] THEN teams[t] \cup {q}
                                                            ELSE teams[t] \ {q}]
    BY <1>4, GetRecordIs
  <2>3. teams' \in [Team -> SUBSET known]
    BY <1>1, <2>2
  <2> QED
    BY <1>1, <2>1, <2>3, StillTyped DEF people
<1>5. CASE SetRecord(p)
  <2>1. /\ UNCHANGED <<room, known, teams, hash, secret, game, moves, starts>>
        /\ Moved(p) /\ Found(p)'
        /\ role' \in [Pid -> Role] /\ on' \subseteq known /\ restored' \subseteq known
    BY <1>5, SetRecordIs
  <2> QED
    BY <1>1, <2>1, StillTyped
<1>6. CASE PickGM(p) \/ GMRole(p)
  <2>1. Moved(p) /\ Found(p)' /\ UNCHANGED <<people, teams, hash, secret, game, starts>>
    BY <1>6, GMLoops
  <2>2. /\ room' \in Header /\ room'.mode = room.mode /\ room'.state = room.state
        /\ room'.gm \in known \cup {Nobody}
    <3>1. CASE UNCHANGED room
      BY <1>1, <3>1
    <3>2. CASE room' = [room EXCEPT !.gm = req[p].gm]
      <4>1. req[p].gm \in known \cup {Nobody}
        BY TypedFacts DEF Found
      <4> QED
        BY <1>1, <3>2, <4>1, GMWritten
    <3> QED
      BY <1>6, <3>1, <3>2, GMLoops
  <2> QED
    BY <1>1, <2>1, <2>2, StillTyped DEF people
<1>7. CASE AssignSingleRoles(p)
  <2>1. /\ Moved(p) /\ Found(p)' /\ UNCHANGED <<room, people, teams, secret, game, starts>>
    BY <1>7, AssignSingleRolesIs
  <2>2. hash' \in Hash
    <3>1. PICK d \in req[p].here : hash' = [hash EXCEPT !.drawer = d]
      BY <1>7, AssignSingleRolesIs
    <3>2. d \in known
      BY TypedFacts DEF Found
    <3> QED
      BY <1>1, <3>1, <3>2 DEF Hash
  <2> QED
    BY <1>1, <2>1, <2>2, StillTyped DEF people
<1> QED
  BY <1>2, <1>3, <1>4, <1>5, <1>6, <1>7 DEF Step, Plain

\* What happens between the requests.
LEMMA PassingTyped ==
  ASSUME Typed, VoteYes \/ CountdownRunsOut
  PROVE  Typed'
<1>1. /\ room \in Header /\ room.mode \in Mode /\ game \in Game
      /\ req \in [Pid -> Request] /\ \A p \in Pid : Found(p)
  BY TypedFacts
<1>2. UNCHANGED <<people, teams, hash, secret, req, starts>>
  BY DEF VoteYes, CountdownRunsOut
<1>3. room' \in Header /\ room'.mode = room.mode /\ room'.gm = room.gm /\ room'.state = room.state
  BY <1>1, CountdownWritten DEF VoteYes, CountdownRunsOut
<1>4. game' \in Game
  BY <1>1 DEF VoteYes, CountdownRunsOut, Game
<1>5. \A p \in Pid : Found(p)'
  BY <1>1, <1>2 DEF Found, people
<1>6. TypeOK'
  <2>1. /\ room' \in [mode : Mode, state : RoomState, gm : known' \cup {Nobody},
                      countdown : {"none", "running", "over"}]
        /\ room'.state = "ROLE_PICK" => room'.mode = "SINGLE"
    BY <1>2, <1>3 DEF Header, Typed, TypeOK, people
  <2> QED
    BY <1>2, <1>4, <2>1 DEF Typed, TypeOK, people, Game
<1> QED
  BY <1>5, <1>6 DEF Typed

LEMMA TypedInit == Init => Typed
<1> SUFFICES ASSUME Init PROVE Typed
  OBVIOUS
<1>1. /\ Idle \in Request /\ \A p \in Pid : req[p] = Idle
  BY Requests DEF Init
<1>2. \A t \in Team : Idle.drawers[t] = Nobody
  BY Requests
<1>3. \A p \in Pid : Found(p)
  BY <1>1, <1>2, Requests DEF Found
<1>4. TypeOK
  <2>1. known \in SUBSET Pid /\ on = known /\ restored = {} /\ moves = 0 /\ starts = 0
    BY DEF Init
  <2>2. /\ room \in [mode : Mode, state : RoomState, gm : known \cup {Nobody},
                     countdown : {"none", "running", "over"}]
        /\ room.state = "WAITING"
    BY DEF Init, RoomState
  <2>3. /\ role \in [Pid -> Role] /\ teams \in [Team -> SUBSET known]
        /\ hash \in [{"drawer", "drawerA", "drawerB"} -> known \cup {Nobody}]
        /\ secret \in Words \cup {"none"}
        /\ game \in [drawer : known \cup {Nobody}, vote : {"none", "open", "yes", "no"}]
        /\ req \in [Pid -> Request]
    BY <1>1 DEF Init, Role, NoTeams, NoDrawers
  <2> QED
    BY <2>1, <2>2, <2>3, LobbyAssumption DEF TypeOK
<1> QED
  BY <1>3, <1>4 DEF Typed

LEMMA TypedStep == Typed /\ [Next]_vars => Typed'
<1> SUFFICES ASSUME Typed, [Next]_vars PROVE Typed'
  OBVIOUS
<1>1. CASE UNCHANGED vars
  BY <1>1 DEF vars, Typed, TypeOK, Found
<1>2. ASSUME NEW p \in Pid, Leave(p) \/ Heartbeat(p) \/ JoinAsGM(p) PROVE Typed'
  BY <1>2, Touches, QuietTyped
<1>3. ASSUME NEW p \in Pid, Begin(p) PROVE Typed'
  <2>1. Quiet /\ Moved(p) /\ Found(p)'
    BY <1>3, Begins
  <2> QED
    BY <2>1, TypedFacts, QuietTyped DEF Quiet, people
<1> QED
  BY <1>1, <1>2, <1>3, JoinTyped, StepTyped, PassingTyped DEF Next

LEMMA AlwaysTyped == Spec => []Typed
  BY TypedInit, TypedStep, PTL DEF Spec

\* The room, its players and its requests keep their types whatever overlaps; in
\* particular no VS room is ever in ROLE_PICK, where handle_vs_role_pick would
\* answer anything but BAD_STATE.
THEOREM TypeCorrect == Spec => []TypeOK
  BY AlwaysTyped, PTL DEF Typed

-----------------------------------------------------------------------------
(***************************************************************************)
(* The invariant.  A role pick, and a clearing, is a plan that is carried  *)
(* out record by record while others write records too: what the records   *)
(* will say when the plan is carried out fits together all the time.       *)
(***************************************************************************)
\* What p does now, or after the records it is writing.
Looping(p) == req[p].pc \in {"get", "set"}
Stage(p) == IF Looping(p) THEN req[p].next ELSE req[p].pc
\* Some request of the kind k is under way.
Some(k) == \E p \in Pid : req[p].kind = k
Ending == \E p \in Pid : Stage(p) = "end_room"

ResetStage == {"clear_config", "reset_game", "reset_room"}

\* The stages of a request of each kind, ...
Belongs(mode, kind, s) ==
  \/ kind = "touch" /\ s \in {"idle", "gm_role"}
  \/ kind = "pick" /\ s \in {"list", "gm_header", "gm_role", "pick_room"}
  \/ kind = "pick" /\ mode = "VS" /\ s \in {"split", "vs_roles", "vs_hash"}
  \/ kind = "pick" /\ mode = "SINGLE" /\ s = "single_roles"
  \/ kind = "config" /\ s \in {"config", "config_room"}
  \/ kind = "start" /\ s \in {"auto_start", "read_config", "start_game", "start_room"}
  \/ kind \in {"end", "over"} /\ s \in {"end_game", "end_room"}
  \/ kind = "over" /\ mode = "SINGLE" /\ s \in {"clear_hash", "clear_roles"}
  \/ kind = "lost" /\ s = "lose"
  \/ /\ kind = "lost" /\ mode = "VS"
     /\ s \in {"clear_hash", "clear_roles", "clear_teams", "clear_gm"}
  \/ kind = "reset" /\ s \in {"clear_hash", "clear_roles", "clear_gm"} \cup ResetStage
  \/ kind = "reset" /\ mode = "VS" /\ s = "clear_teams"

\* ... and what it writes to the records before each.
Writes(kind, s, item) ==
  \/ item = "keep"
  \/ kind = "touch" /\ item \in {"here", "away", "gm"}
  \/ kind = "pick" /\ s = "gm_role" /\ item = "out"
  \/ kind = "pick" /\ s \in {"split", "single_roles"} /\ item = "gm"
  \/ kind = "pick" /\ s = "vs_roles" /\ item \in {"A", "B"}
  \/ kind = "pick" /\ s \in {"vs_hash", "pick_room"} /\ item \in Role
  \/ kind \in {"over", "lost", "reset"} /\ s \in {"end_game", "clear_teams", "clear_hash"}
       /\ item = "none"
  \/ kind \in {"lost", "reset"} /\ s = "clear_gm" /\ item = "out"

Shape(p) ==
  LET r == req[p] IN
  /\ Belongs(room.mode, r.kind, Stage(p))
  /\ IF Looping(p) THEN \A q \in Pid : Writes(r.kind, Stage(p), r.plan[q]) ELSE r.plan = NoPlan
  /\ r.pc = "set" /\ r.plan[r.copy.who] \in TeamItem =>
       \A t \in Team : r.copy.who \in teams[t] <=> r.plan[r.copy.who] = t
Shaped == \A p \in Pid : Shape(p)

\* Kinds of requests that may be under way together: no role picks, no
\* configurations.
Harmless == {"start", "over", "end", "lost", "reset"}
Apart(a, b) ==
  /\ {a, b} \subseteq Harmless
  /\ a = "over" => b = "end"
  /\ a = "start" => b \in {"start", "end"}
Together ==
  \A p, q \in Pid :
    p # q /\ req[p].kind # "touch" /\ req[q].kind # "touch" => Apart(req[p].kind, req[q].kind)

\* Players whose records have not been written back with a role that had changed.
Told == known \ restored
\* The role and the teams that p's plan leads to, and whose role is certain then.
Will(p, q) == IF req[p].plan[q] \in Role THEN req[p].plan[q] ELSE role[q]
Certain(p) == {q \in known : req[p].plan[q] \in Role \/ q \notin restored}
WillTeam(p, t) ==
  {q \in Pid : IF req[p].plan[q] \in TeamItem THEN req[p].plan[q] = t ELSE q \in teams[t]}

OneGM == room.gm \in known /\ \A q \in Told : role[q] = "gm" <=> q = room.gm
Teamed ==
  /\ room.gm \notin teams["A"] \cup teams["B"] /\ teams["A"] \cap teams["B"] = {}
  /\ \A t \in Team : Cardinality(teams[t]) >= MinTeam
Drawn ==
  IF room.mode = "VS"
  THEN \A t \in Team : /\ hash[DrawerOf[t]] \in teams[t]
                       /\ \A q \in Told : role[q] = DrawerOf[t] <=> q = hash[DrawerOf[t]]
  ELSE hash.drawer \in known \ {room.gm} /\ (hash.drawer \in Told => role[hash.drawer] = "drawer")
Staffed == OneGM /\ Drawn /\ (room.mode = "VS" => Teamed)
NoRoles == \A q \in Told : role[q] = "none"
Clear ==
  /\ room.gm = Nobody
  /\ room.mode = "SINGLE" => NoRoles
  /\ room.mode = "VS" => teams = NoTeams
Blind ==
  \A q \in Told : role[q] \in Guessing =>
    q # room.gm /\ hash.drawer # q /\ hash.drawerA # q /\ hash.drawerB # q
OneGMToBe(p) == \A q \in Certain(p) : Will(p, q) = "gm" <=> q = room.gm

PickSound(p) ==
  LET r == req[p]
      s == Stage(p)
  IN
  /\ room.state \in {"WAITING", "ROLE_PICK"} /\ secret = "none"
  /\ s = "list" =>
       /\ r.gm = room.gm /\ Blind
       /\ IF room.state = "WAITING" THEN Clear ELSE Staffed
  /\ s # "list" => r.gm \in known
  /\ s = "gm_header" => Clear /\ room.state = "WAITING"
  /\ s \in {"gm_header", "gm_role", "split", "single_roles"} =>
       Cardinality(r.here) >= MinPlayers[room.mode]
  /\ s \notin {"list", "gm_header"} => room.gm = r.gm
  /\ s \in {"gm_role", "split"} /\ room.mode = "VS" => teams = NoTeams
  /\ s = "gm_role" /\ room.mode = "SINGLE" => NoRoles
  /\ s = "single_roles" => OneGMToBe(p)
  /\ s = "vs_roles" =>
       /\ \A t \in Team : room.gm \notin WillTeam(p, t) /\ Cardinality(WillTeam(p, t)) >= MinTeam
       /\ WillTeam(p, "A") \cap WillTeam(p, "B") = {}
  /\ s = "vs_hash" =>
       /\ Teamed /\ OneGMToBe(p)
       /\ \A t \in Team :
            /\ r.drawers[t] \in teams[t]
            /\ \A q \in Certain(p) : Will(p, q) = DrawerOf[t] <=> q = r.drawers[t]
  /\ s = "pick_room" =>
       IF room.mode = "VS" THEN ~Looping(p) /\ Staffed
       ELSE /\ hash.drawer \in known \ {room.gm} /\ OneGMToBe(p)
            /\ hash.drawer \in Certain(p) => Will(p, hash.drawer) = "drawer"

StartSound(p) ==
  /\ room.state \in {"ROLE_PICK", "CONFIG", "IN_GAME", "GAME_END"} /\ Staffed
  /\ Stage(p) = "start_room" => game.drawer = hash.drawer /\ game.vote # "yes"

ResetSound(p) ==
  LET s == Stage(p) IN
  /\ room.mode = "VS" /\ s \in {"clear_gm"} \cup ResetStage =>
       \A t \in Team : \A q \in teams[t] : req[p].plan[q] = "out"
  /\ room.mode = "VS" /\ s \in ResetStage => room.gm = Nobody
  /\ room.mode = "SINGLE" /\ s \in {"clear_hash", "clear_gm"} \cup ResetStage =>
       \A q \in Certain(p) : Will(p, q) = "none"
  /\ room.mode = "SINGLE" /\ s = "reset_room" => room.gm = Nobody
  /\ s \in {"reset_game", "reset_room"} \/ (s = "clear_gm" /\ room.mode = "SINGLE")
       => secret = "none"

Sound(p) ==
  LET k == req[p].kind IN
  /\ k = "pick" => PickSound(p)
  /\ k = "config" => room.state \in {"ROLE_PICK", "CONFIG"}
  /\ k = "start" => StartSound(p)
  /\ k = "over" => room.state \in {"IN_GAME", "GAME_END"} /\ game.vote # "yes"
  /\ k \in {"lost", "reset"} => room.state \in {"WAITING", "GAME_END"}
  /\ k = "reset" => ResetSound(p)
Sounds == \A p \in Pid : Sound(p)

StateSound ==
  /\ room.state = "WAITING" /\ ~Some("pick") => Clear
  /\ room.state \in {"ROLE_PICK", "CONFIG", "IN_GAME"} /\ ~Some("pick") /\ ~Some("over")
       => Staffed
  /\ room.state = "IN_GAME" => game.vote # "yes"
  /\ room.state = "IN_GAME" /\ ~Some("over") => game.drawer = hash.drawer
  /\ game.vote = "yes" /\ (room.state = "GAME_END" \/ Ending) =>
       /\ room.state \in {"WAITING", "GAME_END"}
       /\ ~Some("pick") /\ ~Some("config") /\ ~Some("start")
  /\ secret # "none" => room.state \in {"CONFIG", "IN_GAME", "GAME_END"} \/ Some("config")
  /\ ~Some("pick") => Blind
  /\ IF room.mode = "VS" THEN hash.drawer = Nobody
                         ELSE hash.drawerA = Nobody /\ hash.drawerB = Nobody
  /\ Cardinality(known) >= MinPlayers[room.mode]
  /\ \A q \in Pid \ known : role[q] = "none"

IInv == Typed /\ Shaped /\ Together /\ StateSound /\ Sounds

-----------------------------------------------------------------------------
(***************************************************************************)
(* Requests keep to their stages, and to what they write.                  *)
(***************************************************************************)
LEMMA OnStage ==
  ASSUME NEW p \in Pid, NEW s \in Pc \ {"get", "set"}, NEW plan, On(p, s, plan)
  PROVE  /\ Stage(p)' = s /\ req'[p].pc # "set" /\ (~Looping(p)' => req'[p].plan = NoPlan)
         /\ req'[p].kind = req[p].kind /\ req'[p].plan = plan /\ req'[p].gm = req[p].gm
         /\ Moved(p)
  BY DEF On, Stage, Looping

LEMMA GoneStage ==
  ASSUME NEW p \in Pid, NEW s \in Pc \ {"get", "set"}, Gone(p, s)
  PROVE  /\ Stage(p)' = s /\ ~Looping(p)' /\ req'[p].kind = req[p].kind
         /\ req'[p].plan = req[p].plan /\ req'[p].gm = req[p].gm /\ Moved(p) /\ Same(p)
  BY DEF Gone, Stage, Looping

LEMMA IdleStage ==
  ASSUME NEW p \in Pid, req'[p] = Idle
  PROVE  /\ Stage(p)' = "idle" /\ ~Looping(p)' /\ req'[p].kind = "touch"
         /\ req'[p].plan = NoPlan /\ req'[p].pc = "idle"
  BY Requests DEF Stage, Looping

\* Only what is written to the teams is the concern of the others.
LEMMA OtherShapes ==
  ASSUME NEW p \in Pid, \A q \in Pid \ {p} : req'[q] = req[q], Shaped, Shape(p)',
         teams' = teams, room'.mode = room.mode
  PROVE  Shaped'
  BY DEF Shaped, Shape, Belongs, Stage, Looping

LEMMA StepShape ==
  ASSUME Typed, Shaped, NEW p \in Pid, Step(p), ~GetRecord(p),
         room'.mode = room.mode
  PROVE  Shape(p)'
<1>1. Shape(p) /\ room.mode \in Mode
  BY TypedFacts DEF Shaped
<1>0. ~Looping(p) => /\ Belongs(room.mode, req[p].kind, req[p].pc)
                     /\ Stage(p) = req[p].pc /\ req[p].plan = NoPlan
  BY <1>1 DEF Shape, Stage
<1>2. ASSUME NEW s \in Pc \ {"get", "set"}, On(p, s, req'[p].plan),
             Belongs(room.mode, req[p].kind, s), \A q \in Pid : Writes(req[p].kind, s, req'[p].plan[q])
      PROVE  Shape(p)'
  <2>1. /\ Stage(p)' = s /\ req'[p].pc # "set" /\ (~Looping(p)' => req'[p].plan = NoPlan)
        /\ req'[p].kind = req[p].kind
    BY <1>2, OnStage
  <2>2. Belongs(room'.mode, req'[p].kind, s)
    BY <1>2, <2>1
  <2>3. \A q \in Pid : Writes(req'[p].kind, s, req'[p].plan[q])
    BY <1>2, <2>1
  <2> QED
    BY <2>1, <2>2, <2>3 DEF Shape
<1>3. ASSUME NEW s \in Pc \ {"get", "set"}, Gone(p, s), Belongs(room.mode, req[p].kind, s), ~Looping(p)
      PROVE  Shape(p)'
  <2>1. /\ Stage(p)' = s /\ ~Looping(p)' /\ req'[p].plan = NoPlan /\ req'[p].kind = req[p].kind
    BY <1>1, <1>3, GoneStage DEF Shape
  <2>2. Belongs(room'.mode, req'[p].kind, s)
    BY <1>3, <2>1
  <2> QED
    BY <2>1, <2>2 DEF Shape, Looping
<1>4. CASE req'[p] = Idle
  BY <1>4, IdleStage DEF Shape, Belongs, Looping
<1>5. CASE SetRecord(p)
  <2>1. req[p].next \in Pc \ {"get", "set"} /\ req[p].pc = "set"
        /\ req'[p].plan = [req[p].plan EXCEPT ![req[p].copy.who] = "keep"]
    BY <1>5, SetRecordIs, TypedFacts DEF Found, Request
  <2>2. Stage(p) = req[p].next /\ Looping(p)
    BY <2>1 DEF Stage, Looping
  <2>3. req[p].plan \in [Pid -> Item]
    BY TypedFacts DEF Request, Item
  <2>4. \A q \in Pid : Writes(req[p].kind, req[p].next, req'[p].plan[q])
    BY <1>1, <2>1, <2>2, <2>3 DEF Shape, Writes
  <2> QED
    BY <1>1, <1>2, <1>4, <1>5, <2>1, <2>2, <2>4, SetRecordIs DEF Shape
<1>6. CASE ListPlayers(p)
  <2>1. CASE req'[p].kind = req[p].kind /\ req'[p].plan = req[p].plan
             /\ req'[p].pc \in {AfterGM, "gm_header"}
    <3>1. req[p].pc = "list"
      BY <1>6, ListPlayersIs
    <3>2. ~Looping(p) /\ Stage(p) = "list" /\ req[p].kind = "pick" /\ req'[p].plan = NoPlan
      BY <1>0, <2>1, <3>1 DEF Looping, Belongs, ResetStage
    <3>3. ~Looping(p)' /\ Stage(p)' = req'[p].pc
      BY <2>1 DEF Looping, Stage, AfterGM
    <3> QED
      BY <1>1, <2>1, <3>2, <3>3 DEF Shape, Belongs, AfterGM, Mode, Looping
  <2> QED
    BY <1>4, <1>6, <2>1, ListPlayersIs
<1>7. CASE PickGM(p) \/ GMRole(p)
  <2>1. CASE /\ req[p].pc = "gm_header" /\ On(p, "gm_role", req'[p].plan)
             /\ \A q \in Pid : req'[p].plan[q] \in {"out", "keep"}
    <3>1. req[p].kind = "pick"
      BY <1>0, <2>1 DEF Belongs, ResetStage, Looping
    <3>2. \A q \in Pid : Writes(req[p].kind, "gm_role", req'[p].plan[q])
      BY <2>1, <3>1 DEF Writes
    <3> QED
      BY <1>2, <2>1, <3>1, <3>2 DEF Belongs, Pc
  <2>2. CASE /\ req[p].pc = "gm_role"
             /\ On(p, IF req[p].kind = "pick" THEN AfterGM ELSE "idle", req'[p].plan)
             /\ \A q \in Pid : req'[p].plan[q] \in {"gm", "keep"}
    <3> DEFINE s == IF req[p].kind = "pick" THEN AfterGM ELSE "idle"
    <3>1. req[p].kind \in {"pick", "touch"}
      BY <1>0, <2>2 DEF Belongs, ResetStage, Looping
    <3>2. s \in Pc \ {"get", "set"} /\ Belongs(room.mode, req[p].kind, s)
          /\ \A q \in Pid : Writes(req[p].kind, s, req'[p].plan[q])
      BY <1>1, <2>2, <3>1 DEF Writes, Belongs, AfterGM, Pc, Mode
    <3> HIDE DEF s
    <3> QED
      BY <1>2, <2>2, <3>2 DEF s
  <2> QED
    BY <1>4, <1>7, <2>1, <2>2, GMLoops
<1>8. CASE Split(p)
  <2>1. req[p].pc = "split" /\ req[p].kind = "pick" /\ room.mode = "VS" /\ ~Looping(p)
    BY <1>0, <1>8, SplitIs DEF Belongs, ResetStage, Looping
  <2>2. "vs_roles" \in Pc \ {"get", "set"} /\ Belongs(room.mode, req[p].kind, "vs_roles")
    BY <2>1 DEF Belongs, Pc
  <2>3. CASE Gone(p, "vs_roles")
    BY <1>3, <2>1, <2>2, <2>3
  <2>4. ASSUME NEW a \in SUBSET Pid, NEW pool \in SUBSET Pid, On(p, "vs_roles", Deal(pool, a))
        PROVE  Shape(p)'
    <3>1. req'[p].plan = Deal(pool, a)
      BY <2>4 DEF On
    <3>2. \A q \in Pid : Writes(req[p].kind, "vs_roles", req'[p].plan[q])
      BY <2>1, <3>1 DEF Writes, Deal
    <3> QED
      BY <1>2, <2>2, <2>4, <3>1, <3>2
  <2>5. req[p].here \subseteq Pid
    BY TypedFacts DEF Request
  <2> QED
    BY <1>8, <2>3, <2>4, <2>5, SplitIs
<1>9. CASE AssignVSRoles(p)
  <2>1. req[p].pc = "vs_roles" /\ req[p].kind = "pick" /\ room.mode = "VS"
    BY <1>0, <1>9, AssignVSRolesIs DEF Belongs, ResetStage, Looping
  <2>2. ASSUME NEW a, NEW b, On(p, "vs_hash", VSRoles(req[p].gm, a, b))
        PROVE  Shape(p)'
    <3>1. req'[p].plan = VSRoles(req[p].gm, a, b)
      BY <2>2 DEF On
    <3>2. \A q \in Pid : Writes(req[p].kind, "vs_hash", req'[p].plan[q])
      BY <2>1, <3>1 DEF Writes, VSRoles, Role, Guessing
    <3> QED
      BY <1>2, <2>1, <2>2, <3>1, <3>2 DEF Belongs, Pc
  <2> QED
    BY <1>4, <1>9, <2>2, AssignVSRolesIs
<1>10. CASE AssignSingleRoles(p)
  <2>1. req[p].pc = "single_roles" /\ req[p].kind = "pick"
    BY <1>0, <1>10, AssignSingleRolesIs DEF Belongs, ResetStage, Looping
  <2>2. PICK d \in req[p].here : On(p, "pick_room", SingleRoles(p, d))
    BY <1>10, AssignSingleRolesIs
  <2>3. req'[p].plan = SingleRoles(p, d)
    BY <2>2 DEF On
  <2>4. \A q \in Pid : Writes(req[p].kind, "pick_room", req'[p].plan[q])
    BY <2>1, <2>3 DEF Writes, SingleRoles, Role, Guessing
  <2> QED
    BY <1>2, <2>1, <2>2, <2>3, <2>4 DEF Belongs, Pc
<1>11. CASE ClearRoles(p) \/ ClearTeams(p)
  <2>1. CASE /\ req[p].pc = "clear_roles"
             /\ \A q \in Pid : req'[p].plan[q] \in {"none", "keep"}
             /\ On(p, IF room.mode = "VS" THEN "clear_teams"
                      ELSE IF req[p].kind = "over" THEN "end_game" ELSE "clear_hash",
                   req'[p].plan)
    <3> DEFINE s == IF room.mode = "VS" THEN "clear_teams"
                    ELSE IF req[p].kind = "over" THEN "end_game" ELSE "clear_hash"
    <3>1. \/ req[p].kind = "over" /\ room.mode = "SINGLE"
          \/ req[p].kind = "lost" /\ room.mode = "VS"
          \/ req[p].kind = "reset"
      BY <1>0, <2>1 DEF Belongs, ResetStage, Looping
    <3>2. s \in Pc \ {"get", "set"} /\ Belongs(room.mode, req[p].kind, s)
      BY <1>1, <3>1 DEF Belongs, Pc, Mode
    <3>3. \A q \in Pid : Writes(req[p].kind, s, req'[p].plan[q])
      BY <1>1, <2>1, <3>1 DEF Writes, Mode
    <3> HIDE DEF s
    <3> QED
      BY <1>2, <2>1, <3>2, <3>3 DEF s
  <2>2. CASE /\ req[p].pc = "clear_teams" /\ On(p, "clear_gm", req'[p].plan)
             /\ \A q \in Pid : req'[p].plan[q] \in {"out", "keep"}
    <3>1. req[p].kind \in {"lost", "reset"} /\ room.mode = "VS"
      BY <1>0, <2>2 DEF Belongs, ResetStage, Looping
    <3>2. Belongs(room.mode, req[p].kind, "clear_gm") /\ "clear_gm" \in Pc \ {"get", "set"}
          /\ \A q \in Pid : Writes(req[p].kind, "clear_gm", req'[p].plan[q])
      BY <2>2, <3>1 DEF Belongs, Writes, Pc
    <3> QED
      BY <1>2, <2>2, <3>2
  <2> QED
    BY <1>11, <2>1, <2>2, ClearLoops
<1>12. CASE Plain(p)
  <2>1. /\ req[p].pc \in Pc \ {"idle", "get", "set"}
        /\ \/ req'[p] = Idle
           \/ req'[p].pc \in After(p, req[p].pc) /\ Gone(p, req'[p].pc)
    BY <1>12, PlainIs
  <2>2. ~Looping(p) /\ Belongs(room.mode, req[p].kind, req[p].pc)
    BY <1>1, <2>1 DEF Shape, Looping, Stage
  <2>3. ASSUME NEW s \in After(p, req[p].pc)
        PROVE  s \in Pc \ {"get", "set"} /\ Belongs(room.mode, req[p].kind, s)
    BY <1>1, <2>1, <2>2 DEF After, Belongs, Pc, ResetStage, Mode
  <2> QED
    BY <1>3, <1>4, <2>1, <2>2, <2>3
<1> QED
  BY <1>5, <1>6, <1>7, <1>8, <1>9, <1>10, <1>11, <1>12 DEF Step, Plain

\* What the steps have in common: one request moves, and its kind stays until it
\* has been handled.
LEMMA StepMoves ==
  ASSUME Typed, NEW p \in Pid, Step(p)
  PROVE  /\ Moved(p) /\ req[p].pc # "idle" /\ room'.mode = room.mode
         /\ UNCHANGED <<known, moves>>
         /\ req'[p] = Idle \/ req'[p].kind = req[p].kind
<1>1. CASE Plain(p)
  <2>1. room'.mode = room.mode
    <3>1. CASE PickRoom(p) \/ ConfigRoom(p) \/ StartRoom(p) \/ EndRoom(p) \/ ResetRoom(p)
      BY <3>1, RoomIs
    <3>2. CASE ClearGM(p)
      BY <3>2, TypedFacts, GMWritten DEF ClearGM
    <3>3. CASE \/ VSHash(p) \/ WriteConfig(p) \/ AutoStartRead(p) \/ ReadConfig(p)
               \/ StartGame(p) \/ EndGame(p) \/ Lose(p) \/ ClearHash(p)
               \/ ClearConfig(p) \/ ResetGame(p)
      BY <3>3 DEF VSHash, WriteConfig, AutoStartRead, ReadConfig, StartGame, EndGame, Lose,
                  ClearHash, ClearConfig, ResetGame
    <3> QED
      BY <1>1, <3>1, <3>2, <3>3 DEF Plain
  <2> QED
    BY <1>1, <2>1, PlainIs DEF Gone, people
<1>2. CASE ListPlayers(p) \/ AssignVSRoles(p) \/ Split(p) \/ ClearRoles(p) \/ ClearTeams(p)
  BY <1>2, ListPlayersIs, AssignVSRolesIs, SplitIs, ClearLoops DEF Quiet, people, On, Gone
<1>3. CASE PickGM(p) \/ GMRole(p)
  <2>1. req[p].gm \in Pid \cup {Nobody}
    BY TypedFacts DEF Request
  <2>2. room'.mode = room.mode
    BY <1>3, <2>1, GMLoops, GMWritten, TypedFacts
  <2> QED
    BY <1>3, <2>2, GMLoops DEF On, people
<1>4. CASE GetRecord(p) \/ SetRecord(p) \/ AssignSingleRoles(p)
  BY <1>4, GetRecordIs, SetRecordIs, AssignSingleRolesIs DEF On, people
<1> QED
  BY <1>1, <1>2, <1>3, <1>4 DEF Step, Plain

LEMMA ShapedStep == Typed /\ Shaped /\ Together /\ [Next]_vars => Shaped'
<1> SUFFICES ASSUME Typed, Shaped, Together, [Next]_vars PROVE Shaped'
  OBVIOUS
<1>1. CASE UNCHANGED <<req, teams>> /\ room'.mode = room.mode
  BY <1>1 DEF Shaped, Shape, Stage, Looping
<1>2. ASSUME NEW p \in Pid, Leave(p) \/ Heartbeat(p) \/ JoinAsGM(p) PROVE Shaped'
  <2>1. /\ UNCHANGED <<room, teams>> /\ Moved(p)
        /\ req'[p].kind = "touch" /\ req'[p].pc = "get"
        /\ req'[p].next \in {"idle", "gm_role"}
        /\ \A q \in Pid : req'[p].plan[q] \in {"keep", "here", "away"}
    BY <1>2, Touches
  <2>2. Shape(p)'
    BY <2>1 DEF Shape, Stage, Looping, Belongs, Writes
  <2> QED
    BY <2>1, <2>2, OtherShapes DEF Moved
<1>3. ASSUME NEW p \in Pid, Begin(p) PROVE Shaped'
  <2>1. UNCHANGED <<room, teams>> /\ Moved(p) /\ room.mode \in Mode
    BY <1>3, Begins, TypedFacts DEF Quiet
  <2>2. /\ req'[p].pc \notin {"get", "set"} /\ req'[p].plan = NoPlan
        /\ Belongs(room.mode, req'[p].kind, req'[p].pc)
    BY <1>3, <2>1, Begins DEF Belongs, Mode
  <2>3. Shape(p)'
    BY <2>1, <2>2 DEF Shape, Stage, Looping
  <2> QED
    BY <2>1, <2>3, OtherShapes DEF Moved
<1>4. ASSUME NEW p \in Pid, Step(p) PROVE Shaped'
  <2>1. Moved(p) /\ room'.mode = room.mode
    BY <1>4, StepMoves
  <2>2. CASE GetRecord(p)
    <3>1. PICK x \in known :
            /\ req[p].plan[x] # "keep" /\ req'[p].copy.who = x
            /\ \/ req[p].plan[x] \notin TeamItem /\ teams' = teams
               \/ /\ req[p].plan[x] \in TeamItem
                  /\ teams' = [t \in Team |-> IF t = req[p].plan[x] THEN teams[t] \cup {x}
                                                                    ELSE teams[t] \ {x}]
      BY <2>2, GetRecordIs
    <3>2. /\ req[p].pc = "get" /\ req'[p].pc = "set"
          /\ req'[p].next = req[p].next /\ req'[p].plan = req[p].plan
          /\ req'[p].kind = req[p].kind /\ x \in Pid
      BY <2>2, GetRecordIs, TypedFacts
    <3>3. Stage(p)' = Stage(p) /\ Looping(p)' /\ Looping(p) /\ Shape(p)
      BY <3>2 DEF Stage, Looping, Shaped
    <3>4. Shape(p)'
      BY <2>1, <3>1, <3>2, <3>3 DEF Shape, TeamItem
    <3>5. ASSUME NEW q \in Pid \ {p} PROVE Shape(q)'
      <4>1. req'[q] = req[q] /\ Shape(q) /\ Stage(q)' = Stage(q) /\ (Looping(q)' <=> Looping(q))
        BY <2>1 DEF Moved, Shaped, Stage, Looping
      <4>2. CASE teams' = teams
        BY <2>1, <4>1, <4>2 DEF Shape
      <4>3. CASE req[q].pc # "set" \/ req[q].plan[req[q].copy.who] \notin TeamItem
        BY <2>1, <4>1, <4>3 DEF Shape
      <4>4. CASE /\ req[p].plan[x] \in TeamItem
                 /\ req[q].pc = "set" /\ req[q].plan[req[q].copy.who] \in TeamItem
        <5>1. req[q].copy.who \in Pid
          BY <4>4, TypedFacts DEF Found
        <5>2. /\ Writes(req[p].kind, Stage(p), req[p].plan[x])
              /\ Writes(req[q].kind, Stage(q), req[q].plan[req[q].copy.who])
          BY <3>2, <3>3, <4>1, <4>4, <5>1 DEF Shape, Looping
        <5>3. req[p].kind # "touch" /\ req[q].kind # "touch"
          BY <4>4, <5>2 DEF Writes, TeamItem, Role, Guessing
        <5>4. req[p].kind # "pick" /\ req[q].kind # "pick"
          BY <5>3 DEF Together, Apart, Harmless
        <5>5. req[p].plan[x] = "out" /\ req[q].plan[req[q].copy.who] = "out"
          BY <4>4, <5>2, <5>3, <5>4 DEF Writes, TeamItem
        <5>6. teams' = [t \in Team |-> teams[t] \ {x}]
          BY <3>1, <5>5 DEF TeamItem, Team
        <5>7. \A t \in Team : req[q].copy.who \notin teams'[t]
          BY <4>1, <4>4, <5>5, <5>6 DEF Shape, Team
        <5> QED
          BY <2>1, <4>1, <5>5, <5>7 DEF Shape, Team
      <4> QED
        BY <3>1, <4>2, <4>3, <4>4
    <3> QED
      BY <3>4, <3>5 DEF Shaped
  <2>3. CASE ~GetRecord(p)
    <3>1. teams' = teams
      <4>1. CASE Plain(p) \/ SetRecord(p) \/ AssignSingleRoles(p)
        BY <4>1, PlainIs, SetRecordIs, AssignSingleRolesIs
      <4>2. CASE \/ ListPlayers(p) \/ Split(p) \/ AssignVSRoles(p) \/ ClearRoles(p)
                 \/ ClearTeams(p)
        BY <4>2, ListPlayersIs, SplitIs, AssignVSRolesIs, ClearLoops DEF Quiet
      <4>3. CASE PickGM(p) \/ GMRole(p)
        BY <4>3, GMLoops
      <4> QED
        BY <1>4, <2>3, <4>1, <4>2, <4>3 DEF Step, Plain
    <3>2. Shape(p)'
      BY <1>4, <2>1, <2>3, StepShape
    <3> QED
      BY <2>1, <3>1, <3>2, OtherShapes DEF Moved
  <2> QED
    BY <2>2, <2>3
<1>5. ASSUME NEW p \in Pid, Join(p) PROVE Shaped'
  BY <1>1, <1>5 DEF Join
<1>6. CASE VoteYes \/ CountdownRunsOut
  BY <1>1, <1>6, TypedFacts, CountdownWritten DEF VoteYes, CountdownRunsOut
<1>7. CASE UNCHANGED vars
  BY <1>1, <1>7 DEF vars
<1> QED
  BY <1>2, <1>3, <1>4, <1>5, <1>6, <1>7 DEF Next

-----------------------------------------------------------------------------
(***************************************************************************)
(* Which requests may be under way together.                               *)
(***************************************************************************)
LEMMA TogetherStep ==
  ASSUME Overlapping \subseteq Harmless
  PROVE  IInv /\ [Next]_vars => Together'
<1> SUFFICES ASSUME IInv, [Next]_vars PROVE Together'
  OBVIOUS
<1>1. Typed /\ Together /\ StateSound /\ \A q \in Pid : Sound(q)
  BY DEF IInv, Sounds
<1>2. ASSUME NEW p \in Pid, Moved(p), req'[p].kind \in {"touch", req[p].kind}
      PROVE  Together'
  BY <1>1, <1>2 DEF Together, Moved
<1>3. ASSUME NEW p \in Pid, Begin(p) PROVE Together'
  <2> DEFINE k == req'[p].kind
  <2>1. Moved(p)
    BY <1>1, <1>3, Begins
  <2>2. ASSUME NEW q \in Pid, req[q].kind # "touch"
        PROVE  Apart(req[q].kind, k) /\ Apart(k, req[q].kind)
    <3>1. req[q].kind \in Harmless /\ k \in Harmless
      BY <1>1, <1>3, <2>2, Begins
    <3>2. \A kinds : req[q].kind \in kinds => UnderWay(kinds)
      BY <1>1, <2>2, TypedFacts DEF Found, UnderWay, Busy
    <3>3. Sound(q)
      BY <1>1
    <3>4. CASE k = "start" /\ room.state \in {"ROLE_PICK", "CONFIG"}
      <4>1. req[q].kind \in {"start", "end"}
        BY <3>1, <3>3, <3>4 DEF Sound, Harmless
      <4> QED
        BY <3>1, <3>4, <4>1 DEF Apart
    <3>5. CASE k = "over" /\ room.state = "IN_GAME" /\ ~UnderWay({"start", "over"})
      <4>1. req[q].kind = "end"
        BY <3>1, <3>2, <3>3, <3>5 DEF Sound, Harmless
      <4> QED
        BY <3>1, <3>5, <4>1 DEF Apart
    <3>6. CASE k = "end"
      BY <3>1, <3>6 DEF Apart
    <3>7. CASE k = "lost" /\ Voting
      <4>1. req[q].kind \in {"end", "lost", "reset"}
        BY <3>1, <3>2, <3>7 DEF Voting, Harmless
      <4> QED
        BY <3>1, <3>7, <4>1 DEF Apart
    <3>8. CASE k = "reset" /\ room.state = "GAME_END" /\ game.vote = "yes"
      <4>1. req[q].kind \in {"end", "lost", "reset"}
        BY <1>1, <3>1, <3>3, <3>8 DEF Sound, StateSound, Some, Harmless
      <4> QED
        BY <3>1, <3>8, <4>1 DEF Apart
    <3> QED
      BY <1>1, <1>3, <3>1, <3>4, <3>5, <3>6, <3>7, <3>8, Begins DEF Harmless
  <2> QED
    BY <1>1, <2>1, <2>2 DEF Together, Moved
<1>4. ASSUME NEW p \in Pid, Step(p) PROVE Together'
  BY <1>1, <1>2, <1>4, StepMoves, Requests
<1>5. ASSUME NEW p \in Pid, Leave(p) \/ Heartbeat(p) \/ JoinAsGM(p) PROVE Together'
  BY <1>1, <1>2, <1>5, Touches
<1>6. CASE UNCHANGED req
  BY <1>1, <1>6 DEF Together
<1> QED
  BY <1>3, <1>4, <1>5, <1>6 DEF Next, Join, VoteYes, CountdownRunsOut, vars

-----------------------------------------------------------------------------
(***************************************************************************)
(* Whoever joins, leaves or sends a heartbeat, and whatever old record is  *)
(* written back, the players outside restored keep their roles.            *)
(***************************************************************************)
SameRoom == room'.mode = room.mode /\ room'.state = room.state /\ room'.gm = room.gm
RolesKept ==
  /\ known \subseteq known'
  /\ \A q \in known' \ restored' : \/ q \in Told /\ role'[q] = role[q]
                                   \/ q \notin known /\ role'[q] = "none"

LEMMA SomeStays ==
  ASSUME NEW p \in Pid, Moved(p), req'[p].kind = req[p].kind
  PROVE  \A k : Some(k)' <=> Some(k)
  BY DEF Moved, Some

LEMMA KeptRoles ==
  ASSUME Typed, SameRoom, RolesKept, UNCHANGED <<teams, hash>>
  PROVE  /\ NoRoles => NoRoles'
         /\ Clear => Clear'
         /\ OneGM => OneGM'
         /\ Teamed => Teamed'
         /\ Staffed => Staffed'
         /\ Blind => Blind'
<1>1. /\ room.mode \in Mode /\ Nobody \notin Pid /\ known \subseteq Pid
      /\ teams \in [Team -> SUBSET known]
  BY TypedFacts
<1>2. \A q \in Told' : \/ q \in Told /\ role'[q] = role[q]
                       \/ q \notin known /\ role'[q] = "none"
  BY DEF RolesKept, Told
<1>3. NoRoles => NoRoles'
  BY <1>2 DEF NoRoles
<1>4. Clear => Clear'
  BY <1>3 DEF Clear, SameRoom
<1>5. OneGM => OneGM'
  BY <1>2 DEF OneGM, SameRoom, RolesKept
<1>6. Teamed => Teamed'
  BY DEF Teamed, SameRoom
<1>7. Drawn => Drawn'
  <2>1. CASE room.mode = "VS"
    <3>1. \A t \in Team : DrawerOf[t] # "none"
      BY DEF DrawerOf
    <3>2. \A t \in Team : hash[DrawerOf[t]] \in teams[t] => hash[DrawerOf[t]] \in known
      BY <1>1
    <3> QED
      BY <1>2, <2>1, <3>1, <3>2 DEF Drawn, SameRoom
  <2>2. CASE room.mode # "VS"
    BY <1>2, <2>2 DEF Drawn, SameRoom, RolesKept
  <2> QED
    BY <2>1, <2>2
<1>8. Staffed => Staffed'
  BY <1>5, <1>6, <1>7 DEF Staffed, SameRoom
<1>9. Blind => Blind'
  BY <1>2 DEF Blind, SameRoom, Guessing
<1> QED
  BY <1>3, <1>4, <1>5, <1>6, <1>8, <1>9

\* A plan that is carried out, by p or by others.
PlanKept(p) ==
  \A q \in Certain(p)' : \/ q \in Certain(p) /\ Will(p, q)' = Will(p, q)
                         \/ q \notin known /\ Will(p, q)' = "none"

LEMMA RolesPlan ==
  ASSUME Typed, RolesKept, NEW p \in Pid, req'[p].plan = req[p].plan, known' \subseteq Pid
  PROVE  PlanKept(p)
<1>1. \A q \in Pid : req[p].plan[q] # "keep" => q \in known
  BY TypedFacts DEF Found
<1>2. "keep" \notin Role
  BY DEF Role, Guessing
<1> QED
  BY <1>1, <1>2 DEF PlanKept, RolesKept, Certain, Will, Told

\* A role pick goes on to write records, or others write theirs.
LEMMA PickGoesOn ==
  ASSUME Typed, NEW p \in Pid, PickSound(p), SameRoom, UNCHANGED <<hash, secret>>,
         known \subseteq known',
         Stage(p)' = Stage(p), Looping(p)' => Looping(p), PlanKept(p),
         req'[p].gm = req[p].gm, Same(p),
         \A t \in Team : WillTeam(p, t)' = WillTeam(p, t),
         \/ teams' = teams
         \/ teams = NoTeams /\ teams' = NoTeams
         \/ Stage(p) = "vs_roles"
         \/ Stage(p) = "gm_role" /\ room.mode # "VS",
         \/ teams' = teams /\ RolesKept
         \/ Stage(p) = "gm_role" /\ RolesKept
         \/ Stage(p) \notin {"list", "gm_header", "gm_role"} /\ Looping(p),
         Belongs(room.mode, "pick", Stage(p))
  PROVE  PickSound(p)'
<1> DEFINE r == req[p]
           s == Stage(p)
<1>1. /\ room.mode \in Mode /\ Nobody \notin Pid /\ known \subseteq Pid
      /\ teams \in [Team -> SUBSET known] /\ hash \in Hash
  BY TypedFacts
<1>2. /\ room'.state \in {"WAITING", "ROLE_PICK"} /\ secret' = "none"
      /\ s # "list" => r.gm \in known'
      /\ s \in {"gm_header", "gm_role", "split", "single_roles"} =>
           Cardinality(req'[p].here) >= MinPlayers[room'.mode]
      /\ s \notin {"list", "gm_header"} => room'.gm = req'[p].gm /\ room.gm \in known
  BY DEF PickSound, SameRoom, Same
<1>3. room.gm \in known /\ OneGMToBe(p) => OneGMToBe(p)'
  BY DEF OneGMToBe, PlanKept, SameRoom
<1>4. CASE s = "list"
  <2>1. /\ Clear => Clear'
        /\ Staffed => Staffed'
        /\ Blind => Blind'
    BY <1>4, KeptRoles
  <2> QED
    BY <1>2, <1>4, <2>1 DEF PickSound, SameRoom
<1>5. CASE s = "gm_header"
  <2>1. Clear => Clear'
    BY <1>5, KeptRoles
  <2> QED
    BY <1>2, <1>5, <2>1 DEF PickSound, SameRoom
<1>6. CASE s = "gm_role"
  <2>1. NoRoles => NoRoles'
    BY <1>6 DEF NoRoles, RolesKept, Told
  <2>2. room.mode = "VS" /\ teams = NoTeams => teams' = NoTeams
    BY <1>6
  <2> QED
    BY <1>2, <1>6, <2>1, <2>2 DEF PickSound, SameRoom
<1>7. CASE s \in {"split", "single_roles"}
  <2>1. teams = NoTeams => teams' = NoTeams
    BY <1>7
  <2> QED
    BY <1>2, <1>3, <1>7, <2>1 DEF PickSound, SameRoom
<1>8. CASE s = "vs_roles"
  BY <1>2, <1>8 DEF PickSound, SameRoom, Team
<1>9. CASE s = "vs_hash"
  <2>1. Teamed'
    BY <1>9 DEF PickSound, Teamed, SameRoom
  <2>2. ASSUME NEW t \in Team
        PROVE  /\ req'[p].drawers[t] \in teams'[t]
               /\ \A q \in Certain(p)' : Will(p, q)' = DrawerOf[t] <=> q = req'[p].drawers[t]
    <3>1. r.drawers[t] \in teams[t] /\ teams[t] \subseteq known /\ DrawerOf[t] # "none"
          /\ \A q \in Certain(p) : Will(p, q) = DrawerOf[t] <=> q = r.drawers[t]
      BY <1>1, <1>9 DEF PickSound, DrawerOf
    <3> QED
      BY <1>9, <3>1 DEF PlanKept, Same
  <2>3. OneGMToBe(p)'
    BY <1>2, <1>3, <1>9 DEF PickSound
  <2> QED
    BY <1>2, <1>9, <2>1, <2>2, <2>3 DEF PickSound, SameRoom
<1>10. CASE s = "pick_room"
  <2>1. CASE room.mode = "VS"
    <3>1. Staffed /\ ~Looping(p)
      BY <1>10, <2>1 DEF PickSound
    <3>2. Staffed' /\ ~Looping(p)'
      BY <1>10, <3>1, KeptRoles
    <3> QED
      BY <1>2, <1>10, <2>1, <3>2 DEF PickSound, SameRoom
  <2>2. CASE room.mode # "VS"
    <3>1. /\ hash.drawer \in known \ {room.gm} /\ OneGMToBe(p)
          /\ hash.drawer \in Certain(p) => Will(p, hash.drawer) = "drawer"
      BY <1>10, <2>2 DEF PickSound
    <3>2. hash.drawer \in Certain(p)' => Will(p, hash.drawer)' = "drawer"
      BY <3>1 DEF PlanKept
    <3>3. OneGMToBe(p)'
      BY <1>2, <1>3, <1>10, <3>1
    <3>4. (hash.drawer \in Certain(p) => Will(p, hash.drawer) = "drawer")'
      BY <3>2
    <3> QED
      BY <1>2, <1>10, <2>2, <3>1, <3>3, <3>4 DEF PickSound, SameRoom
  <2> QED
    BY <2>1, <2>2
<1> QED
  BY <1>4, <1>5, <1>6, <1>7, <1>8, <1>9, <1>10 DEF Belongs

\* So does a reset; others only take players off the teams meanwhile.
LEMMA ResetGoesOn ==
  ASSUME NEW p \in Pid, ResetSound(p), SameRoom, UNCHANGED secret, Stage(p)' = Stage(p),
         \A q \in Certain(p)' : \/ q \in Certain(p) /\ Will(p, q)' = Will(p, q)
                                \/ Will(p, q)' = "none",
         \A t \in Team : \A q \in teams'[t] :
           q \in teams[t] /\ (req[p].plan[q] = "out" => req'[p].plan[q] = "out")
  PROVE  ResetSound(p)'
  BY DEF ResetSound, SameRoom

LEMMA Calm ==
  ASSUME Typed, Shaped, StateSound, Sounds, SameRoom, RolesKept, known' \subseteq Pid,
         UNCHANGED <<teams, hash, secret, game>>,
         \A q \in Pid : \/ req'[q] = req[q]
                        \/ /\ req[q].kind = "touch" /\ req'[q].kind = "touch"
                           /\ Stage(q)' # "end_room",
         Cardinality(known') >= MinPlayers[room.mode],
         \A q \in Pid \ known' : role'[q] = "none"
  PROVE  StateSound' /\ Sounds'
<1>1. /\ Clear => Clear'
      /\ Staffed => Staffed'
      /\ Blind => Blind'
  BY KeptRoles
<1>2. \A k : k # "touch" => (Some(k)' <=> Some(k))
  BY DEF Some
<1>3. Ending' => Ending
  BY DEF Ending, Stage, Looping
<1>4. StateSound'
  BY <1>1, <1>2, <1>3 DEF StateSound, SameRoom
<1>5. ASSUME NEW q \in Pid PROVE Sound(q)'
  <2>1. CASE req'[q].kind = "touch"
    BY <2>1 DEF Sound
  <2>2. CASE req'[q] = req[q]
    <3>1. /\ Sound(q) /\ Stage(q)' = Stage(q) /\ (Looping(q)' <=> Looping(q)) /\ Same(q)
          /\ \A t \in Team : WillTeam(q, t)' = WillTeam(q, t)
      BY <2>2 DEF Sounds, Stage, Looping, Same, WillTeam
    <3>2. PlanKept(q)
      BY <2>2, RolesPlan
    <3>3. CASE req[q].kind = "pick"
      <4>1. Belongs(room.mode, "pick", Stage(q))
        BY <3>3 DEF Shaped, Shape
      <4>2. PickSound(q)'
        BY <2>2, <3>1, <3>2, <3>3, <4>1, PickGoesOn DEF Sound, RolesKept
      <4> QED
        BY <2>2, <3>3, <4>2 DEF Sound
    <3>4. CASE req[q].kind = "reset"
      <4>1. ResetSound(q)'
        BY <2>2, <3>1, <3>2, <3>4, ResetGoesOn DEF Sound, PlanKept
      <4> QED
        BY <2>2, <3>1, <3>4, <4>1 DEF Sound, SameRoom
    <3>5. CASE req[q].kind = "start"
      BY <1>1, <2>2, <3>1, <3>5 DEF Sound, StartSound, SameRoom
    <3>6. CASE req[q].kind \notin {"pick", "reset", "start"}
      BY <2>2, <3>1, <3>6 DEF Sound, SameRoom
    <3> QED
      BY <3>3, <3>4, <3>5, <3>6
  <2> QED
    BY <2>1, <2>2
<1> QED
  BY <1>4, <1>5 DEF Sounds

LEMMA TouchSound ==
  ASSUME IInv, NEW p \in Pid,
         \/ Join(p) \/ Leave(p) \/ Heartbeat(p) \/ JoinAsGM(p)
         \/ Step(p) /\ req[p].kind = "touch"
         \/ CountdownRunsOut
         \/ UNCHANGED vars
  PROVE  StateSound' /\ Sounds'
<1>1. /\ Typed /\ Shaped /\ StateSound /\ Sounds /\ Shape(p)
      /\ Cardinality(known) >= MinPlayers[room.mode] /\ \A q \in Pid \ known : role[q] = "none"
      /\ known \subseteq Pid /\ room.mode \in Mode
  BY TypedFacts DEF IInv, StateSound, Shaped
<1>2. CASE /\ SameRoom /\ UNCHANGED <<known, teams, hash, secret, game>> /\ RolesKept
           /\ \A q \in Pid : \/ req'[q] = req[q]
                             \/ /\ req[q].kind = "touch" /\ req'[q].kind = "touch"
                                /\ Stage(q)' # "end_room"
           /\ \A q \in Pid \ known : role'[q] = "none"
  BY <1>1, <1>2, Calm
<1>3. UNCHANGED <<role, known, restored>> => RolesKept
  BY DEF RolesKept, Told
<1>4. CASE Leave(p) \/ Heartbeat(p) \/ JoinAsGM(p)
  <2>1. /\ UNCHANGED <<room, role, known, restored, teams, hash, secret, game>>
        /\ Moved(p) /\ req[p].kind = "touch" /\ req'[p].kind = "touch" /\ req'[p].pc = "get"
        /\ req'[p].next \in {"idle", "gm_role"}
    BY <1>1, <1>4, Touches
  <2>2. Stage(p)' # "end_room"
    BY <2>1 DEF Stage, Looping
  <2> QED
    BY <1>1, <1>2, <1>3, <2>1, <2>2 DEF SameRoom, Moved
<1>5. CASE CountdownRunsOut \/ UNCHANGED vars
  <2>1. SameRoom
    BY <1>1, <1>5, TypedFacts, CountdownWritten DEF CountdownRunsOut, vars, SameRoom
  <2>2. UNCHANGED <<role, known, restored, teams, hash, secret, game, req>>
    BY <1>5 DEF CountdownRunsOut, vars, people
  <2> QED
    BY <1>1, <1>2, <1>3, <2>1, <2>2
<1>6. CASE Join(p)
  <2>1. /\ known' = known \cup {p} /\ p \notin known
        /\ UNCHANGED <<room, role, teams, hash, secret, game, req, restored>>
    BY <1>6 DEF Join
  <2>2. RolesKept
    BY <1>1, <2>1 DEF RolesKept, Told
  <2>3. Cardinality(known') >= MinPlayers[room.mode]
    <3>1. IsFiniteSet(known)
      BY <1>1, LobbyAssumption, FS_Subset
    <3>2. Cardinality(known') = Cardinality(known) + 1 /\ Cardinality(known) \in Nat
      BY <2>1, <3>1, FS_AddElement, FS_CardinalityType
    <3>3. MinPlayers[room.mode] \in Nat
      BY <1>1, LobbyAssumption
    <3> QED
      BY <1>1, <3>2, <3>3
  <2> QED
    BY <1>1, <2>1, <2>2, <2>3, Calm DEF SameRoom
<1>7. CASE Step(p) /\ req[p].kind = "touch"
  <2>1. /\ Moved(p) /\ req'[p].kind = "touch" /\ UNCHANGED known
    BY <1>1, <1>7, StepMoves, Requests
  <2>2. Stage(p) \in {"idle", "gm_role"} /\ req[p].pc # "idle"
    BY <1>1, <1>7, StepMoves DEF Shape, Belongs
  <2>3. req[p].pc \in {"get", "set", "gm_role"}
    BY <2>2 DEF Stage, Looping
  <2>4. CASE GMRole(p)
    <3>1. /\ UNCHANGED <<room, people, teams, hash, secret, game>>
          /\ \/ req'[p] = Idle
             \/ On(p, "idle", req'[p].plan)
      BY <1>1, <1>7, <2>4, GMLoops DEF PickGM, GMRole
    <3>2. Stage(p)' # "end_room"
      BY <3>1, OnStage, IdleStage DEF Pc
    <3> QED
      BY <1>1, <1>2, <1>3, <1>7, <2>1, <3>1, <3>2 DEF SameRoom, Moved, people
  <2>5. CASE GetRecord(p)
    <3>1. /\ UNCHANGED <<room, people, hash, secret, game>>
          /\ req[p].pc = "get" /\ req'[p].pc = "set" /\ req'[p].next = req[p].next
      BY <1>1, <2>5, GetRecordIs
    <3>2. PICK x \in known : teams' = teams \/ req[p].plan[x] \in TeamItem
      BY <1>1, <2>5, GetRecordIs
    <3>3. Writes("touch", Stage(p), req[p].plan[x])
      BY <1>1, <1>7, <3>1 DEF Shape, Looping
    <3>4. teams' = teams
      BY <3>2, <3>3 DEF Writes, TeamItem
    <3>5. Stage(p)' # "end_room"
      BY <2>2, <3>1 DEF Stage, Looping
    <3> QED
      BY <1>1, <1>2, <1>3, <1>7, <2>1, <3>1, <3>4, <3>5 DEF SameRoom, Moved, people
  <2>6. CASE SetRecord(p)
    <3>1. /\ UNCHANGED <<room, teams, hash, secret, game>> /\ req[p].pc = "set"
          /\ \/ req'[p] = Idle
             \/ On(p, req[p].next, req'[p].plan)
      BY <1>1, <2>6, SetRecordIs
    <3>2. PICK q \in known :
            /\ \A x \in Pid \ {q} : role'[x] = role[x] /\ (x \in restored' <=> x \in restored)
            /\ q \in restored' \/ (role'[q] = role[q] /\ q \notin restored)
    <4> DEFINE q == req[p].copy.who
               what == req[p].plan[q]
    <4>1. /\ q \in known
          /\ \A x \in Pid \ {q} : role'[x] = role[x] /\ (x \in restored' <=> x \in restored)
          /\ \/ what \in Role /\ req[p].kind # "touch" /\ role'[q] = what /\ q \notin restored'
             \/ /\ what \notin Role \/ req[p].kind = "touch"
                /\ q \in restored' \/ (role'[q] = role[q] /\ q \notin restored)
      BY <1>1, <2>6, SetRecordIs
    <4> HIDE DEF q, what
    <4>2. q \in restored' \/ (role'[q] = role[q] /\ q \notin restored)
      BY <1>7, <4>1
    <4> QED
      BY <4>1, <4>2
    <3>3. RolesKept /\ \A x \in Pid \ known : role'[x] = "none"
      BY <1>1, <2>1, <3>2 DEF RolesKept, Told
    <3>4. Stage(p) = req[p].next
      BY <3>1 DEF Stage, Looping
    <3>5. Stage(p)' # "end_room"
      BY <2>2, <3>1, <3>4, OnStage, IdleStage DEF Pc
    <3> QED
      BY <1>1, <1>2, <1>7, <2>1, <3>1, <3>3, <3>5 DEF SameRoom, Moved
  <2> QED
    BY <1>1, <1>7, <2>3, <2>4, <2>5, <2>6, PlainIs, ListPlayersIs, GMLoops, SplitIs,
       AssignVSRolesIs, AssignSingleRolesIs, ClearLoops
    DEF Step, Plain, VSHash, PickRoom, WriteConfig, ConfigRoom, AutoStartRead, ReadConfig,
        StartGame, StartRoom, EndGame, EndRoom, Lose, ClearHash, ClearGM, ClearConfig,
        ResetGame, ResetRoom, PickGM, GMRole
<1> QED
  BY <1>4, <1>5, <1>6, <1>7

-----------------------------------------------------------------------------
(***************************************************************************)
(* The commands on the records of those who move the room along.           *)
(***************************************************************************)
\* What the clearing of records leaves as it is.
LEMMA Fading ==
  ASSUME Typed, SameRoom, UNCHANGED <<known, hash>>,
         \A q \in Told' : role'[q] = "none" \/ (q \in Told /\ role'[q] = role[q]),
         teams' \in [Team -> SUBSET known], \A t \in Team : teams'[t] \subseteq teams[t]
  PROVE  /\ Clear => Clear'
         /\ Blind => Blind'
<1>1. NoRoles => NoRoles'
  BY DEF NoRoles
<1>2. teams = NoTeams => teams' = NoTeams
  BY DEF NoTeams
<1>3. Clear => Clear'
  BY <1>1, <1>2 DEF Clear, SameRoom
<1>4. Blind => Blind'
  BY DEF Blind, SameRoom, Guessing
<1> QED
  BY <1>3, <1>4

\* A record that p reads or writes back, for a plan of its own.
LEMMA RecordIs ==
  ASSUME IInv, NEW p \in Pid, GetRecord(p) \/ SetRecord(p), req[p].kind # "touch"
  PROVE  /\ SameRoom /\ UNCHANGED <<known, hash, secret, game>> /\ Moved(p)
         /\ req'[p].kind = req[p].kind /\ req'[p].gm = req[p].gm /\ Same(p)
         /\ Stage(p)' = Stage(p) /\ Looping(p) /\ PlanKept(p)
         /\ \A t \in Team : WillTeam(p, t)' = WillTeam(p, t)
         /\ \A x \in Pid \ known : role'[x] = "none"
         /\ teams' \in [Team -> SUBSET known]
         /\ \E q \in known :
              /\ \/ RolesKept
                 \/ /\ req[p].plan[q] \in Role /\ role'[q] = req[p].plan[q] /\ teams' = teams
                    /\ \A x \in Pid \ {q} :
                         role'[x] = role[x] /\ (x \in restored' <=> x \in restored)
              /\ \/ teams' = teams
                 \/ /\ req[p].plan[q] \in TeamItem /\ req'[p].plan = req[p].plan
                    /\ teams' = [t \in Team |-> IF t = req[p].plan[q] THEN teams[t] \cup {q}
                                                                      ELSE teams[t] \ {q}]
         /\ \A t \in Team : \A x \in teams'[t] :
              req[p].plan[x] = "out" => req'[p].plan[x] = "out"
<1>1. /\ Typed /\ Shape(p) /\ \A q \in Pid \ known : role[q] = "none"
      /\ known \subseteq Pid /\ teams \in [Team -> SUBSET known]
      /\ role \in [Pid -> Role] /\ req[p].plan \in [Pid -> Item] /\ "keep" \notin Role
      /\ \A x \in Role : x \notin TeamItem
  BY TypedFacts DEF IInv, Shaped, StateSound, Request, Item, Role, Guessing, TeamItem
<1>2. CASE GetRecord(p)
  <2>1. /\ UNCHANGED <<room, people, hash, secret, game>> /\ Moved(p)
        /\ req'[p].kind = req[p].kind /\ req'[p].gm = req[p].gm /\ Same(p)
        /\ req[p].pc = "get" /\ req'[p].pc = "set" /\ req'[p].plan = req[p].plan
        /\ req'[p].next = req[p].next
    BY <1>1, <1>2, GetRecordIs
  <2>2. PICK q \in known :
          \/ req[p].plan[q] \notin TeamItem /\ teams' = teams
          \/ /\ req[p].plan[q] \in TeamItem
             /\ teams' = [t \in Team |-> IF t = req[p].plan[q] THEN teams[t] \cup {q}
                                                               ELSE teams[t] \ {q}]
    BY <1>1, <1>2, GetRecordIs
  <2>3. RolesKept
    BY <2>1 DEF RolesKept, Told, people
  <2>4. PlanKept(p)
    BY <1>1, <2>1, <2>3, RolesPlan DEF people
  <2>5. \A t \in Team : WillTeam(p, t)' = WillTeam(p, t)
    BY <2>1, <2>2 DEF WillTeam
  <2>6. teams' \in [Team -> SUBSET known]
    BY <1>1, <2>2
  <2>7. Stage(p)' = Stage(p) /\ Looping(p)
    BY <2>1 DEF Stage, Looping
  <2>8. \/ teams' = teams
        \/ /\ req[p].plan[q] \in TeamItem /\ req'[p].plan = req[p].plan
           /\ teams' = [t \in Team |-> IF t = req[p].plan[q] THEN teams[t] \cup {q}
                                                             ELSE teams[t] \ {q}]
    BY <2>1, <2>2
  <2> QED
    BY <1>1, <2>1, <2>3, <2>4, <2>5, <2>6, <2>7, <2>8 DEF SameRoom, people
<1>3. CASE SetRecord(p)
  <2>0. PICK q \in known : q = req[p].copy.who
    BY <1>1, <1>3, SetRecordIs
  <2> DEFINE what == req[p].plan[q]
  <2>1. /\ UNCHANGED <<room, known, teams, hash, secret, game>> /\ Moved(p)
        /\ req[p].pc = "set"
        /\ \/ req'[p] = Idle /\ req[p].next = "idle"
           \/ On(p, req[p].next, req'[p].plan) /\ Same(p)
        /\ q \in known /\ req'[p].plan = [req[p].plan EXCEPT ![q] = "keep"]
        /\ \A x \in Pid \ {q} : role'[x] = role[x] /\ (x \in restored' <=> x \in restored)
        /\ \/ what \in Role /\ role'[q] = what /\ q \notin restored'
           \/ what \notin Role /\ (q \in restored' \/ (role'[q] = role[q] /\ q \notin restored))
    BY <1>1, <1>3, <2>0, SetRecordIs
  <2>2. Stage(p) = req[p].next /\ Looping(p) /\ Belongs(room.mode, req[p].kind, req[p].next)
    BY <1>1, <2>1 DEF Stage, Looping, Shape
  <2>3. req[p].next # "idle" /\ req[p].next \in Pc \ {"get", "set"}
    BY <1>1, <2>2, TypedFacts DEF Belongs, ResetStage, Found, Request
  <2>4. On(p, req[p].next, req'[p].plan) /\ Same(p)
    BY <2>1, <2>3
  <2>5. Stage(p)' = Stage(p) /\ req'[p].kind = req[p].kind /\ req'[p].gm = req[p].gm
    BY <2>2, <2>3, <2>4, OnStage
  <2>6. \A x \in Pid : req'[p].plan[x] = IF x = q THEN "keep" ELSE req[p].plan[x]
    BY <1>1, <2>1
  <2>7. PlanKept(p)
    <3>1. \A x \in Pid \ {q} : /\ x \in Certain(p)' <=> x \in Certain(p)
                               /\ Will(p, x)' = Will(p, x)
      BY <2>1, <2>6 DEF Certain, Will
    <3>2. q \in Certain(p)' => q \in Certain(p) /\ Will(p, q)' = Will(p, q)
      <4>0. req'[p].plan[q] = "keep" /\ q \in Pid /\ q \in known'
        BY <1>1, <2>1, <2>6
      <4>1. Will(p, q)' = role'[q] /\ (q \in Certain(p)' => q \notin restored')
        BY <1>1, <4>0 DEF Certain, Will
      <4>2. CASE what \in Role /\ role'[q] = what
        BY <2>1, <4>1, <4>2 DEF Certain, Will
      <4>3. CASE what \notin Role /\ q \in restored'
        BY <4>1, <4>3
      <4>4. CASE what \notin Role /\ role'[q] = role[q] /\ q \notin restored
        BY <2>1, <4>1, <4>4 DEF Certain, Will
      <4> QED
        BY <2>1, <4>2, <4>3, <4>4
    <3>3. \A x \in Certain(p)' : x \in Pid
      BY <1>1, <2>1 DEF Certain
    <3>4. ASSUME NEW x \in Certain(p)' PROVE x \in Certain(p) /\ Will(p, x)' = Will(p, x)
      BY <3>1, <3>2, <3>3, <3>4
    <3> QED
      BY <3>4 DEF PlanKept
  <2>8. what \in TeamItem => \A t \in Team : q \in teams[t] <=> what = t
    BY <1>1, <2>0, <2>1 DEF Shape
  <2>9. \A t \in Team : WillTeam(p, t)' = WillTeam(p, t)
    BY <2>1, <2>6, <2>8 DEF WillTeam, TeamItem
  <2>10. \/ RolesKept
         \/ what \in Role /\ role'[q] = what /\ teams' = teams
    <3>1. CASE q \in restored' \/ (role'[q] = role[q] /\ q \notin restored)
      BY <1>1, <2>1, <3>1 DEF RolesKept, Told
    <3> QED
      BY <2>1, <3>1
  <2>11. \A x \in Pid \ known : role'[x] = "none"
    BY <1>1, <2>1
  <2>12. \A t \in Team : \A x \in teams'[t] : req[p].plan[x] = "out" => req'[p].plan[x] = "out"
    <3>1. "out" \in TeamItem /\ "out" \notin Team
      BY DEF TeamItem, Team
    <3> QED
      BY <1>1, <2>1, <2>6, <2>8, <3>1
  <2> QED
    BY <1>1, <2>1, <2>2, <2>4, <2>5, <2>7, <2>9, <2>10, <2>11, <2>12 DEF SameRoom
<1> QED
  BY <1>2, <1>3


\* What is not said of the roles stays.
LEMMA StateGoesOn ==
  ASSUME StateSound, SameRoom, UNCHANGED <<known, hash, secret, game>>,
         NEW p \in Pid, Moved(p), req'[p].kind = req[p].kind, Stage(p)' = Stage(p),
         room.state = "WAITING" /\ ~Some("pick") => Clear',
         room.state \in {"ROLE_PICK", "CONFIG", "IN_GAME"} /\ ~Some("pick") /\ ~Some("over")
           => Staffed',
         ~Some("pick") => Blind',
         \A x \in Pid \ known : role'[x] = "none"
  PROVE  StateSound'
<1>1. \A k : Some(k)' <=> Some(k)
  BY SomeStays
<1>2. Ending' => Ending
  BY DEF Ending, Moved, Stage, Looping
<1> QED
  BY <1>1, <1>2 DEF StateSound, SameRoom

LEMMA RecordSound ==
  ASSUME IInv, NEW p \in Pid, GetRecord(p) \/ SetRecord(p), req[p].kind # "touch"
  PROVE  StateSound' /\ Sounds'
<1> DEFINE k == req[p].kind
           s == Stage(p)
<1>1. /\ Typed /\ Shape(p) /\ StateSound /\ Sound(p) /\ \A q \in Pid : Sound(q)
      /\ room.mode \in Mode /\ known \subseteq Pid /\ teams \in [Team -> SUBSET known]
  BY TypedFacts DEF IInv, Shaped, Sounds
<1>2. /\ SameRoom /\ UNCHANGED <<known, hash, secret, game>> /\ Moved(p)
      /\ req'[p].kind = k /\ req'[p].gm = req[p].gm /\ Same(p)
      /\ Stage(p)' = s /\ Looping(p) /\ PlanKept(p)
      /\ \A t \in Team : WillTeam(p, t)' = WillTeam(p, t)
      /\ \A x \in Pid \ known : role'[x] = "none"
      /\ teams' \in [Team -> SUBSET known]
      /\ \A t \in Team : \A x \in teams'[t] : req[p].plan[x] = "out" => req'[p].plan[x] = "out"
  BY RecordIs
<1>3. PICK q \in known :
        /\ \/ RolesKept
           \/ /\ req[p].plan[q] \in Role /\ role'[q] = req[p].plan[q] /\ teams' = teams
              /\ \A x \in Pid \ {q} : role'[x] = role[x] /\ (x \in restored' <=> x \in restored)
        /\ \/ teams' = teams
           \/ /\ req[p].plan[q] \in TeamItem /\ req'[p].plan = req[p].plan
              /\ teams' = [t \in Team |-> IF t = req[p].plan[q] THEN teams[t] \cup {q}
                                                                ELSE teams[t] \ {q}]
  BY RecordIs
<1> DEFINE item == req[p].plan[q]
<1>4. /\ Writes(k, s, item) /\ Belongs(room.mode, k, s)
      /\ \A x \in Role : x \notin TeamItem \cup {"keep", "out"}
  BY <1>1, <1>2 DEF Shape, Role, Guessing, TeamItem
<1> HIDE DEF item
<1>5. CASE k = "pick"
  <2>1. \A x \in Pid \ {p} : req'[x].kind = "touch"
    BY <1>2, <1>5 DEF IInv, Together, Apart, Harmless, Moved
  <2>2. PickSound(p)
    BY <1>1, <1>5 DEF Sound
  <2>3. \/ s = "gm_role" /\ item \in TeamItem /\ item = "out"
        \/ s = "vs_roles" /\ item \in TeamItem
        \/ s \notin {"list", "gm_header", "gm_role"} /\ item \in Role
        \/ item = "keep"
    BY <1>4, <1>5 DEF Writes, Role, TeamItem
  <2>4. "keep" \notin TeamItem
    BY DEF TeamItem
  <2>5. \/ teams' = teams
        \/ teams = NoTeams /\ teams' = NoTeams
        \/ s = "vs_roles"
        \/ s = "gm_role" /\ room.mode # "VS"
    <3>1. CASE s = "gm_role" /\ item = "out" /\ room.mode = "VS"
      <4>1. teams = NoTeams
        BY <2>2, <3>1 DEF PickSound
      <4>2. teams' = teams \/ teams' = [t \in Team |-> teams[t] \ {q}]
        BY <1>3, <3>1 DEF item, Team
      <4> QED
        BY <4>1, <4>2 DEF NoTeams
    <3> QED
      BY <1>3, <1>4, <2>3, <2>4, <3>1 DEF item
  <2>6. \/ teams' = teams /\ RolesKept
        \/ s = "gm_role" /\ RolesKept
        \/ s \notin {"list", "gm_header", "gm_role"} /\ Looping(p)
    BY <1>2, <1>3, <1>4, <2>3, <2>4 DEF item
  <2>7. PickSound(p)'
    BY <1>1, <1>2, <1>4, <1>5, <2>2, <2>5, <2>6, PickGoesOn
  <2>8. Sounds'
    BY <1>2, <1>5, <2>1, <2>7 DEF Sounds, Sound
  <2>9. Some("pick") /\ room.state \in {"WAITING", "ROLE_PICK"}
    BY <1>5, <2>2 DEF Some, PickSound
  <2> QED
    BY <1>1, <1>2, <2>8, <2>9, StateGoesOn
<1>6. CASE k \in {"config", "start", "end"}
  <2>1. item = "keep"
    BY <1>4, <1>6 DEF Writes
  <2>2. RolesKept /\ teams' = teams
    BY <1>3, <1>4, <2>1 DEF item, TeamItem
  <2>3. /\ Clear => Clear'
        /\ Staffed => Staffed'
        /\ Blind => Blind'
    BY <1>1, <1>2, <2>2, KeptRoles
  <2>4. StateSound'
    BY <1>1, <1>2, <2>3, StateGoesOn DEF StateSound
  <2>5. ASSUME NEW x \in Pid PROVE Sound(x)'
    <3>1. CASE x = p
      BY <1>1, <1>2, <1>6, <2>3, <3>1 DEF Sound, StartSound, SameRoom
    <3>2. CASE x # p
      <4>1. /\ req'[x] = req[x] /\ Sound(x) /\ Stage(x)' = Stage(x) /\ Same(x)
        BY <1>1, <1>2, <3>2 DEF Moved, Stage, Looping, Same
      <4>2. CASE req[x].kind = "reset"
        <5>1. PlanKept(x)
          BY <1>1, <1>2, <2>2, <4>1, RolesPlan
        <5>2. ResetSound(x)'
          BY <1>2, <2>2, <4>1, <4>2, <5>1, ResetGoesOn DEF Sound, PlanKept
        <5> QED
          BY <1>2, <4>1, <4>2, <5>2 DEF Sound, SameRoom
      <4>3. req[x].kind # "pick"
        BY <1>6, <3>2 DEF IInv, Together, Apart, Harmless
      <4>4. CASE req[x].kind = "start"
        BY <1>2, <2>3, <4>1, <4>4 DEF Sound, StartSound, SameRoom
      <4>5. CASE req[x].kind \notin {"pick", "start", "reset"}
        BY <1>2, <4>1, <4>5 DEF Sound, SameRoom
      <4> QED
        BY <4>2, <4>3, <4>4, <4>5
    <3> QED
      BY <3>1, <3>2
  <2> QED
    BY <2>4, <2>5 DEF Sounds
<1>7. CASE k \in {"over", "lost", "reset"}
  <2>1. item \in {"keep", "none", "out"}
    BY <1>4, <1>7 DEF Writes
  <2>2. \A x \in Told' : role'[x] = "none" \/ (x \in Told /\ role'[x] = role[x])
    <3>1. CASE RolesKept
      BY <1>2, <3>1 DEF RolesKept, Told
    <3>2. CASE /\ item \in Role /\ role'[q] = item
               /\ \A x \in Pid \ {q} : role'[x] = role[x] /\ (x \in restored' <=> x \in restored)
      <4>1. item = "none"
        BY <1>4, <2>1, <3>2
      <4> QED
        BY <1>1, <1>2, <3>2, <4>1 DEF Told
    <3> QED
      BY <1>3, <3>1, <3>2 DEF item
  <2>3. \A t \in Team : teams'[t] \subseteq teams[t]
    <3>1. item \notin Team
      BY <2>1 DEF Team
    <3> QED
      BY <1>3, <3>1 DEF item
  <2>4. /\ Clear => Clear'
        /\ Blind => Blind'
    BY <1>1, <1>2, <2>2, <2>3, Fading
  <2>5. StateSound'
    <3>1. Some("over") \/ room.state \in {"WAITING", "GAME_END"}
      BY <1>1, <1>7 DEF Some, Sound
    <3> QED
      BY <1>1, <1>2, <2>4, <3>1, StateGoesOn DEF StateSound
  <2>6. ASSUME NEW x \in Pid, req[x].kind = "reset" PROVE ResetSound(x)'
    <3>1. ResetSound(x)
      BY <1>1, <2>6 DEF Sound
    <3>2. CASE x = p
      <4>1. \A y \in Certain(p)' : \/ y \in Certain(p) /\ Will(p, y)' = Will(p, y)
                                   \/ Will(p, y)' = "none"
        BY <1>2 DEF PlanKept
      <4> QED
        BY <1>2, <2>3, <3>1, <3>2, <4>1, ResetGoesOn
    <3>3. CASE x # p
      <4>1. req'[x] = req[x] /\ Stage(x)' = Stage(x)
        BY <1>2, <3>3 DEF Moved, Stage, Looping
      <4>2. \A y \in Certain(x)' : \/ y \in Certain(x) /\ Will(x, y)' = Will(x, y)
                                   \/ Will(x, y)' = "none"
        BY <1>2, <2>2, <4>1 DEF Certain, Will, Told
      <4> QED
        BY <1>2, <2>3, <3>1, <4>1, <4>2, ResetGoesOn
    <3> QED
      BY <3>2, <3>3
  <2>7. ASSUME NEW x \in Pid PROVE Sound(x)'
    <3>1. Sound(x) /\ req'[x].kind = req[x].kind
      BY <1>1, <1>2 DEF Moved
    <3>2. req[x].kind \notin {"pick", "start", "config"}
      BY <1>7 DEF IInv, Together, Apart, Harmless
    <3> QED
      BY <1>2, <2>6, <3>1, <3>2 DEF Sound, SameRoom
  <2> QED
    BY <2>5, <2>7 DEF Sounds
<1> QED
  BY <1>4, <1>5, <1>6, <1>7 DEF Belongs

-----------------------------------------------------------------------------
(***************************************************************************)
(* A request begins.                                                       *)
(***************************************************************************)
LEMMA BeginSound ==
  ASSUME Overlapping \subseteq Harmless, IInv, NEW p \in Pid, Begin(p)
  PROVE  StateSound' /\ Sounds'
<1> DEFINE k == req'[p].kind
<1>1. /\ Typed /\ Shaped /\ StateSound /\ \A q \in Pid : Sound(q)
      /\ room.mode \in Mode
  BY TypedFacts DEF IInv, Sounds
<1>2. /\ UNCHANGED <<room, role, known, restored, teams, hash, secret, game>> /\ Moved(p)
      /\ req[p].kind = "touch" /\ req'[p].plan = NoPlan
      /\ \A q \in Pid : \/ req[q].kind = "touch"
                        \/ req[q].kind \in Harmless /\ k \in Harmless
      /\ req'[p].pc \notin {"get", "set", "end_room"}
  BY <1>1, Begins DEF Quiet, people
<1>3. Stage(p)' = req'[p].pc /\ ~Looping(p)'
  BY <1>2 DEF Stage, Looping
<1>4. \A kind : kind # "touch" => (Some(kind)' <=> Some(kind) \/ kind = k)
  BY <1>2 DEF Some, Moved
<1>5. Ending' => Ending
  BY <1>2, <1>3 DEF Ending, Moved, Stage, Looping
<1>6. \/ /\ k = "pick" /\ req'[p].pc = "list" /\ req'[p].gm = room.gm
         /\ room.state \in {"WAITING", "ROLE_PICK"}
      \/ k = "config" /\ room.state \in {"ROLE_PICK", "CONFIG"}
      \/ /\ k = "start" /\ room.state \in {"ROLE_PICK", "CONFIG"}
         /\ req'[p].pc \in {"read_config", "auto_start"}
      \/ k = "over" /\ room.state = "IN_GAME"
      \/ k = "end"
      \/ k = "lost" /\ room.state = "GAME_END"
      \/ /\ k = "reset" /\ room.state = "GAME_END" /\ req'[p].pc \in {"clear_hash", "clear_roles"}
         /\ room.mode = "SINGLE" => req'[p].pc = "clear_roles"
  BY <1>1, Begins DEF Voting, Mode
<1>7. k \in {"pick", "config"} => /\ \A q \in Pid : req[q].kind = "touch"
                                  /\ ~Ending /\ \A kind \in Kind : ~Some(kind)
  <2>1. k \in {"pick", "config"} => \A q \in Pid : req[q].kind = "touch"
    BY <1>2 DEF Harmless
  <2>2. ASSUME NEW q \in Pid, req[q].kind = "touch" PROVE Stage(q) # "end_room"
    BY <1>1, <2>2 DEF Shaped, Shape, Belongs
  <2> QED
    BY <2>1, <2>2 DEF Ending, Some, Kind
<1>8. StateSound'
  <2>1. ~Some("pick")' => ~Some("pick")
    BY <1>4
  <2>2. ~Some("over")' => ~Some("over")
    BY <1>4
  <2>3. Some("config") => Some("config")'
    BY <1>4
  <2>4. game.vote = "yes" /\ (room.state = "GAME_END" \/ Ending) =>
          /\ room.state \in {"WAITING", "GAME_END"}
          /\ ~Some("pick")' /\ ~Some("config")' /\ ~Some("start")'
    BY <1>1, <1>4, <1>6, <1>7 DEF StateSound
  <2>5. (Clear => Clear') /\ (Staffed => Staffed') /\ (Blind => Blind')
    BY <1>2 DEF Clear, NoRoles, Staffed, OneGM, Drawn, Teamed, Blind, Told
  <2> QED
    BY <1>1, <1>2, <1>5, <2>1, <2>2, <2>3, <2>4, <2>5 DEF StateSound
<1>9. ASSUME NEW q \in Pid \ {p} PROVE Sound(q)'
  <2>1. /\ req'[q] = req[q] /\ Sound(q) /\ Stage(q)' = Stage(q) /\ (Looping(q)' <=> Looping(q))
        /\ Same(q) /\ \A t \in Team : WillTeam(q, t)' = WillTeam(q, t)
    BY <1>1, <1>2 DEF Moved, Stage, Looping, Same, WillTeam
  <2>2. SameRoom /\ RolesKept
    BY <1>2 DEF SameRoom, RolesKept, Told
  <2>3. PlanKept(q) /\ (Staffed => Staffed')
    BY <1>1, <1>2, <2>1, <2>2, RolesPlan, KeptRoles, TypedFacts
  <2>4. CASE req[q].kind = "pick"
    <3>1. Belongs(room.mode, "pick", Stage(q))
      BY <1>1, <2>4 DEF Shaped, Shape
    <3>2. PickSound(q)'
      BY <1>1, <1>2, <2>1, <2>2, <2>3, <2>4, <3>1, PickGoesOn DEF Sound
    <3> QED
      BY <2>1, <2>4, <3>2 DEF Sound
  <2>5. CASE req[q].kind = "reset"
    <3>1. ResetSound(q)'
      BY <1>2, <2>1, <2>2, <2>3, <2>5, ResetGoesOn DEF Sound, PlanKept
    <3> QED
      BY <1>2, <2>1, <2>5, <3>1 DEF Sound
  <2>6. CASE req[q].kind \notin {"pick", "reset"}
    BY <1>2, <2>1, <2>3, <2>6 DEF Sound, StartSound
  <2> QED
    BY <2>4, <2>5, <2>6
<1>10. Sound(p)'
  <2>1. CASE k = "pick"
    <3>1. secret = "none" /\ Blind /\ (room.state = "WAITING" => Clear)
          /\ (room.state = "ROLE_PICK" => Staffed)
      BY <1>1, <1>6, <1>7, <2>1 DEF StateSound, Kind
    <3>2. (Clear => Clear') /\ (Staffed => Staffed') /\ (Blind => Blind')
      BY <1>2 DEF Clear, NoRoles, Staffed, OneGM, Drawn, Teamed, Blind, Told
    <3>3. PickSound(p)'
      BY <1>2, <1>3, <1>6, <2>1, <3>1, <3>2 DEF PickSound
    <3> QED
      BY <2>1, <3>3 DEF Sound
  <2>2. CASE k = "start"
    <3>1. ~Some("pick") /\ ~Some("over")
      BY <1>1, <1>2, <1>6, <2>2 DEF Some, Sound, Harmless
    <3>2. Staffed
      BY <1>1, <1>6, <2>2, <3>1 DEF StateSound
    <3>3. Staffed'
      BY <1>2, <3>2 DEF Staffed, OneGM, Drawn, Teamed, Told
    <3> QED
      BY <1>2, <1>3, <1>6, <2>2, <3>3 DEF Sound, StartSound
  <2>3. CASE k = "reset"
    BY <1>1, <1>2, <1>3, <1>6, <2>3 DEF Sound, ResetSound, ResetStage, Mode
  <2>4. CASE k \notin {"pick", "start", "reset"}
    BY <1>1, <1>2, <1>6, <2>4 DEF Sound, StateSound
  <2> QED
    BY <2>1, <2>2, <2>3, <2>4
<1> QED
  BY <1>8, <1>9, <1>10 DEF Sounds

-----------------------------------------------------------------------------
(***************************************************************************)
(* The role pick.                                                          *)
(***************************************************************************)
LEMMA Planless ==
  ASSUME Typed, NEW p \in Pid, req[p].plan = NoPlan
  PROVE  /\ Certain(p) = Told /\ \A q \in Pid : Will(p, q) = role[q]
         /\ \A t \in Team : WillTeam(p, t) = teams[t]
<1>1. known \subseteq Pid /\ teams \in [Team -> SUBSET known]
  BY TypedFacts
<1>2. \A q \in Pid : req[p].plan[q] = "keep"
  BY Requests
<1>3. "keep" \notin Role /\ "keep" \notin TeamItem
  BY DEF Role, Guessing, TeamItem
<1> QED
  BY <1>1, <1>2, <1>3 DEF Certain, Told, Will, WillTeam

HashOfMode == IF room.mode = "VS" THEN hash.drawer = Nobody
                                  ELSE hash.drawerA = Nobody /\ hash.drawerB = Nobody

LEMMA StaffedBlind ==
  ASSUME Typed, Staffed, HashOfMode
  PROVE  Blind
<1>1. Told \subseteq known /\ Nobody \notin known /\ room.mode \in Mode
  BY TypedFacts DEF Told
<1>2. \A q \in Told : role[q] \in Guessing =>
        role[q] \notin {"gm", "drawer", "drawerA", "drawerB"}
  BY DEF Guessing
<1>3. \A q \in Told : role[q] \in Guessing => q # room.gm
  BY <1>2 DEF Staffed, OneGM
<1>4. CASE room.mode = "VS"
  <2>1. \A t \in Team : \A q \in Told : role[q] \in Guessing => q # hash[DrawerOf[t]]
    BY <1>2, <1>4 DEF Staffed, Drawn, DrawerOf
  <2>2. DrawerOf["A"] = "drawerA" /\ DrawerOf["B"] = "drawerB" /\ "A" \in Team /\ "B" \in Team
    BY DEF DrawerOf, Team
  <2>3. \A q \in Told : role[q] \in Guessing => q # hash.drawerA /\ q # hash.drawerB
    BY <2>1, <2>2
  <2> QED
    BY <1>1, <1>3, <1>4, <2>3 DEF Blind, HashOfMode
<1>5. CASE room.mode # "VS"
  BY <1>1, <1>2, <1>3, <1>5 DEF Staffed, Drawn, Blind, HashOfMode
<1> QED
  BY <1>4, <1>5

\* A pick overlaps nothing else, so that only what it leaves behind matters.
LEMMA PickAlone ==
  ASSUME IInv, NEW p \in Pid, req[p].kind = "pick", Moved(p), room'.mode = room.mode,
         UNCHANGED <<people, secret, game>>, HashOfMode',
         \/ req'[p].kind = "pick" /\ PickSound(p)' /\ Stage(p)' # "end_room"
         \/ /\ req'[p] = Idle /\ Blind'
            /\ \/ room'.state = "WAITING" /\ Clear'
               \/ room'.state \in {"ROLE_PICK", "CONFIG"} /\ Staffed'
  PROVE  StateSound' /\ Sounds'
<1>1. /\ StateSound /\ Sound(p) /\ Shaped
      /\ \A q \in Pid \ {p} : req'[q] = req[q] /\ req[q].kind = "touch"
  BY DEF IInv, Sounds, Moved, Together, Apart, Harmless
<1>2. secret' = "none" /\ known' = known /\ role' = role
      /\ Cardinality(known) >= MinPlayers[room.mode] /\ \A q \in Pid \ known : role[q] = "none"
  BY <1>1 DEF Sound, PickSound, StateSound, people
<1>3. \A q \in Pid \ {p} : Stage(q)' # "end_room" /\ Sound(q)'
  BY <1>1 DEF Shaped, Shape, Belongs, Stage, Looping, Sound
<1>4. CASE req'[p].kind = "pick" /\ PickSound(p)' /\ Stage(p)' # "end_room"
  <2>1. Some("pick")' /\ ~Ending' /\ room'.state \in {"WAITING", "ROLE_PICK"}
    BY <1>3, <1>4 DEF Some, Ending, PickSound
  <2>2. StateSound'
    BY <1>2, <2>1 DEF StateSound, HashOfMode
  <2>3. Sound(p)'
    BY <1>4 DEF Sound
  <2> QED
    BY <1>3, <2>2, <2>3 DEF Sounds
<1>5. CASE /\ req'[p] = Idle /\ Blind'
           /\ \/ room'.state = "WAITING" /\ Clear'
              \/ room'.state \in {"ROLE_PICK", "CONFIG"} /\ Staffed'
  <2>1. Stage(p)' = "idle" /\ req'[p].kind = "touch"
    BY <1>5, IdleStage
  <2>2. ~Ending' /\ Sound(p)'
    BY <1>3, <2>1 DEF Ending, Sound
  <2>3. StateSound'
    BY <1>2, <1>5, <2>2 DEF StateSound, HashOfMode
  <2> QED
    BY <1>3, <2>2, <2>3 DEF Sounds
<1> QED
  BY <1>4, <1>5

\* What a pick that has no record to write knows.
LEMMA PickNow ==
  ASSUME IInv, NEW p \in Pid, req[p].kind = "pick", req[p].pc \notin {"get", "set"}
  PROVE  /\ Typed /\ StateSound /\ HashOfMode /\ PickSound(p)
         /\ Stage(p) = req[p].pc /\ ~Looping(p) /\ req[p].plan = NoPlan
         /\ Belongs(room.mode, "pick", req[p].pc) /\ room.mode \in Mode
         /\ Certain(p) = Told /\ \A q \in Pid : Will(p, q) = role[q]
         /\ \A t \in Team : WillTeam(p, t) = teams[t]
<1>1. /\ Typed /\ StateSound /\ PickSound(p) /\ Shape(p) /\ room.mode \in Mode
  BY TypedFacts DEF IInv, Sounds, Sound, Shaped
<1>2. Stage(p) = req[p].pc /\ ~Looping(p)
  BY DEF Stage, Looping
<1>3. req[p].plan = NoPlan /\ Belongs(room.mode, "pick", req[p].pc)
  BY <1>1, <1>2 DEF Shape
<1> QED
  BY <1>1, <1>2, <1>3, Planless DEF StateSound, HashOfMode

LEMMA ListPlayersSound ==
  ASSUME IInv, NEW p \in Pid, req[p].kind = "pick", ListPlayers(p)
  PROVE  StateSound' /\ Sounds'
<1>1. Typed /\ req[p].pc = "list"
  BY ListPlayersIs DEF IInv
<1>2. /\ StateSound /\ HashOfMode /\ PickSound(p) /\ Stage(p) = "list" /\ req[p].plan = NoPlan
      /\ room.mode \in Mode /\ Nobody \notin known /\ Found(p) /\ on \subseteq known
      /\ known \subseteq Pid /\ (room.state = "ROLE_PICK" => room.mode = "SINGLE")
  BY <1>1, PickNow, TypedFacts
<1>3. /\ Quiet /\ Moved(p) /\ Found(p)'
      /\ UNCHANGED <<room, role, known, restored, teams, hash, secret, game>>
  BY <1>1, ListPlayersIs DEF Quiet, people
<1>4. /\ room.state \in {"WAITING", "ROLE_PICK"} /\ secret = "none" /\ req[p].gm = room.gm
      /\ Blind /\ (room.state = "WAITING" => Clear) /\ (room.state = "ROLE_PICK" => Staffed)
  BY <1>2 DEF PickSound
<1>5. (Clear => Clear') /\ (Staffed => Staffed') /\ (Blind => Blind') /\ HashOfMode'
  BY <1>2, <1>3 DEF Clear, NoRoles, Staffed, OneGM, Drawn, Teamed, Blind, Told, HashOfMode
<1>6. CASE req'[p] = Idle
  BY <1>3, <1>4, <1>5, <1>6, PickAlone DEF Quiet
<1>7. CASE /\ req'[p].kind = "pick" /\ req'[p].plan = NoPlan /\ req'[p].here = on
           /\ Cardinality(on) >= MinPlayers[room.mode]
           /\ req[p].gm # Nobody /\ req'[p].gm = req[p].gm /\ req'[p].pc = AfterGM
  <2>1. room.state = "ROLE_PICK"
    BY <1>4, <1>7 DEF Clear
  <2>2. req'[p].pc = "single_roles"
    BY <1>2, <1>7, <2>1 DEF AfterGM
  <2>3. Stage(p)' = "single_roles" /\ ~Looping(p)'
    BY <2>2 DEF Stage, Looping
  <2>4. room.gm \in known /\ OneGMToBe(p)'
    <3>1. OneGM /\ \A q \in Pid : req'[p].plan[q] = "keep"
      BY <1>4, <1>7, <2>1, Requests DEF Staffed
    <3>2. "keep" \notin Role
      BY DEF Role, Guessing
    <3> QED
      BY <1>2, <1>3, <3>1, <3>2 DEF OneGM, OneGMToBe, Certain, Will, Told
  <2>5. PickSound(p)'
    BY <1>3, <1>4, <1>7, <2>1, <2>3, <2>4 DEF PickSound
  <2> QED
    BY <1>3, <1>5, <1>7, <2>3, <2>5, PickAlone DEF Quiet
<1>8. CASE /\ req'[p].kind = "pick" /\ req'[p].here = on
           /\ Cardinality(on) >= MinPlayers[room.mode]
           /\ req[p].gm = Nobody /\ req'[p].gm \in on /\ req'[p].pc = "gm_header"
  <2>1. room.state = "WAITING" /\ Clear'
    BY <1>2, <1>4, <1>5, <1>8 DEF Staffed, OneGM
  <2>2. Stage(p)' = "gm_header" /\ ~Looping(p)'
    BY <1>8 DEF Stage, Looping
  <2>3. PickSound(p)'
    BY <1>2, <1>3, <1>4, <1>8, <2>1, <2>2 DEF PickSound
  <2> QED
    BY <1>3, <1>5, <1>8, <2>2, <2>3, PickAlone DEF Quiet
<1> QED
  BY <1>1, <1>2, <1>6, <1>7, <1>8, ListPlayersIs

LEMMA GMSound ==
  ASSUME IInv, NEW p \in Pid, req[p].kind = "pick", PickGM(p) \/ GMRole(p)
  PROVE  StateSound' /\ Sounds'
<1>1. Typed /\ Moved(p) /\ UNCHANGED <<people, teams, hash, secret, game>>
      /\ req[p].pc \in {"gm_header", "gm_role"}
  BY GMLoops DEF IInv
<1>2. /\ StateSound /\ HashOfMode /\ PickSound(p) /\ Stage(p) = req[p].pc
      /\ room.mode \in Mode /\ known \subseteq Pid /\ room \in Header
  BY <1>1, PickNow, TypedFacts
<1>3. /\ room.state \in {"WAITING", "ROLE_PICK"} /\ secret = "none" /\ req[p].gm \in known
      /\ Cardinality(req[p].here) >= MinPlayers[room.mode]
  BY <1>1, <1>2 DEF PickSound
<1>4. UNCHANGED <<role, known, restored>>
  BY <1>1 DEF people
<1>5. CASE /\ req[p].pc = "gm_header" /\ room' = [room EXCEPT !.gm = req[p].gm]
           /\ On(p, "gm_role", req'[p].plan) /\ Same(p)
  <2>1. room'.gm = req[p].gm /\ room'.mode = room.mode /\ room'.state = room.state
    BY <1>2, <1>3, <1>5, GMWritten
  <2>2. Stage(p)' = "gm_role" /\ req'[p].kind = "pick" /\ req'[p].gm = req[p].gm
    BY <1>5, OnStage DEF Pc
  <2>3. (room.mode = "VS" => teams = NoTeams) /\ (room.mode = "SINGLE" => NoRoles)
    BY <1>2, <1>5 DEF PickSound, Clear
  <2>4. PickSound(p)'
    BY <1>1, <1>3, <1>4, <1>5, <2>1, <2>2, <2>3 DEF PickSound, NoRoles, Told, Same
  <2>5. HashOfMode'
    BY <1>1, <1>2, <2>1 DEF HashOfMode
  <2> QED
    BY <1>1, <2>1, <2>2, <2>4, <2>5, PickAlone
<1>6. CASE /\ req[p].pc = "gm_role" /\ UNCHANGED room
           /\ On(p, AfterGM, req'[p].plan) /\ Same(p)
           /\ \A q \in Pid : req'[p].plan[q] = IF q = req[p].gm THEN "gm" ELSE "keep"
  <2>1. AfterGM \in Pc \ {"get", "set"} /\ AfterGM \in {"split", "single_roles"}
    BY DEF AfterGM, Pc
  <2>2. Stage(p)' = AfterGM /\ req'[p].kind = "pick" /\ req'[p].gm = req[p].gm
    BY <1>6, <2>1, OnStage
  <2>3. /\ room.gm = req[p].gm /\ (room.mode = "VS" => teams = NoTeams)
        /\ (room.mode = "SINGLE" => NoRoles)
    BY <1>2, <1>6 DEF PickSound
  <2>4. room.mode = "SINGLE" => OneGMToBe(p)'
    <3>1. "keep" \notin Role /\ "gm" \in Role /\ "none" # "gm"
      BY DEF Role, Guessing
    <3> QED
      BY <1>2, <1>4, <1>6, <2>3, <3>1 DEF OneGMToBe, Certain, Will, NoRoles, Told
  <2>5. PickSound(p)'
    <3>1. CASE room.mode = "VS"
      <4>1. AfterGM = "split"
        BY <3>1 DEF AfterGM
      <4> QED
        BY <1>1, <1>3, <1>4, <1>6, <2>2, <2>3, <3>1, <4>1 DEF PickSound, Same
    <3>2. CASE room.mode = "SINGLE"
      <4>1. AfterGM = "single_roles"
        BY <3>2 DEF AfterGM
      <4> QED
        BY <1>1, <1>3, <1>4, <1>6, <2>2, <2>3, <2>4, <3>2, <4>1 DEF PickSound, Same
    <3> QED
      BY <1>2, <3>1, <3>2 DEF Mode
  <2>6. HashOfMode' /\ Stage(p)' # "end_room"
    BY <1>1, <1>2, <1>6, <2>1, <2>2 DEF HashOfMode
  <2> QED
    BY <1>1, <1>6, <2>2, <2>5, <2>6, PickAlone
<1> QED
  BY <1>1, <1>5, <1>6, GMLoops

LEMMA Halves ==
  ASSUME NEW S, IsFiniteSet(S), NEW x, NEW n \in Nat, Cardinality(S) > 2 * n,
         NEW a \in SUBSET (S \ {x}), Cardinality(a) = (Cardinality(S \ {x}) + 1) \div 2
  PROVE  Cardinality(a) >= n /\ Cardinality((S \ {x}) \ a) >= n
<1> DEFINE T == S \ {x}
<1>1. IsFiniteSet(T) /\ Cardinality(T) \in Nat /\ Cardinality(T) >= 2 * n
  <2>1. IsFiniteSet(T) /\ Cardinality(T) = IF x \in S THEN Cardinality(S) - 1 ELSE Cardinality(S)
    BY FS_RemoveElement
  <2>2. Cardinality(S) \in Nat /\ Cardinality(T) \in Nat
    BY <2>1, FS_CardinalityType
  <2> QED
    BY <2>1, <2>2
<1>2. Cardinality(T \ a) = Cardinality(T) - Cardinality(a)
  <2>1. T \cap a = a
    OBVIOUS
  <2> QED
    BY <1>1, <2>1, FS_Difference
<1> HIDE DEF T
<1>3. Cardinality(a) = (Cardinality(T) + 1) \div 2
  BY DEF T
<1> QED
  BY <1>1, <1>2, <1>3 DEF T

LEMMA AtMostOne ==
  ASSUME NEW x, NEW S \in SUBSET {x}
  PROVE  Cardinality(S) <= 1
<1> DEFINE T == {x}
<1>1. IsFiniteSet(T) /\ Cardinality(T) = 1 /\ S \in SUBSET T
  BY FS_Singleton
<1> HIDE DEF T
<1> QED
  BY <1>1, FS_Subset

LEMMA Finite ==
  ASSUME Typed
  PROVE  /\ IsFiniteSet(known) /\ Cardinality(known) \in Nat
         /\ \A p \in Pid : IsFiniteSet(req[p].here) /\ Cardinality(req[p].here) \in Nat
         /\ \A t \in Team : IsFiniteSet(teams[t]) /\ Cardinality(teams[t]) \in Nat
         /\ MinPlayers[room.mode] \in Nat
<1>1. /\ known \in SUBSET Pid /\ \A p \in Pid : req[p].here \in SUBSET Pid
      /\ \A t \in Team : teams[t] \in SUBSET Pid
  BY TypedFacts DEF Found
<1>2. room.mode \in Mode
  BY TypedFacts
<1> QED
  BY <1>1, <1>2, FS_Subset, FS_CardinalityType, LobbyAssumption


LEMMA SplitSound ==
  ASSUME IInv, NEW p \in Pid, req[p].kind = "pick", Split(p)
  PROVE  StateSound' /\ Sounds'
<1>1. /\ Typed /\ Quiet /\ Moved(p) /\ req[p].pc = "split"
      /\ UNCHANGED <<room, role, known, restored, teams, hash, secret, game>>
  BY SplitIs DEF IInv, Quiet, people
<1>2. /\ HashOfMode /\ PickSound(p) /\ Stage(p) = "split" /\ room.mode = "VS"
      /\ known \subseteq Pid /\ Found(p) /\ room.gm = req[p].gm
  BY <1>1, PickNow, TypedFacts DEF Belongs, PickSound
<1>3. /\ room.state \in {"WAITING", "ROLE_PICK"} /\ secret = "none" /\ req[p].gm \in known
      /\ teams = NoTeams /\ Cardinality(req[p].here) >= MinPlayers["VS"]
  BY <1>2 DEF PickSound
<1>4. \A t \in Team : teams[t] = {}
  BY <1>3 DEF NoTeams
<1> DEFINE pool == req[p].here \ {req[p].gm}
<1>5. PICK a \in SUBSET pool : /\ Cardinality(a) = (Cardinality(pool) + 1) \div 2
                               /\ On(p, "vs_roles", Deal(pool, a))
  BY <1>1, <1>4, SplitIs
<1>6. Stage(p)' = "vs_roles" /\ req'[p].kind = "pick" /\ req'[p].gm = req[p].gm
      /\ req'[p].plan = Deal(pool, a)
  BY <1>5, OnStage DEF Pc
<1>7. pool \subseteq Pid
  BY <1>2 DEF Found
<1>8. WillTeam(p, "A")' = a /\ WillTeam(p, "B")' = pool \ a
  <2>1. \A q \in Pid : req'[p].plan[q] = IF q \in a THEN "A" ELSE IF q \in pool THEN "B" ELSE "keep"
    BY <1>6 DEF Deal
  <2>2. \A q \in Pid : q \notin teams'["A"] /\ q \notin teams'["B"]
    BY <1>1, <1>4 DEF Team
  <2> QED
    BY <1>7, <2>1, <2>2 DEF WillTeam, TeamItem
<1>9. Cardinality(a) >= MinTeam /\ Cardinality(pool \ a) >= MinTeam
  <2>1. MinTeam \in Nat /\ MinPlayers["VS"] > 2 * MinTeam /\ MinPlayers["VS"] \in Nat
    BY LobbyAssumption DEF Mode
  <2>2. IsFiniteSet(req[p].here) /\ Cardinality(req[p].here) \in Nat
    BY <1>1, Finite
  <2>3. Cardinality(req[p].here) > 2 * MinTeam
    BY <1>3, <2>1, <2>2
  <2>4. Cardinality(a) >= MinTeam /\ Cardinality((req[p].here \ {req[p].gm}) \ a) >= MinTeam
    BY <1>5, <2>1, <2>2, <2>3, Halves
  <2> QED
    BY <2>4
<1>10. PickSound(p)'
  <2>1. \A t \in Team : room.gm \notin WillTeam(p, t)' /\ Cardinality(WillTeam(p, t)') >= MinTeam
    BY <1>2, <1>8, <1>9 DEF Team
  <2>2. WillTeam(p, "A")' \cap WillTeam(p, "B")' = {}
    BY <1>8
  <2> QED
    BY <1>1, <1>2, <1>3, <1>6, <2>1, <2>2 DEF PickSound, Team
<1> QED
  BY <1>1, <1>2, <1>6, <1>10, PickAlone DEF Quiet, HashOfMode

LEMMA AssignVSRolesSound ==
  ASSUME IInv, NEW p \in Pid, req[p].kind = "pick", AssignVSRoles(p)
  PROVE  StateSound' /\ Sounds'
<1>1. /\ Typed /\ Quiet /\ Moved(p) /\ req[p].pc = "vs_roles"
      /\ UNCHANGED <<room, role, known, restored, teams, hash, secret, game>>
  BY AssignVSRolesIs DEF IInv, Quiet, people
<1>2. /\ HashOfMode /\ PickSound(p) /\ Stage(p) = "vs_roles" /\ room.mode = "VS"
      /\ known \subseteq Pid /\ room.gm = req[p].gm /\ teams \in [Team -> SUBSET known]
      /\ \A t \in Team : WillTeam(p, t) = teams[t]
  BY <1>1, PickNow, TypedFacts DEF Belongs, PickSound
<1>3. /\ room.state \in {"WAITING", "ROLE_PICK"} /\ secret = "none" /\ req[p].gm \in known
      /\ Teamed
  BY <1>2 DEF PickSound, Teamed, Team
<1>4. \A t \in Team : teams[t] \ {req[p].gm} # {}
  <2>1. ASSUME NEW t \in Team PROVE teams[t] # {} /\ room.gm \notin teams[t]
    <3>1. Cardinality(teams[t]) > 0
      BY <1>1, <1>3, Finite, LobbyAssumption DEF Teamed
    <3> QED
      BY <1>3, <3>1, FS_EmptySet DEF Teamed, Team
  <2> QED
    BY <1>2, <2>1
<1>5. PICK a \in teams["A"] \ {req[p].gm}, b \in teams["B"] \ {req[p].gm} :
        /\ On(p, "vs_hash", VSRoles(req[p].gm, a, b))
        /\ req'[p].drawers = [t \in Team |-> IF t = "A" THEN a ELSE b]
  BY <1>1, <1>4, AssignVSRolesIs
<1>6. Stage(p)' = "vs_hash" /\ req'[p].kind = "pick" /\ req'[p].gm = req[p].gm
      /\ req'[p].plan = VSRoles(req[p].gm, a, b)
  BY <1>5, OnStage DEF Pc
<1>7. /\ a \in known /\ b \in known /\ a # room.gm /\ b # room.gm /\ a # b
      /\ req'[p].drawers["A"] = a /\ req'[p].drawers["B"] = b
  BY <1>2, <1>3, <1>5 DEF Teamed, Team
<1>8. ASSUME NEW q \in Certain(p)'
      PROVE  /\ Will(p, q)' = "gm" <=> q = room.gm
             /\ Will(p, q)' = "drawerA" <=> q = a
             /\ Will(p, q)' = "drawerB" <=> q = b
  <2>1. q \in known
    BY <1>1 DEF Certain
  <2> DEFINE item == req'[p].plan[q]
  <2>2. item = IF q = room.gm THEN "gm" ELSE IF q = a THEN "drawerA"
               ELSE IF q = b THEN "drawerB" ELSE IF q \in teams["A"] THEN "guesserA"
               ELSE IF q \in teams["B"] THEN "guesserB" ELSE "none"
    BY <1>2, <1>6, <2>1 DEF VSRoles
  <2> HIDE DEF item
  <2>3. item \in Role
    BY <2>2 DEF Role, Guessing
  <2>4. Will(p, q)' = item
    BY <2>3 DEF Will, item
  <2> QED
    BY <1>7, <2>2, <2>4
<1>9. PickSound(p)'
  <2>1. Teamed' /\ OneGMToBe(p)'
    BY <1>1, <1>3, <1>8 DEF Teamed, OneGMToBe
  <2>2. \A t \in Team : /\ req'[p].drawers[t] \in teams[t]
                        /\ \A q \in Certain(p)' : Will(p, q)' = DrawerOf[t] <=> q = req'[p].drawers[t]
    BY <1>5, <1>7, <1>8 DEF Team, DrawerOf
  <2> QED
    BY <1>1, <1>2, <1>3, <1>6, <2>1, <2>2 DEF PickSound
<1> QED
  BY <1>1, <1>2, <1>6, <1>9, PickAlone DEF Quiet, HashOfMode

LEMMA VSHashSound ==
  ASSUME IInv, NEW p \in Pid, req[p].kind = "pick", VSHash(p)
  PROVE  StateSound' /\ Sounds'
<1>1. /\ Typed /\ Moved(p) /\ req[p].pc = "vs_hash" /\ Gone(p, "pick_room")
      /\ UNCHANGED <<room, people, teams, secret, game>>
      /\ hash' = [hash EXCEPT !.drawerA = req[p].drawers["A"], !.drawerB = req[p].drawers["B"]]
  <2>1. Typed /\ Goto(p, "pick_room") /\ "pick_room" \in Pc \ {"idle", "get", "set"} /\ known' = known
    BY DEF IInv, VSHash, Pc, people
  <2> QED
    BY <2>1, GotoIs DEF VSHash, Gone
<1>2. /\ HashOfMode /\ PickSound(p) /\ Stage(p) = "vs_hash" /\ room.mode = "VS"
      /\ room.gm = req[p].gm /\ hash \in Hash
      /\ Certain(p) = Told /\ \A q \in Pid : Will(p, q) = role[q]
      /\ known \subseteq Pid /\ UNCHANGED <<role, known, restored>>
  BY <1>1, PickNow, TypedFacts DEF Belongs, PickSound, people
<1>3. /\ hash'.drawerA = req[p].drawers["A"] /\ hash'.drawerB = req[p].drawers["B"]
      /\ hash'.drawer = hash.drawer
  BY <1>1, <1>2 DEF Hash
<1>4. Stage(p)' = "pick_room" /\ ~Looping(p)' /\ req'[p].kind = "pick" /\ req'[p].gm = req[p].gm
  BY <1>1, GoneStage DEF Pc
<1>5. \A t \in Team : hash'[DrawerOf[t]] = req[p].drawers[t]
  BY <1>3 DEF DrawerOf, Team
<1>6. Staffed'
  <2>1. Teamed' /\ OneGM'
    BY <1>1, <1>2 DEF PickSound, Teamed, OneGM, OneGMToBe, Told
  <2>2. \A t \in Team : /\ req[p].drawers[t] \in teams[t]
                        /\ \A q \in Told : role[q] = DrawerOf[t] <=> q = req[p].drawers[t]
    BY <1>2 DEF PickSound, Told
  <2>3. Drawn'
    BY <1>1, <1>2, <1>5, <2>2 DEF Drawn, Told
  <2> QED
    BY <2>1, <2>3 DEF Staffed
<1>7. PickSound(p)' /\ HashOfMode'
  BY <1>1, <1>2, <1>3, <1>4, <1>6 DEF PickSound, HashOfMode
<1> QED
  BY <1>1, <1>2, <1>4, <1>7, PickAlone

LEMMA AssignSingleRolesSound ==
  ASSUME IInv, NEW p \in Pid, req[p].kind = "pick", AssignSingleRoles(p)
  PROVE  StateSound' /\ Sounds'
<1>1. /\ Typed /\ Moved(p) /\ req[p].pc = "single_roles"
      /\ UNCHANGED <<room, people, teams, secret, game>>
  BY AssignSingleRolesIs DEF IInv
<1>2. /\ HashOfMode /\ PickSound(p) /\ Stage(p) = "single_roles" /\ room.mode = "SINGLE"
      /\ room.gm = req[p].gm /\ hash \in Hash /\ Found(p) /\ known \subseteq Pid
      /\ req[p].here \subseteq known
      /\ Certain(p) = Told /\ \A q \in Pid : Will(p, q) = role[q]
      /\ UNCHANGED <<role, known, restored>>
  BY <1>1, PickNow, TypedFacts DEF Belongs, PickSound, people, Found
<1>3. /\ room.state \in {"WAITING", "ROLE_PICK"} /\ secret = "none" /\ req[p].gm \in known
      /\ Cardinality(req[p].here) >= MinPlayers["SINGLE"] /\ OneGMToBe(p)
  BY <1>2 DEF PickSound
<1>4. req[p].here \ {req[p].gm} # {}
  <2>1. MinPlayers["SINGLE"] \in Nat /\ MinPlayers["SINGLE"] > 1
    BY LobbyAssumption DEF Mode
  <2>2. Cardinality(req[p].here) \in Nat
    BY <1>1, Finite
  <2>3. CASE req[p].here \subseteq {req[p].gm}
    <3>1. Cardinality(req[p].here) <= 1
      BY <2>3, AtMostOne
    <3> QED
      BY <1>3, <2>1, <2>2, <3>1
  <2> QED
    BY <2>3
<1>5. PICK d \in req[p].here : /\ d # req[p].gm /\ hash' = [hash EXCEPT !.drawer = d]
                               /\ On(p, "pick_room", SingleRoles(p, d))
  BY <1>1, <1>4, AssignSingleRolesIs
<1>6. Stage(p)' = "pick_room" /\ req'[p].kind = "pick" /\ req'[p].gm = req[p].gm
      /\ req'[p].plan = SingleRoles(p, d)
  BY <1>5, OnStage DEF Pc
<1>7. hash'.drawer = d /\ hash'.drawerA = hash.drawerA /\ hash'.drawerB = hash.drawerB
  BY <1>2, <1>5 DEF Hash
<1>8. ASSUME NEW q \in Certain(p)'
      PROVE  (Will(p, q)' = "gm" <=> q = room.gm) /\ (q = d => Will(p, q)' = "drawer")
  <2>1. q \in Pid /\ q \in known
    BY <1>2 DEF Certain
  <2> DEFINE item == req'[p].plan[q]
  <2>2. item = IF q \notin req[p].here THEN "keep" ELSE IF q = room.gm THEN "gm"
               ELSE IF q = d THEN "drawer" ELSE "guesser"
    BY <1>2, <1>6, <2>1 DEF SingleRoles
  <2> HIDE DEF item
  <2>3. CASE q \in req[p].here
    <3>1. item \in Role
      BY <2>2, <2>3 DEF Role, Guessing
    <3>2. Will(p, q)' = item
      BY <3>1 DEF Will, item
    <3> QED
      BY <1>2, <1>5, <2>2, <2>3, <3>2
  <2>4. CASE q \notin req[p].here
    <3>1. item \notin Role
      BY <2>2, <2>4 DEF Role, Guessing
    <3>2. q \in Told /\ Will(p, q)' = role[q]
      BY <1>2, <2>1, <3>1 DEF Will, Certain, Told, item
    <3> QED
      BY <1>2, <1>3, <1>5, <2>1, <2>4, <3>2 DEF OneGMToBe
  <2> QED
    BY <2>3, <2>4
<1>9. PickSound(p)' /\ HashOfMode'
  <2>1. OneGMToBe(p)' /\ hash'.drawer \in known \ {room.gm}
    BY <1>1, <1>2, <1>5, <1>7, <1>8 DEF OneGMToBe
  <2>2. d \in Certain(p)' => Will(p, d)' = "drawer"
    BY <1>8
  <2>3. (hash.drawer \in Certain(p) => Will(p, hash.drawer) = "drawer")'
    BY <1>7, <2>2
  <2> QED
    BY <1>1, <1>2, <1>3, <1>6, <1>7, <2>1, <2>3 DEF PickSound, HashOfMode
<1> QED
  BY <1>1, <1>6, <1>9, PickAlone

LEMMA PickRoomSound ==
  ASSUME IInv, NEW p \in Pid, req[p].kind = "pick", PickRoom(p)
  PROVE  StateSound' /\ Sounds'
<1>1. /\ Typed /\ req[p].pc = "pick_room" /\ Return(p)
      /\ room' = [room EXCEPT !.countdown = "running",
                    !.state = IF room.mode = "VS" THEN "CONFIG" ELSE "ROLE_PICK"]
      /\ UNCHANGED <<people, teams, hash, secret, game>>
  BY DEF IInv, PickRoom
<1>2. /\ HashOfMode /\ PickSound(p) /\ Stage(p) = "pick_room" /\ room.mode \in Mode
      /\ ~Looping(p) /\ room.gm = req[p].gm /\ req[p].gm \in known /\ room \in Header
      /\ Certain(p) = Told /\ \A q \in Pid : Will(p, q) = role[q]
      /\ known \subseteq Pid /\ UNCHANGED <<role, known, restored>>
  BY <1>1, PickNow, TypedFacts DEF PickSound, people
<1>3. /\ room'.mode = room.mode /\ room'.gm = room.gm
      /\ room'.state \in {"ROLE_PICK", "CONFIG"}
  BY <1>1, <1>2 DEF Header
<1>4. Moved(p) /\ req'[p] = Idle
  BY <1>1, ReturnIs
<1>5. Staffed
  <2>1. CASE room.mode = "VS"
    BY <1>2, <2>1 DEF PickSound
  <2>2. CASE room.mode = "SINGLE"
    <3>1. OneGM
      BY <1>2, <2>2 DEF PickSound, OneGM, OneGMToBe, Told
    <3>2. Drawn
      BY <1>2, <2>2 DEF PickSound, Drawn, Told
    <3> QED
      BY <2>2, <3>1, <3>2 DEF Staffed
  <2> QED
    BY <1>2, <2>1, <2>2 DEF Mode
<1>6. Blind
  BY <1>1, <1>2, <1>5, StaffedBlind
<1>7. Staffed' /\ Blind' /\ HashOfMode'
  BY <1>1, <1>2, <1>3, <1>5, <1>6
  DEF Staffed, OneGM, Drawn, Teamed, Blind, Told, HashOfMode
<1> QED
  BY <1>1, <1>3, <1>4, <1>7, PickAlone

LEMMA PickSteps ==
  ASSUME IInv, NEW p \in Pid, req[p].kind = "pick", Step(p)
  PROVE  StateSound' /\ Sounds'
<1>1. CASE GetRecord(p) \/ SetRecord(p)
  BY <1>1, RecordSound
<1>2. CASE \/ ListPlayers(p) \/ PickGM(p) \/ GMRole(p) \/ Split(p) \/ AssignVSRoles(p)
           \/ VSHash(p) \/ AssignSingleRoles(p) \/ PickRoom(p)
  BY <1>2, ListPlayersSound, GMSound, SplitSound, AssignVSRolesSound, VSHashSound,
     AssignSingleRolesSound, PickRoomSound
<1>3. CASE req[p].pc \notin {"get", "set"} /\ Belongs(room.mode, "pick", req[p].pc)
  BY <1>2, <1>3
  DEF Belongs, ResetStage, Step, GetRecord, SetRecord, WriteConfig, ConfigRoom, AutoStartRead,
      ReadConfig, StartGame, StartRoom, EndGame, EndRoom, Lose, ClearHash, ClearRoles,
      ClearTeams, ClearGM, ClearConfig, ResetGame, ResetRoom
<1>4. CASE req[p].pc \in {"get", "set"}
  BY <1>1, <1>4
  DEF Step, ListPlayers, PickGM, GMRole, Split, AssignVSRoles, VSHash, AssignSingleRoles,
      PickRoom, WriteConfig, ConfigRoom, AutoStartRead,
      ReadConfig, StartGame, StartRoom, EndGame, EndRoom, Lose, ClearHash, ClearRoles,
      ClearTeams, ClearGM, ClearConfig, ResetGame, ResetRoom
<1> QED
  BY <1>3, <1>4, PickNow

-----------------------------------------------------------------------------
(***************************************************************************)
(* The other requests, each beside those that may be under way with it.    *)
(***************************************************************************)
LEMMA Now ==
  ASSUME IInv, NEW p \in Pid, req[p].kind \notin {"touch", "pick"}
  PROVE  LET k == req[p].kind IN
         /\ Typed /\ StateSound /\ Sound(p) /\ Some(k) /\ room.mode \in Mode
         /\ ~Some("pick") /\ (k # "config" => ~Some("config"))
         /\ k \notin {"start", "end"} => ~Some("start")
         /\ k \notin {"over", "end"} => ~Some("over")
         /\ k = "config" => \A q \in Pid \ {p} : req[q].kind = "touch"
         /\ req[p].pc \notin {"get", "set"} =>
              /\ Stage(p) = req[p].pc /\ ~Looping(p) /\ req[p].plan = NoPlan
              /\ Belongs(room.mode, k, req[p].pc)
<1>1. Typed /\ StateSound /\ Sound(p) /\ Shape(p) /\ room.mode \in Mode
  BY TypedFacts DEF IInv, Sounds, Shaped
<1>2. \A q \in Pid \ {p} : \/ req[q].kind = "touch"
                           \/ Apart(req[p].kind, req[q].kind) /\ Apart(req[q].kind, req[p].kind)
  BY DEF IInv, Together
<1>3. /\ ~Some("pick") /\ (req[p].kind # "config" => ~Some("config"))
      /\ req[p].kind \notin {"start", "end"} => ~Some("start")
      /\ req[p].kind \notin {"over", "end"} => ~Some("over")
      /\ req[p].kind = "config" => \A q \in Pid \ {p} : req[q].kind = "touch"
  BY <1>2 DEF Some, Apart, Harmless
<1>4. req[p].pc \notin {"get", "set"} =>
        /\ Stage(p) = req[p].pc /\ ~Looping(p) /\ req[p].plan = NoPlan
        /\ Belongs(room.mode, req[p].kind, req[p].pc)
  BY <1>1 DEF Shape, Stage, Looping
<1> QED
  BY <1>1, <1>3, <1>4 DEF Some

LEMMA SomeAfter ==
  ASSUME NEW p \in Pid, Moved(p), req'[p] = Idle \/ req'[p].kind = req[p].kind
  PROVE  /\ \A j : j # "touch" => (Some(j)' => Some(j))
         /\ \A j : j \notin {"touch", req[p].kind} => (Some(j)' <=> Some(j))
         /\ Ending' => Ending \/ Stage(p)' = "end_room"
         /\ req'[p].kind = req[p].kind => (Some(req[p].kind)' <=> Some(req[p].kind))
<1>1. req'[p].kind \in {"touch", req[p].kind}
  BY Requests
<1>2. Ending' => Ending \/ Stage(p)' = "end_room"
  BY DEF Ending, Moved, Stage, Looping
<1> QED
  BY <1>1, <1>2 DEF Some, Moved

LEMMA OthersSound ==
  ASSUME IInv, NEW p \in Pid, req[p].kind \notin {"touch", "pick"}, Moved(p),
         room'.mode = room.mode, UNCHANGED <<known, role, restored, teams>>,
         secret' \in {secret, "none"} \/ req[p].kind = "config",
         req[p].kind \in {"start", "end"} =>
           /\ room'.gm = room.gm /\ hash' = hash /\ secret' = secret
           /\ room'.state \in {room.state, "GAME_END"}
                \/ (room'.state = "IN_GAME" /\ req[p].kind = "start")
           /\ game'.vote # "yes" \/ game'.vote = game.vote
           /\ game'.drawer \in {game.drawer, hash.drawer},
         req[p].kind \in {"lost", "reset"} =>
           room'.state \in {"WAITING", "GAME_END"} /\ room'.gm \in {room.gm, Nobody}
  PROVE  \A q \in Pid \ {p} : Sound(q)'
<1> SUFFICES ASSUME NEW q \in Pid \ {p} PROVE Sound(q)'
  OBVIOUS
<1>1. /\ Sound(q) /\ req'[q] = req[q] /\ Stage(q)' = Stage(q)
      /\ Certain(q)' = Certain(q) /\ \A x \in Pid : Will(q, x)' = Will(q, x)
  BY DEF IInv, Sounds, Moved, Stage, Looping, Certain, Will
<1>2. \/ req[q].kind = "touch"
      \/ Apart(req[p].kind, req[q].kind) /\ Apart(req[q].kind, req[p].kind)
  BY DEF IInv, Together
<1>3. CASE req[q].kind \notin {"pick", "config", "start", "over", "lost", "reset"}
  BY <1>1, <1>3 DEF Sound
<1>4. CASE req[q].kind = "start"
  <2>1. req[p].kind \in {"start", "end"}
    BY <1>2, <1>4 DEF Apart
  <2>2. Staffed => Staffed'
    BY <2>1 DEF Staffed, OneGM, Drawn, Teamed, Told
  <2> QED
    BY <1>1, <1>4, <2>1, <2>2 DEF Sound, StartSound
<1>5. CASE req[q].kind = "over"
  <2>1. req[p].kind = "end"
    BY <1>2, <1>5 DEF Apart
  <2> QED
    BY <1>1, <1>5, <2>1 DEF Sound
<1>6. CASE req[q].kind \in {"lost", "reset"}
  <2>1. req[p].kind \in {"end", "lost", "reset"}
    BY <1>2, <1>6 DEF Apart, Harmless
  <2>2. known \subseteq Pid
    BY TypedFacts DEF IInv
  <2>3. Certain(q) \subseteq Pid
    BY <2>2 DEF Certain
  <2>4. ResetSound(q) => ResetSound(q)'
    BY <1>1, <2>1, <2>3 DEF ResetSound
  <2> QED
    BY <1>1, <1>6, <2>1, <2>4 DEF Sound
<1>7. req[q].kind \notin {"pick", "config"}
  BY <1>2 DEF Apart, Harmless
<1> QED
  BY <1>3, <1>4, <1>5, <1>6, <1>7

LEMMA ConfigSteps ==
  ASSUME IInv, NEW p \in Pid, req[p].kind = "config", WriteConfig(p) \/ ConfigRoom(p)
  PROVE  StateSound' /\ Sounds'
<1>1. /\ Typed /\ StateSound /\ Sound(p) /\ ~Some("pick") /\ ~Some("over")
      /\ \A q \in Pid \ {p} : req[q].kind = "touch" /\ Stage(q) # "end_room"
  BY Now DEF IInv, Shaped, Shape, Belongs
<1>2. /\ Staffed /\ Blind /\ room.state \in {"ROLE_PICK", "CONFIG"} /\ room \in Header
  BY <1>1, TypedFacts DEF Sound, StateSound
<1>3. UNCHANGED <<role, known, restored, teams, hash, game>>
  BY DEF WriteConfig, ConfigRoom, people
<1>4. \A q \in Pid \ {p} : Moved(p) => Sound(q)' /\ Stage(q)' # "end_room" /\ req'[q].kind = "touch"
  BY <1>1 DEF Moved, Stage, Looping, Sound
<1>5. CASE WriteConfig(p)
  <2>1. UNCHANGED room /\ Gone(p, "config_room")
    <3>1. Goto(p, "config_room") /\ "config_room" \in Pc \ {"idle", "get", "set"} /\ UNCHANGED room
      BY <1>5 DEF WriteConfig, Pc
    <3> QED
      BY <1>1, <1>3, <3>1, GotoIs
  <2>2. Moved(p) /\ req'[p].kind = "config" /\ Stage(p)' = "config_room"
    BY <2>1, GoneStage DEF Pc
  <2>3. Sounds'
    BY <1>2, <1>4, <2>1, <2>2 DEF Sounds, Sound
  <2>4. ~Ending' /\ Some("config")' /\ Staffed' /\ Blind'
    BY <1>2, <1>3, <1>4, <2>1, <2>2
    DEF Ending, Some, Staffed, OneGM, Drawn, Teamed, Blind, Told
  <2> QED
    BY <1>1, <1>2, <1>3, <2>1, <2>3, <2>4 DEF StateSound
<1>6. CASE ConfigRoom(p)
  <2>1. /\ Moved(p) /\ req'[p] = Idle /\ UNCHANGED secret
        /\ room' = [room EXCEPT !.state = "CONFIG", !.countdown = "running"]
    BY <1>1, <1>6, ReturnIs DEF ConfigRoom
  <2>2. room'.state = "CONFIG" /\ room'.mode = room.mode /\ room'.gm = room.gm
    BY <1>2, <2>1 DEF Header
  <2>3. req'[p].kind = "touch" /\ Stage(p)' = "idle"
    BY <2>1, IdleStage
  <2>4. Sounds'
    BY <1>4, <2>1, <2>3 DEF Sounds, Sound
  <2>5. ~Ending' /\ Staffed' /\ Blind'
    BY <1>2, <1>3, <1>4, <2>1, <2>2, <2>3
    DEF Ending, Staffed, OneGM, Drawn, Teamed, Blind, Told
  <2> QED
    BY <1>1, <1>2, <1>3, <2>1, <2>2, <2>4, <2>5 DEF StateSound
<1> QED
  BY <1>5, <1>6

LEMMA StartSteps ==
  ASSUME IInv, NEW p \in Pid, req[p].kind = "start",
         AutoStartRead(p) \/ ReadConfig(p) \/ StartGame(p) \/ StartRoom(p)
  PROVE  StateSound' /\ Sounds'
<1>1. /\ Typed /\ StateSound /\ Sound(p) /\ ~Some("pick") /\ ~Some("over") /\ Some("start")
      /\ StartSound(p) /\ Plain(p) /\ req[p].pc \notin {"get", "set"} /\ Stage(p) = req[p].pc
      /\ room \in Header
  BY Now, TypedFacts
  DEF Sound, Plain, AutoStartRead, ReadConfig, StartGame, StartRoom
<1>2. UNCHANGED <<role, known, restored, teams, hash, secret>>
  BY DEF AutoStartRead, ReadConfig, StartGame, StartRoom, people
<1>3. /\ Moved(p)
      /\ \/ req'[p] = Idle
         \/ req'[p].pc \in After(p, req[p].pc) /\ Gone(p, req'[p].pc)
  BY <1>1, PlainIs
<1>4. \/ req'[p] = Idle
      \/ /\ req'[p].kind = "start" /\ Stage(p)' = req'[p].pc
         /\ req'[p].pc \in {"read_config", "start_game", "start_room"}
         /\ req'[p].pc = "start_room" <=> req[p].pc = "start_game"
  <2>1. After(p, req[p].pc) \subseteq {"read_config", "start_game", "start_room"}
        /\ ("start_room" \in After(p, req[p].pc) => req[p].pc = "start_game")
        /\ (req[p].pc = "start_game" => After(p, req[p].pc) = {"start_room"})
    BY DEF After, AutoStartRead, ReadConfig, StartGame, StartRoom
  <2> QED
    BY <1>3, <2>1, GoneStage DEF Pc
<1>5. \/ UNCHANGED <<room, game>> /\ (req[p].pc = "start_game" => req'[p] = Idle)
      \/ UNCHANGED room /\ game' = [drawer |-> hash.drawer, vote |-> "none"]
      \/ /\ UNCHANGED game /\ room' = [room EXCEPT !.state = "IN_GAME", !.countdown = "none"]
         /\ req[p].pc = "start_room" /\ req'[p] = Idle
  BY <1>1, ReturnIs DEF AutoStartRead, ReadConfig, StartGame, StartRoom
<1>6. /\ room'.mode = room.mode /\ room'.gm = room.gm
      /\ \/ room'.state = room.state
         \/ /\ room'.state = "IN_GAME" /\ UNCHANGED game
            /\ req[p].pc = "start_room" /\ req'[p] = Idle
  BY <1>1, <1>5 DEF Header
<1>7. game' = game \/ (game'.vote = "none" /\ game'.drawer = hash.drawer)
  BY <1>5
<1>8. /\ \A j : j # "touch" => (Some(j)' => Some(j))
      /\ \A j : j \notin {"touch", req[p].kind} => (Some(j)' <=> Some(j))
      /\ Ending' => Ending \/ Stage(p)' = "end_room"
  BY <1>3, <1>4, SomeAfter
<1>9. Staffed' /\ Blind'
  BY <1>1, <1>2, <1>6
  DEF StartSound, StateSound, Staffed, OneGM, Drawn, Teamed, Blind, Told
<1>10. Ending' => Ending
  BY <1>4, <1>8, IdleStage
<1>11. room.state = "IN_GAME" => game.vote # "yes" /\ game.drawer = hash.drawer
  BY <1>1 DEF StateSound
<1>12. req[p].pc = "start_room" => game.vote # "yes" /\ game.drawer = hash.drawer
  BY <1>1 DEF StartSound
<1>13. room'.state = "IN_GAME" => game'.vote # "yes" /\ game'.drawer = hash.drawer
  BY <1>6, <1>7, <1>11, <1>12
<1>14. ~(game'.vote = "yes" /\ (room'.state = "GAME_END" \/ Ending'))
  BY <1>1, <1>6, <1>7, <1>10, <1>12 DEF StateSound
<1>15. room'.state \in {"ROLE_PICK", "CONFIG", "IN_GAME", "GAME_END"}
  BY <1>1, <1>6 DEF StartSound
<1>16. StateSound'
  BY <1>1, <1>2, <1>6, <1>8, <1>9, <1>13, <1>14, <1>15 DEF StateSound
<1>17. Sound(p)'
  <2>1. CASE req'[p] = Idle
    BY <2>1, IdleStage DEF Sound
  <2>2. CASE req'[p].kind = "start" /\ Stage(p)' = req'[p].pc
             /\ (req'[p].pc = "start_room" => req[p].pc = "start_game")
    <3>1. Stage(p)' = "start_room" => game'.drawer = hash'.drawer /\ game'.vote # "yes"
      <4>1. CASE req'[p] = Idle
        BY <4>1, IdleStage
      <4>2. CASE req'[p] # Idle
        BY <1>2, <1>5, <2>2, <4>2
      <4> QED
        BY <4>1, <4>2
    <3> QED
      BY <1>9, <1>15, <2>2, <3>1 DEF Sound, StartSound
  <2> QED
    BY <1>4, <2>1, <2>2
<1>18. \A q \in Pid \ {p} : Sound(q)'
  BY <1>2, <1>3, <1>6, <1>7, OthersSound
<1> QED
  BY <1>16, <1>17, <1>18 DEF Sounds

LEMMA EndSteps ==
  ASSUME IInv, NEW p \in Pid, req[p].kind \in {"end", "over"}, EndGame(p) \/ EndRoom(p)
  PROVE  StateSound' /\ Sounds'
<1> DEFINE k == req[p].kind
<1>1. /\ Typed /\ StateSound /\ Sound(p) /\ ~Some("pick") /\ ~Some("config") /\ Some(k)
      /\ req[p].pc \notin {"get", "set"} /\ Stage(p) = req[p].pc
      /\ room \in Header /\ game \in Game
  BY Now, TypedFacts DEF EndGame, EndRoom
<1>2. UNCHANGED <<role, known, restored, teams, hash, secret>>
  BY DEF EndGame, EndRoom, people
<1>3. \/ /\ EndGame(p) /\ UNCHANGED room /\ game'.vote = "open" /\ game'.drawer = game.drawer
         /\ Gone(p, "end_room")
      \/ /\ EndRoom(p) /\ UNCHANGED game /\ Moved(p) /\ req'[p] = Idle /\ req[p].pc = "end_room"
         /\ room'.state = "GAME_END" /\ room'.mode = room.mode /\ room'.gm = room.gm
  <2>1. CASE EndGame(p)
    <3>1. Goto(p, "end_room") /\ "end_room" \in Pc \ {"idle", "get", "set"} /\ UNCHANGED room
          /\ game' = [game EXCEPT !.vote = "open"]
      BY <2>1 DEF EndGame, Pc
    <3>2. Gone(p, "end_room")
      BY <1>1, <1>2, <3>1, GotoIs
    <3> QED
      BY <1>1, <2>1, <3>1, <3>2 DEF Game
  <2>2. CASE EndRoom(p)
    <3>1. Moved(p) /\ req'[p] = Idle /\ UNCHANGED game /\ req[p].pc = "end_room"
          /\ room' = [room EXCEPT !.state = "GAME_END"]
      BY <1>1, <2>2, ReturnIs DEF EndRoom
    <3> QED
      BY <1>1, <2>2, <3>1 DEF Header
  <2> QED
    BY <2>1, <2>2
<1>4. /\ Moved(p) /\ (req'[p] = Idle \/ req'[p].kind = k)
      /\ room'.mode = room.mode /\ room'.gm = room.gm
  BY <1>3, GoneStage DEF Pc
<1>5. /\ \A j : j # "touch" => (Some(j)' => Some(j))
      /\ \A j : j \notin {"touch", k} => (Some(j)' <=> Some(j))
      /\ Ending' => Ending \/ Stage(p)' = "end_room"
      /\ req'[p].kind = k => (Some(k)' <=> Some(k))
  BY <1>4, SomeAfter
<1>6. (Staffed => Staffed') /\ (Clear => Clear') /\ Blind'
  BY <1>1, <1>2, <1>4
  DEF StateSound, Staffed, OneGM, Drawn, Teamed, Blind, Clear, NoRoles, Told
<1>7. CASE EndGame(p) /\ UNCHANGED room /\ game'.vote = "open" /\ game'.drawer = game.drawer
           /\ Gone(p, "end_room")
  <2>1. req'[p].kind = k
    BY <1>7 DEF Gone
  <2>2. \A j : j # "touch" => (Some(j)' <=> Some(j))
    BY <1>5, <2>1
  <2>3. StateSound'
    BY <1>1, <1>2, <1>6, <1>7, <2>2 DEF StateSound
  <2>4. Sound(p)'
    BY <1>1, <1>7, <2>1 DEF Sound
  <2>5. \A q \in Pid \ {p} : Sound(q)'
    BY <1>2, <1>4, <1>7, OthersSound
  <2> QED
    BY <2>3, <2>4, <2>5 DEF Sounds
<1>8. CASE /\ UNCHANGED game /\ req'[p] = Idle /\ req[p].pc = "end_room"
           /\ room'.state = "GAME_END"
  <2>1. Stage(p)' = "idle" /\ Ending /\ Sound(p)'
    BY <1>1, <1>8, IdleStage DEF Ending, Sound
  <2>2. game.vote = "yes" => ~Some("pick")' /\ ~Some("config")' /\ ~Some("start")'
    BY <1>1, <1>5, <2>1 DEF StateSound
  <2>3. StateSound'
    BY <1>1, <1>2, <1>4, <1>6, <1>8, <2>2 DEF StateSound
  <2>4. \A q \in Pid \ {p} : Sound(q)'
    BY <1>2, <1>4, <1>8, OthersSound
  <2> QED
    BY <2>1, <2>3, <2>4 DEF Sounds
<1> QED
  BY <1>3, <1>7, <1>8

\* Who is cleared away, or a plan to do so, is the concern of nobody else.
LEMMA ClearingSound ==
  ASSUME IInv, NEW p \in Pid, req[p].kind \in {"over", "lost", "reset"}, Moved(p),
         UNCHANGED <<role, known, restored, teams>>, room'.mode = room.mode,
         room'.state = room.state, room'.gm \in {room.gm, Nobody},
         req[p].kind = "over" => room'.gm = room.gm /\ secret' = secret,
         hash' \in {hash, NoDrawers}, secret' \in {secret, "none"},
         req[p].kind = "over" => UNCHANGED game,
         game'.vote # "yes" \/ game'.vote = game.vote,
         \/ req'[p].kind = req[p].kind /\ Stage(p)' # "end_room"
         \/ req'[p] = Idle /\ req[p].kind # "over",
         req'[p].kind = "reset" => ResetSound(p)'
  PROVE  StateSound' /\ Sounds'
<1>1. /\ Typed /\ StateSound /\ Sound(p) /\ ~Some("pick") /\ ~Some("config") /\ ~Some("start")
      /\ Nobody \notin Pid /\ known \subseteq Pid
  BY Now, TypedFacts
<1>2. /\ \A j : j # "touch" => (Some(j)' => Some(j))
      /\ Ending' => Ending \/ Stage(p)' = "end_room"
      /\ req'[p].kind = req[p].kind => (Some(req[p].kind)' <=> Some(req[p].kind))
  BY SomeAfter
<1>3. Stage(p)' # "end_room"
  BY IdleStage
<1>4. Some("over")' \/ room.state \in {"WAITING", "GAME_END"}
  <2>1. CASE req[p].kind = "over"
    BY <1>1, <1>2, <2>1 DEF Some
  <2> QED
    BY <1>1, <2>1 DEF Sound
<1>5. Blind' /\ (Clear => Clear')
  <2>1. hash' = hash \/ (hash'.drawer = Nobody /\ hash'.drawerA = Nobody /\ hash'.drawerB = Nobody)
    BY DEF NoDrawers
  <2> QED
    BY <1>1, <2>1 DEF StateSound, Blind, Clear, NoRoles, Told
<1>6. IF room.mode = "VS" THEN hash'.drawer = Nobody
                         ELSE hash'.drawerA = Nobody /\ hash'.drawerB = Nobody
  BY <1>1 DEF StateSound, NoDrawers
<1>7. room.state = "IN_GAME" => game'.vote # "yes"
  BY <1>1 DEF StateSound
<1>8. StateSound'
  BY <1>1, <1>2, <1>3, <1>4, <1>5, <1>6, <1>7 DEF StateSound
<1>9. Sound(p)'
  <2>1. CASE req'[p] = Idle
    BY <2>1, IdleStage DEF Sound
  <2>2. CASE req'[p].kind = req[p].kind
    BY <1>1, <2>2 DEF Sound
  <2> QED
    BY <2>1, <2>2
<1>10. req[p].kind \in {"lost", "reset"} => room'.state \in {"WAITING", "GAME_END"}
  BY <1>1 DEF Sound
<1>11. \A q \in Pid \ {p} : Sound(q)'
  BY <1>10, OthersSound
<1> QED
  BY <1>8, <1>9, <1>11 DEF Sounds

LEMMA ClearLoopsSound ==
  ASSUME IInv, NEW p \in Pid, req[p].kind \in {"over", "lost", "reset"},
         ClearRoles(p) \/ ClearTeams(p)
  PROVE  StateSound' /\ Sounds'
<1>1. /\ Typed /\ Sound(p) /\ room.mode \in Mode /\ req[p].pc \notin {"get", "set"}
      /\ Belongs(room.mode, req[p].kind, req[p].pc)
      /\ Stage(p) = req[p].pc /\ teams \in [Team -> SUBSET known] /\ known \subseteq Pid
  BY Now, TypedFacts DEF ClearRoles, ClearTeams
<1>2. /\ UNCHANGED <<room, role, known, restored, teams, hash, secret, game>> /\ Moved(p)
  BY <1>1, ClearLoops DEF Quiet, people
<1>3. CASE /\ req[p].pc = "clear_roles"
           /\ \A q \in Pid : req'[p].plan[q] = IF q \in known THEN "none" ELSE "keep"
           /\ On(p, IF room.mode = "VS" THEN "clear_teams"
                    ELSE IF req[p].kind = "over" THEN "end_game" ELSE "clear_hash", req'[p].plan)
  <2> DEFINE s == IF room.mode = "VS" THEN "clear_teams"
                  ELSE IF req[p].kind = "over" THEN "end_game" ELSE "clear_hash"
  <2>1. s \in Pc \ {"get", "set"} /\ s \in {"clear_teams", "end_game", "clear_hash"}
        /\ (s = "clear_hash" => room.mode # "VS")
    BY DEF Pc
  <2> HIDE DEF s
  <2>2. Stage(p)' = s /\ req'[p].kind = req[p].kind
    BY <1>3, <2>1, OnStage DEF s
  <2>3. \A q \in Certain(p)' : Will(p, q)' = "none"
    <3>1. "none" \in Role
      BY DEF Role
    <3> QED
      BY <1>1, <1>2, <1>3, <3>1 DEF Certain, Will
  <2>4. ResetSound(p)'
    BY <1>2, <2>1, <2>2, <2>3 DEF ResetSound, ResetStage
  <2>5. Stage(p)' # "end_room"
    BY <2>1, <2>2
  <2> QED
    BY <1>2, <2>2, <2>4, <2>5, ClearingSound
<1>4. CASE /\ req[p].pc = "clear_teams" /\ On(p, "clear_gm", req'[p].plan)
           /\ \A q \in Pid : req'[p].plan[q] = IF q \in known THEN "out" ELSE "keep"
  <2>1. Stage(p)' = "clear_gm" /\ req'[p].kind = req[p].kind
    BY <1>4, OnStage DEF Pc
  <2>2. room.mode = "VS"
    BY <1>1, <1>4 DEF Belongs, ResetStage
  <2>3. ResetSound(p)'
    BY <1>1, <1>2, <1>4, <2>1, <2>2 DEF ResetSound, ResetStage
  <2> QED
    BY <1>2, <2>1, <2>3, ClearingSound
<1> QED
  BY <1>1, <1>3, <1>4, ClearLoops

LEMMA ClearSteps ==
  ASSUME IInv, NEW p \in Pid, req[p].kind \in {"over", "lost", "reset"},
         ClearHash(p) \/ ClearGM(p) \/ ClearConfig(p) \/ ResetGame(p) \/ Lose(p)
  PROVE  StateSound' /\ Sounds'
<1> DEFINE k == req[p].kind
           s == req[p].pc
<1>1. /\ Typed /\ Sound(p) /\ room.mode \in Mode /\ s \notin {"get", "set"}
      /\ Belongs(room.mode, k, s) /\ req[p].plan = NoPlan /\ Plain(p)
      /\ Stage(p) = s /\ teams \in [Team -> SUBSET known] /\ known \subseteq Pid
      /\ room \in Header /\ game \in Game
  BY Now, TypedFacts DEF ClearHash, ClearGM, ClearConfig, ResetGame, Lose, Plain
<1>2. UNCHANGED <<role, known, restored, teams>>
  BY DEF ClearHash, ClearGM, ClearConfig, ResetGame, Lose, people
<1>3. /\ Moved(p)
      /\ \/ req'[p] = Idle
         \/ req'[p].pc \in After(p, s) /\ Gone(p, req'[p].pc)
  BY <1>1, PlainIs
<1>4. \/ s = "clear_hash" /\ hash' = NoDrawers /\ UNCHANGED <<room, secret, game>>
      \/ s = "clear_gm" /\ room' = [room EXCEPT !.gm = Nobody] /\ UNCHANGED <<hash, secret, game>>
      \/ s = "clear_config" /\ secret' = "none" /\ UNCHANGED <<room, hash, game>>
      \/ s = "reset_game" /\ game'.vote = "none" /\ UNCHANGED <<room, hash, secret>>
      \/ s = "lose" /\ game'.vote = "no" /\ UNCHANGED <<room, hash, secret>>
  BY <1>1 DEF ClearHash, ClearGM, ClearConfig, ResetGame, Lose, Game
<1>5. /\ room'.mode = room.mode /\ room'.state = room.state /\ room'.gm \in {room.gm, Nobody}
      /\ s = "clear_gm" => room'.gm = Nobody
      /\ s # "clear_gm" => room'.gm = room.gm
  BY <1>1, <1>4 DEF Header
<1>6. \/ s = "lose" /\ req'[p] = Idle /\ k = "lost"
      \/ Stage(p)' = req'[p].pc /\ req'[p].pc \in After(p, s) /\ req'[p].kind = k
           /\ req'[p].plan = NoPlan
  <2>1. CASE Lose(p)
    BY <1>1, <2>1, ReturnIs DEF Lose, Belongs, ResetStage
  <2>2. CASE ClearHash(p) \/ ClearGM(p) \/ ClearConfig(p) \/ ResetGame(p)
    <3>1. req'[p].pc \in {"clear_config", "clear_roles", "reset_room", "lose", "reset_game",
                          "clear_gm"}
      <4>1. \/ Goto(p, "clear_config") \/ Goto(p, "clear_roles") \/ Goto(p, "reset_room")
            \/ Goto(p, "lose") \/ Goto(p, "reset_game") \/ Goto(p, "clear_gm")
        BY <2>2 DEF ClearHash, ClearGM, ClearConfig, ResetGame
      <4> QED
        BY <1>1, <4>1, TypedFacts, Goes DEF Pc
    <3>2. req'[p] # Idle
      BY <3>1, Requests
    <3> QED
      BY <1>1, <1>3, <3>1, <3>2, GoneStage DEF Pc
  <2> QED
    BY <2>1, <2>2
<1>7. CASE s = "lose" /\ req'[p] = Idle /\ k = "lost"
  <2>1. req'[p].kind = "touch"
    BY <1>7, IdleStage
  <2> QED
    BY <1>2, <1>3, <1>4, <1>5, <1>7, <2>1, ClearingSound
<1>8. CASE Stage(p)' = req'[p].pc /\ req'[p].pc \in After(p, s) /\ req'[p].kind = k
           /\ req'[p].plan = NoPlan
  <2>1. Stage(p)' # "end_room" /\ s \in {"clear_hash", "clear_gm", "clear_config", "reset_game"}
    BY <1>1, <1>4, <1>8 DEF After
  <2>2. k = "over" => s = "clear_hash"
    BY <1>1, <2>1 DEF Belongs, ResetStage
  <2>3. /\ Certain(p)' = Certain(p) /\ \A q \in Pid : Will(p, q)' = Will(p, q)
        /\ Certain(p) \subseteq Pid /\ \A q \in Pid : NoPlan[q] = "keep"
    BY <1>1, <1>2, <1>8, Requests DEF Certain, Will
  <2>4. ASSUME k = "reset" PROVE ResetSound(p)'
    <3>1. ResetSound(p)
      BY <1>1, <2>4 DEF Sound
    <3>2. CASE room.mode = "VS"
      <4>1. s \in {"clear_gm"} \cup ResetStage => \A t \in Team : \A q \in teams[t] : FALSE
        BY <1>1, <2>3, <3>1, <3>2 DEF ResetSound
      <4>2. \/ s = "clear_hash" /\ Stage(p)' = "clear_roles"
            \/ s = "clear_gm" /\ Stage(p)' = "clear_config"
            \/ s = "clear_config" /\ Stage(p)' = "reset_game"
            \/ s = "reset_game" /\ Stage(p)' = "reset_room"
        BY <1>8, <2>1, <2>4, <3>2 DEF After
      <4> QED
        BY <1>1, <1>2, <1>4, <1>5, <3>1, <3>2, <4>1, <4>2 DEF ResetSound, ResetStage
    <3>3. CASE room.mode = "SINGLE"
      <4>1. \/ s = "clear_hash" /\ Stage(p)' = "clear_config"
            \/ s = "clear_config" /\ Stage(p)' = "reset_game"
            \/ s = "reset_game" /\ Stage(p)' = "clear_gm"
            \/ s = "clear_gm" /\ Stage(p)' = "reset_room"
        BY <1>8, <2>1, <2>4, <3>3 DEF After
      <4>2. \A q \in Certain(p)' : Will(p, q)' = "none"
        BY <1>1, <2>3, <3>1, <3>3, <4>1 DEF ResetSound, ResetStage
      <4> QED
        BY <1>1, <1>4, <1>5, <3>1, <3>3, <4>1, <4>2 DEF ResetSound, ResetStage
    <3> QED
      BY <1>1, <3>2, <3>3 DEF Mode
  <2> QED
    BY <1>2, <1>3, <1>4, <1>5, <1>8, <2>1, <2>2, <2>4, ClearingSound
<1> QED
  BY <1>6, <1>7, <1>8

LEMMA ResetRoomSound ==
  ASSUME IInv, NEW p \in Pid, req[p].kind = "reset", ResetRoom(p)
  PROVE  StateSound' /\ Sounds'
<1>1. /\ Typed /\ StateSound /\ Sound(p) /\ room.mode \in Mode /\ req[p].pc = "reset_room"
      /\ req[p].plan = NoPlan /\ Stage(p) = "reset_room" /\ ~Some("pick") /\ ~Some("start")
      /\ ~Some("config") /\ room \in Header /\ teams \in [Team -> SUBSET known]
      /\ known \subseteq Pid
  BY Now, TypedFacts DEF ResetRoom
<1>2. /\ Moved(p) /\ req'[p] = Idle /\ UNCHANGED <<role, known, restored, teams, hash, secret, game>>
      /\ room' = [room EXCEPT !.state = "WAITING", !.countdown = "none"]
  BY <1>1, ReturnIs DEF ResetRoom, people
<1>3. room'.state = "WAITING" /\ room'.mode = room.mode /\ room'.gm = room.gm
  BY <1>1, <1>2 DEF Header
<1>4. ResetSound(p)
  BY <1>1 DEF Sound
<1>5. Clear
  <2>1. room.gm = Nobody
    BY <1>1, <1>4 DEF ResetSound, ResetStage, Mode
  <2>2. room.mode = "VS" => teams = NoTeams
    <3>1. room.mode = "VS" => \A t \in Team : \A q \in teams[t] : FALSE
      BY <1>1, <1>4, Requests DEF ResetSound, ResetStage
    <3> QED
      BY <1>1, <3>1 DEF NoTeams
  <2>3. room.mode = "SINGLE" => NoRoles
    BY <1>1, <1>4, Planless DEF ResetSound, ResetStage, NoRoles, Told
  <2> QED
    BY <2>1, <2>2, <2>3 DEF Clear
<1>6. Clear' /\ Blind' /\ secret' = "none"
  BY <1>1, <1>2, <1>3, <1>4, <1>5 DEF Clear, NoRoles, Told, StateSound, Blind, ResetSound
<1>7. \A j : j # "touch" => (Some(j)' => Some(j))
  BY <1>2, SomeAfter
<1>8. StateSound'
  BY <1>1, <1>2, <1>3, <1>6, <1>7 DEF StateSound
<1>9. Sound(p)' /\ \A q \in Pid \ {p} : Sound(q)'
  BY <1>2, <1>3, OthersSound, IdleStage DEF Sound
<1> QED
  BY <1>8, <1>9 DEF Sounds

LEMMA VoteYesSound ==
  ASSUME IInv, VoteYes
  PROVE  StateSound' /\ Sounds'
<1>1. /\ Typed /\ StateSound /\ \A q \in Pid : Sound(q) /\ game \in Game
      /\ room.state = "GAME_END"
  BY TypedFacts DEF IInv, Sounds, VoteYes, Voting
<1>2. /\ UNCHANGED <<room, role, known, restored, teams, hash, secret, req>>
      /\ game'.drawer = game.drawer
  BY <1>1 DEF VoteYes, people, Game
<1>3. \A j \in {"pick", "config", "start", "over"} : ~Some(j)
  <2>1. ~UnderWay({"pick", "config", "start", "over"})
    BY DEF VoteYes, Voting
  <2>2. \A q \in Pid : req[q].pc = "idle" => req[q].kind = "touch"
    BY <1>1 DEF Typed, Found
  <2> QED
    BY <2>1, <2>2 DEF UnderWay, Busy, Some
<1>4. StateSound'
  BY <1>1, <1>2, <1>3
  DEF StateSound, Some, Ending, Stage, Looping, Staffed, OneGM, Drawn, Teamed, Blind, Clear,
      NoRoles, Told
<1>5. ASSUME NEW q \in Pid PROVE Sound(q)'
  <2>1. req[q].kind \notin {"pick", "config", "start", "over"} /\ Sound(q) /\ req'[q] = req[q]
    BY <1>1, <1>2, <1>3 DEF Some
  <2>2. ResetSound(q) => ResetSound(q)'
    BY <1>2 DEF ResetSound, Stage, Looping, Certain, Will
  <2> QED
    BY <1>2, <2>1, <2>2 DEF Sound
<1> QED
  BY <1>4, <1>5 DEF Sounds

-----------------------------------------------------------------------------
(***************************************************************************)
(* The invariant holds.                                                    *)
(***************************************************************************)
LEMMA OtherSteps ==
  ASSUME IInv, NEW p \in Pid, req[p].kind \notin {"touch", "pick"}, Step(p)
  PROVE  StateSound' /\ Sounds'
<1> DEFINE k == req[p].kind
<1>1. CASE GetRecord(p) \/ SetRecord(p)
  BY <1>1, RecordSound
<1>2. CASE req[p].pc \in {"get", "set"}
  BY <1>1, <1>2
  DEF Step, ListPlayers, PickGM, GMRole, Split, AssignVSRoles, VSHash, AssignSingleRoles,
      PickRoom, WriteConfig, ConfigRoom, AutoStartRead,
      ReadConfig, StartGame, StartRoom, EndGame, EndRoom, Lose, ClearHash, ClearRoles,
      ClearTeams, ClearGM, ClearConfig, ResetGame, ResetRoom
<1>3. CASE req[p].pc \notin {"get", "set"}
  <2>1. Belongs(room.mode, k, req[p].pc)
    BY <1>3, Now
  <2>2. CASE k = "config"
    <3>1. WriteConfig(p) \/ ConfigRoom(p)
      BY <1>3, <2>1, <2>2
      DEF Belongs, ResetStage, Step, GetRecord, SetRecord, ListPlayers, PickGM, GMRole, Split,
          AssignVSRoles, VSHash, AssignSingleRoles, PickRoom, AutoStartRead, ReadConfig,
          StartGame, StartRoom, EndGame, EndRoom, Lose, ClearHash, ClearRoles, ClearTeams,
          ClearGM, ClearConfig, ResetGame, ResetRoom
    <3> QED
      BY <2>2, <3>1, ConfigSteps
  <2>3. CASE k = "start"
    <3>1. AutoStartRead(p) \/ ReadConfig(p) \/ StartGame(p) \/ StartRoom(p)
      BY <1>3, <2>1, <2>3
      DEF Belongs, ResetStage, Step, GetRecord, SetRecord, ListPlayers, PickGM, GMRole, Split,
          AssignVSRoles, VSHash, AssignSingleRoles, PickRoom, WriteConfig, ConfigRoom,
          EndGame, EndRoom, Lose, ClearHash, ClearRoles, ClearTeams,
          ClearGM, ClearConfig, ResetGame, ResetRoom
    <3> QED
      BY <2>3, <3>1, StartSteps
  <2>4. CASE k \in {"end", "over"}
    <3>1. /\ req[p].pc \in {"end_game", "end_room", "clear_hash", "clear_roles"}
          /\ k = "end" => req[p].pc \in {"end_game", "end_room"}
      BY <2>1, <2>4 DEF Belongs, ResetStage
    <3>2. EndGame(p) \/ EndRoom(p) \/ ClearHash(p) \/ ClearRoles(p)
      BY <3>1
      DEF Belongs, ResetStage, Step, GetRecord, SetRecord, ListPlayers, PickGM, GMRole, Split,
          AssignVSRoles, VSHash, AssignSingleRoles, PickRoom, WriteConfig, ConfigRoom,
          AutoStartRead, ReadConfig, StartGame, StartRoom, Lose, ClearTeams,
          ClearGM, ClearConfig, ResetGame, ResetRoom
    <3>3. k = "end" => EndGame(p) \/ EndRoom(p)
      BY <3>1, <3>2 DEF ClearHash, ClearRoles
    <3> QED
      BY <2>4, <3>2, <3>3, EndSteps, ClearSteps, ClearLoopsSound
  <2>5. CASE k \in {"lost", "reset"}
    <3>1. \/ ClearHash(p) \/ ClearGM(p) \/ ClearConfig(p) \/ ResetGame(p) \/ Lose(p)
          \/ ClearRoles(p) \/ ClearTeams(p) \/ (k = "reset" /\ ResetRoom(p))
      BY <1>3, <2>1, <2>5
      DEF Belongs, ResetStage, Step, GetRecord, SetRecord, ListPlayers, PickGM, GMRole, Split,
          AssignVSRoles, VSHash, AssignSingleRoles, PickRoom, WriteConfig, ConfigRoom,
          AutoStartRead, ReadConfig, StartGame, StartRoom, EndGame, EndRoom, ResetRoom
    <3> QED
      BY <2>5, <3>1, ClearSteps, ClearLoopsSound, ResetRoomSound
  <2> QED
    BY <2>1, <2>2, <2>3, <2>4, <2>5 DEF Belongs
<1> QED
  BY <1>2, <1>3

LEMMA IInvStep ==
  ASSUME Overlapping \subseteq Harmless
  PROVE  IInv /\ [Next]_vars => IInv'
<1> SUFFICES ASSUME IInv, [Next]_vars PROVE StateSound' /\ Sounds'
  BY TypedStep, ShapedStep, TogetherStep DEF IInv
<1>1. ASSUME NEW p \in Pid, Step(p) PROVE StateSound' /\ Sounds'
  BY <1>1, TouchSound, PickSteps, OtherSteps
<1>2. ASSUME NEW p \in Pid, Begin(p) PROVE StateSound' /\ Sounds'
  BY <1>2, BeginSound
<1>3. ASSUME NEW p \in Pid, Join(p) \/ Leave(p) \/ Heartbeat(p) \/ JoinAsGM(p)
      PROVE  StateSound' /\ Sounds'
  BY <1>3, TouchSound
<1>4. CASE CountdownRunsOut \/ UNCHANGED vars
  <2>1. CASE Pid = {}
    <3>1. room.mode \in Mode /\ known = {} /\ Cardinality(known) >= MinPlayers[room.mode]
      BY <2>1, TypedFacts DEF IInv, StateSound
    <3>2. Cardinality(known) = 0
      BY <3>1, FS_EmptySet
    <3>3. /\ MinPlayers["VS"] \in Nat /\ MinPlayers["SINGLE"] \in Nat
          /\ MinPlayers["VS"] > 2 * MinTeam /\ MinPlayers["SINGLE"] > 1 /\ MinTeam \in Nat
      BY LobbyAssumption DEF Mode
    <3> QED
      BY <3>1, <3>2, <3>3 DEF Mode
  <2>2. CASE Pid # {}
    BY <1>4, <2>2, TouchSound
  <2> QED
    BY <2>1, <2>2
<1> QED
  BY <1>1, <1>2, <1>3, <1>4, VoteYesSound DEF Next

LEMMA IInvInit == Init => IInv
<1> SUFFICES ASSUME Init PROVE IInv
  OBVIOUS
<1>1. /\ \A p \in Pid : req[p] = Idle
      /\ room.state = "WAITING" /\ room.gm = Nobody /\ teams = NoTeams /\ hash = NoDrawers
      /\ secret = "none" /\ game.vote = "none" /\ Cardinality(known) >= MinPlayers[room.mode]
      /\ \A p \in Pid : role[p] = "none"
      /\ known \subseteq Pid
  BY DEF Init
<1>2. \A p \in Pid : /\ Stage(p) = "idle" /\ ~Looping(p) /\ req[p].kind = "touch"
                     /\ req[p].plan = NoPlan /\ req[p].pc = "idle"
  BY <1>1, Requests DEF Stage, Looping
<1>3. Shaped /\ Together /\ Sounds
  BY <1>2 DEF Shaped, Shape, Belongs, Together, Sounds, Sound
<1>4. \A q \in Told : role[q] = "none"
  BY <1>1 DEF Told
<1>5. Clear /\ Blind
  BY <1>1, <1>4 DEF Clear, NoRoles, Blind, Guessing
<1>6. StateSound
  BY <1>1, <1>5 DEF StateSound, NoDrawers
<1> QED
  BY <1>3, <1>6, TypedInit DEF IInv

LEMMA Always ==
  ASSUME Overlapping \subseteq Harmless
  PROVE  Spec => []IInv
<1>1. IInv /\ [Next]_vars => IInv'
  BY IInvStep
<1> QED
  BY <1>1, IInvInit, PTL DEF Spec

\* A request of one of these kinds that is under way has not returned to idle.
LEMMA NoneUnderWay ==
  ASSUME Typed, NEW k \in Kind, NEW kinds, k \in kinds, ~UnderWay(kinds)
  PROVE  ~Some(k)
<1>1. \A p \in Pid : req[p].pc = "idle" => req[p].kind = "touch"
  BY DEF Typed, Found
<1> QED
  BY <1>1 DEF Some, UnderWay, Busy, Kind

-----------------------------------------------------------------------------
\* Role picks and configurations that overlap no other request: whatever old record
\* a join, a leave or a heartbeat writes back between any two commands, and however
\* starts, ends, lost votes and resets overlap one another, the GameMaster, the
\* teams, the drawers and the roles hash fit together until the game is over; only
\* who was given an old role back can have another.
THEOREM RolesAlwaysFit ==
  ASSUME Overlapping \subseteq Harmless
  PROVE  Spec => []RolesFit
<1>1. IInv => RolesFit
  <2> SUFFICES ASSUME IInv, ~UnderWay({"pick", "over"}) PROVE RolesFit
    BY DEF RolesFit
  <2>1. Typed /\ StateSound /\ ~Some("pick") /\ ~Some("over")
    BY NoneUnderWay DEF IInv, Kind
  <2>2. /\ room.state \in {"ROLE_PICK", "CONFIG", "IN_GAME"} => Staffed
        /\ room.state = "IN_GAME" => game.drawer = hash.drawer
    BY <2>1 DEF StateSound
  <2> QED
    BY <2>2 DEF RolesFit, Staffed, OneGM, Teamed, Drawn, Told
<1> QED
  BY <1>1, Always, PTL

\* A room in CONFIG with a word can be started, by the GameMaster and by the
\* countdown, whoever has joined, left or come back since the role pick, as long as
\* nobody was given an old role back.
THEOREM AlwaysStartable ==
  ASSUME Overlapping \subseteq Harmless
  PROVE  Spec => []ConfigStartable
<1>1. IInv => ConfigStartable
  <2> SUFFICES ASSUME IInv, Movers = {}, room.state = "CONFIG", restored = {}
               PROVE  MayStart(room.gm) /\ Ready(room.gm)
    BY DEF ConfigStartable
  <2>1. ~Some("pick") /\ ~Some("over")
    BY DEF IInv, Typed, Found, Some, Movers, Busy
  <2>2. /\ Staffed /\ Cardinality(known) >= MinPlayers[room.mode] /\ Told = known
        /\ room.mode = "VS" \/ room.mode = "SINGLE"
        /\ teams \in [Team -> SUBSET known] /\ known \subseteq Pid /\ Nobody \notin Pid
    BY <2>1, TypedFacts, LobbyAssumption DEF IInv, StateSound, Mode, Told
  <2>3. MayStart(room.gm)
    BY <2>2 DEF MayStart, Staffed, OneGM
  <2>4. CASE room.mode = "SINGLE"
    BY <2>2, <2>3, <2>4 DEF Ready, Staffed, Drawn
  <2>5. CASE room.mode = "VS"
    <3>1. ASSUME NEW t \in Team
          PROVE  /\ Cardinality(teams[t] \ {room.gm}) >= MinTeam
                 /\ Cardinality({q \in teams[t] \cap known : role[q] = DrawerOf[t]}) = 1
      <4>1. teams[t] \ {room.gm} = teams[t] /\ Cardinality(teams[t]) >= MinTeam
        BY <2>2, <2>5 DEF Staffed, Teamed, Team
      <4>2. {q \in teams[t] \cap known : role[q] = DrawerOf[t]} = {hash[DrawerOf[t]]}
        BY <2>2, <2>5 DEF Staffed, Drawn
      <4> QED
        BY <4>1, <4>2, FS_Singleton
    <3> QED
      BY <2>2, <2>3, <2>5, <3>1 DEF Ready
  <2> QED
    BY <2>2, <2>4, <2>5
<1> QED
  BY <1>1, Always, PTL

\* No player who may guess is ever shown the secret word: not as GameMaster, not by
\* its role, and not by a roles hash that an earlier pick, made while somebody was
\* away, has left; only who was given an old role back can be.
THEOREM NoGuesserSeesTheWord ==
  ASSUME Overlapping \subseteq Harmless
  PROVE  Spec => []GuesserDoesNotSeeWord
<1>1. IInv => GuesserDoesNotSeeWord
  <2> SUFFICES ASSUME IInv, secret # "none", NEW q \in known \ restored, role[q] \in Guessing
               PROVE  ~SeesWord(q)
    BY DEF GuesserDoesNotSeeWord
  <2>1. ~Some("pick")
    BY DEF IInv, Some, Sounds, Sound, PickSound
  <2>2. Blind /\ q \in Told /\ hash \in Hash
    BY <2>1, TypedFacts DEF IInv, StateSound, Told
  <2>3. \A d \in DOMAIN hash : hash[d] # q
    BY <2>2 DEF Blind, Hash
  <2>4. q # room.gm /\ role[q] \notin {"gm", "drawer", "drawerA", "drawerB"}
    BY <2>2 DEF Blind, Guessing
  <2> QED
    BY <2>3, <2>4 DEF SeesWord
<1> QED
  BY <1>1, Always, PTL

\* A game that runs is left for GAME_END only, however a start by the countdown
\* and one by the GameMaster, the end of the game, a lost vote and a late reset
\* overlap.
THEOREM NoGameInterrupted ==
  ASSUME Overlapping \subseteq Harmless
  PROVE  Spec => GameNotInterrupted
<1>1. IInv /\ [Next]_vars
        => [room.state = "IN_GAME" => room'.state \in {"IN_GAME", "GAME_END"}]_room
  <2> SUFFICES ASSUME IInv, [Next]_vars, room.state = "IN_GAME", room' # room
               PROVE  room'.state \in {"IN_GAME", "GAME_END"}
    OBVIOUS
  <2>1. Typed /\ room \in Header /\ \A p \in Pid : Sound(p) /\ Shape(p)
    BY TypedFacts DEF IInv, Sounds, Shaped
  <2>2. ASSUME NEW p \in Pid, Step(p) PROVE room'.state \in {"IN_GAME", "GAME_END"}
    <3>1. CASE PickRoom(p) \/ ConfigRoom(p) \/ ResetRoom(p)
      <4>1. req[p].kind \in {"pick", "config", "reset"}
        BY <2>1, <3>1 DEF PickRoom, ConfigRoom, ResetRoom, Shape, Belongs, ResetStage, Stage, Looping
      <4> QED
        BY <2>1, <4>1 DEF Sound, PickSound
    <3>2. CASE StartRoom(p) \/ EndRoom(p)
      BY <2>1, <3>2 DEF StartRoom, EndRoom, Header
    <3>3. CASE PickGM(p) \/ ClearGM(p)
      BY <2>1, <3>3 DEF PickGM, ClearGM, Header
    <3>4. CASE ~ (\/ PickRoom(p) \/ ConfigRoom(p) \/ ResetRoom(p) \/ StartRoom(p)
                  \/ EndRoom(p) \/ PickGM(p) \/ ClearGM(p))
      BY <2>2, <3>4
      DEF Step, GetRecord, SetRecord, ListPlayers, GMRole, Split, AssignVSRoles, VSHash,
          AssignSingleRoles, WriteConfig, AutoStartRead, ReadConfig, StartGame, EndGame, Lose,
          ClearHash, ClearRoles, ClearTeams, ClearConfig, ResetGame
    <3> QED
      BY <3>1, <3>2, <3>3, <3>4
  <2>3. ASSUME NEW p \in Pid, \/ Join(p) \/ Leave(p) \/ Heartbeat(p) \/ JoinAsGM(p)
                              \/ Begin(p)
        PROVE  room' = room
    BY <2>1, <2>3, Begins, Touches DEF Join, Quiet
  <2>4. CASE CountdownRunsOut
    BY <2>1, <2>4, CountdownWritten DEF CountdownRunsOut
  <2>5. CASE VoteYes \/ UNCHANGED vars
    BY <2>5 DEF VoteYes, vars
  <2> QED
    BY <2>2, <2>3, <2>4, <2>5 DEF Next
<1> QED
  BY <1>1, Always, PTL DEF Spec, GameNotInterrupted
=============================================================================
