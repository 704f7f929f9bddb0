------------------------------- MODULE Players -------------------------------
(***************************************************************************)
(* The players of one room and their connections: the player records in    *)
(* Redis, the set of active players, the registry of sockets in the        *)
(* server's memory, and the handlers that keep the three together - join,  *)
(* heartbeat, leave, reconnect, the end of a socket, the GameMaster's      *)
(* moderation, the points given at the end of a game, and the              *)
(* administrator closing the room.                                         *)
(*                                                                         *)
(* A record is one JSON value: every change of one field reads the whole   *)
(* record and writes it back, in two commands.  Reads that come one after  *)
(* another, with no write of the handler between them, are one action.     *)
(*                                                                         *)
(* A socket s is given a pid of its own when it is accepted, called s too. *)
(***************************************************************************)
EXTENDS Integers, FiniteSets

CONSTANTS
  Socket,       \* the sockets that are opened, and the pids they are given
  GM,           \* the GameMaster's pid, header.gm_pid
  Admin,        \* the administrator's request, on no socket
  Nobody,       \* no socket
  Cap,          \* header.cap
  Watched,      \* the pids that are taken over, moderated and given points
  Unsteady,     \* the sockets whose clients join, leave and go
  Overlapping,  \* the kinds of request handled while others are under way
  MaxInFlight   \* bound on the requests being handled at one time

Kind == {"join", "heartbeat", "leave", "reconnect", "drop", "kick", "ban",
         "warn", "award", "admin"}

ASSUME PlayersAssumption ==
  /\ GM \in Socket /\ Admin \notin Socket /\ Nobody \notin Socket
  /\ Watched \subseteq Socket /\ Unsteady \subseteq Socket
  /\ Cap \in Nat /\ MaxInFlight \in Nat /\ Overlapping \subseteq Kind

VARIABLES
  room,    \* the header: "open"; "gone"; or "broken", with some fields only
  rec,     \* rec[p]: the record of player p
  active,  \* the set of active pids
  reg,     \* WSManager: reg[p] is the socket registered for pid p
  link,    \* link[s]: the socket s, and the variable pid of its coroutine
  req,     \* req[s]: where the handler of socket s is and what it read
  todo,    \* the pids whose sockets close_room has still to close
  won,     \* history: players given a point
  out      \* history: players whose kick was carried out

vars == <<room, rec, active, reg, link, req, todo, won, out>>

Absent == [in |-> FALSE, connected |-> FALSE, kicked |-> FALSE, points |-> 0]
NewPlayer == [Absent EXCEPT !.in = TRUE, !.connected = TRUE]
Actor == Socket \cup {Admin}
Idle == [pc |-> "idle", kind |-> "heartbeat", on |-> GM, copy |-> Absent]

Pid(s) == link[s].pid
Open(s) == link[s].st = "open"
Busy == {a \in Actor : req[a].pc # "idle"}

\* A request of this kind may be begun with those that are under way.
May(kind) ==
  \/ Busy = {}
  \/ /\ Cardinality(Busy) < MaxInFlight
     /\ {kind} \cup {req[a].kind : a \in Busy} \subseteq Overlapping

\* The coroutine of s waits in receive_json.
Receives(s) == Open(s) /\ req[s].pc = "idle"
Goto(a, pc) == req' = [req EXCEPT ![a].pc = pc]
Return(a) == req' = [req EXCEPT ![a] = Idle]
Begin(s, pc, kind, p) ==
  req' = [req EXCEPT ![s] = [Idle EXCEPT !.pc = pc, !.kind = kind, !.on = p]]

(***************************************************************************)
(* A socket is accepted and registered, and is sent its hello outside the  *)
(* try clause of ws_room: if that raises, nothing takes the entry out.     *)
(* Then messages arrive.  In a room that is gone every handler answers     *)
(* ROOM_NOT_FOUND; in a broken one get_room_header raises, the exception   *)
(* leaves the receive loop and only its finally clause runs.               *)
(***************************************************************************)
Connect(s) ==
  /\ link[s].st = "new"
  /\ link' = [link EXCEPT ![s].st = "hello"]
  /\ reg' = [reg EXCEPT ![s] = s]
  /\ UNCHANGED <<room, rec, active, req, todo, won, out>>

Hello(s) ==
  /\ link[s].st = "hello"
  /\ \/ link' = [link EXCEPT ![s].st = "lost"]
     \/ ~link[s].shut /\ link' = [link EXCEPT ![s].st = "open"]
  /\ UNCHANGED <<room, rec, active, reg, req, todo, won, out>>

\* The dispatcher stops a kicked player, except for join and reconnect.
Stopped(s) == rec[Pid(s)].in /\ rec[Pid(s)].kicked
Message(s, kind) ==
  /\ Receives(s) /\ ~link[s].shut /\ May(kind)
  /\ UNCHANGED <<rec, active, todo, won, out>>

\* Mutant: a player who comes back is added again.
JoinAddsAgain(s) ==
  /\ Message(s, "join") /\ UNCHANGED <<room, reg, link>>
  /\ room = "open"
  /\ Cardinality(active) < Cap \/ rec[Pid(s)].in
  /\ Begin(s, "add", "join", Pid(s))

\* A new player is added if the active players leave room for one.
Join(s) ==
  /\ Message(s, "join") /\ UNCHANGED <<room, reg, link>>
  /\ \/ room = "broken" /\ Begin(s, "remove", "join", Pid(s))
     \/ /\ room = "open"
        /\ \/ /\ ~rec[Pid(s)].in /\ Cardinality(active) < Cap
              /\ Begin(s, "add", "join", Pid(s))
           \/ /\ rec[Pid(s)].in /\ ~rec[Pid(s)].kicked
              /\ Begin(s, "get", "join", Pid(s))

Add(s) ==
  /\ req[s].pc = "add"
  /\ rec' = [rec EXCEPT ![req[s].on] = NewPlayer]
  /\ Goto(s, "act")
  /\ UNCHANGED <<room, active, reg, link, todo, won, out>>

\* Mutant: a heartbeat that is not looked at for who is kicked.
HeartbeatUnstopped(s) ==
  /\ Message(s, "heartbeat") /\ UNCHANGED <<room, reg, link>>
  /\ room = "open" /\ Begin(s, "get", "heartbeat", Pid(s))

Heartbeat(s) ==
  /\ Message(s, "heartbeat") /\ UNCHANGED <<room, reg, link>>
  /\ ~Stopped(s)
  /\ \/ room = "broken" /\ Begin(s, "remove", "heartbeat", Pid(s))
     \/ room = "open" /\ Begin(s, "get", "heartbeat", Pid(s))

Leave(s) ==
  /\ Message(s, "leave") /\ UNCHANGED <<room, reg, link>>
  /\ ~Stopped(s)
  /\ \/ room = "broken" /\ Begin(s, "remove", "leave", Pid(s))
     \/ room = "open" /\ Begin(s, "get", "leave", Pid(s))

\* Mutant: replace_pid leaves the entry of the old pid.
ReconnectKeepsOld(s, p) ==
  /\ Message(s, "reconnect") /\ UNCHANGED room
  /\ reg' = [reg EXCEPT ![p] = s]
  /\ link' = [link EXCEPT ![s].pid = p]
  /\ room = "open" /\ rec[p].in /\ ~rec[p].kicked
  /\ Begin(s, "get", "reconnect", p)

\* The socket takes over pid p, in the registry and in its coroutine, before the
\* handler looks whether there is such a player.
Reconnect(s, p) ==
  /\ Message(s, "reconnect") /\ UNCHANGED room
  /\ reg' = IF p = Pid(s) THEN reg ELSE [reg EXCEPT ![Pid(s)] = Nobody, ![p] = s]
  /\ link' = [link EXCEPT ![s].pid = p]
  /\ \/ room = "broken" /\ Begin(s, "remove", "reconnect", p)
     \/ /\ room = "open" /\ rec[p].in /\ ~rec[p].kicked
        /\ Begin(s, "get", "reconnect", p)
     \/ /\ room = "gone" \/ (room = "open" /\ (~rec[p].in \/ rec[p].kicked))
        /\ UNCHANGED req

\* The GameMaster kicks, or warns or mutes, a player.
Moderate(s, p, kind) ==
  /\ Message(s, kind) /\ UNCHANGED <<room, reg, link>>
  /\ ~Stopped(s)
  /\ \/ room = "broken" /\ Begin(s, "remove", kind, p)
     \/ /\ room = "open"
        /\ Pid(s) = GM /\ rec[GM].in /\ rec[p].in
        /\ Begin(s, "get", kind, p)

\* A tick of s finds the game over and, under the room's end lock, gives the
\* connected player p its point.
Award(s, p) ==
  /\ Message(s, "award") /\ UNCHANGED <<room, reg, link>>
  /\ ~Stopped(s) /\ room = "open"
  /\ \A a \in Busy : req[a].kind # "award"
  /\ rec[p].in /\ rec[p].connected /\ p \notin won
  /\ Begin(s, "get", "award", p)

\* The client is gone or its socket was closed: handle_disconnect.
Drop(s) ==
  /\ Receives(s) /\ May("drop")
  /\ IF room = "open" THEN Begin(s, "get", "drop", Pid(s))
                      ELSE Begin(s, "remove", "drop", Pid(s))
  /\ UNCHANGED <<room, rec, active, reg, link, todo, won, out>>

\* Any other exception in the receive loop: no handle_disconnect.
Raise(s) ==
  /\ Receives(s) /\ May("drop")
  /\ Begin(s, "remove", "drop", Pid(s))
  /\ UNCHANGED <<room, rec, active, reg, link, todo, won, out>>

(***************************************************************************)
(* set_player_connected and update_player_fields                           *)
(***************************************************************************)
\* Mutant: a warning is counted in the field of the points.
ChangePoints(kind, r) ==
  CASE kind \in {"join", "heartbeat", "reconnect"} -> [r EXCEPT !.connected = TRUE]
    [] kind \in {"leave", "drop", "kick"} -> [r EXCEPT !.connected = FALSE]
    [] kind = "ban" -> [r EXCEPT !.kicked = TRUE]
    [] kind \in {"award", "warn"} -> [r EXCEPT !.points = @ + 1]

\* The record r with the fields of the request set.
Change(kind, r) ==
  CASE kind \in {"join", "heartbeat", "reconnect"} -> [r EXCEPT !.connected = TRUE]
    [] kind \in {"leave", "drop", "kick"} -> [r EXCEPT !.connected = FALSE]
    [] kind = "ban" -> [r EXCEPT !.kicked = TRUE]
    [] kind = "award" -> [r EXCEPT !.points = @ + 1]
    [] kind = "warn" -> r

\* What set_player_connected does after the record, update_player_fields not.
KeepsActive(kind) == kind \in {"heartbeat", "reconnect", "leave", "drop", "kick"}
\* A kick is both, one after the other; then every handler touches the header.
AfterRecord(a) ==
  IF req[a].kind = "kick" THEN req' = [req EXCEPT ![a].kind = "ban", ![a].pc = "get"]
                          ELSE Goto(a, "touch")

GetRecord(s) ==
  /\ req[s].pc = "get"
  /\ IF rec[req[s].on].in
     THEN req' = [req EXCEPT ![s].pc = "set",
                             ![s].copy = Change(req[s].kind, rec[req[s].on])]
     ELSE AfterRecord(s)
  /\ UNCHANGED <<room, rec, active, reg, link, todo, won, out>>

SetRecord(s) ==
  /\ req[s].pc = "set"
  /\ rec' = [rec EXCEPT ![req[s].on] = req[s].copy]
  /\ won' = IF req[s].kind = "award" THEN won \cup {req[s].on} ELSE won
  /\ out' = IF req[s].kind = "ban" THEN out \cup {req[s].on} ELSE out
  /\ IF KeepsActive(req[s].kind) THEN Goto(s, "act") ELSE AfterRecord(s)
  /\ UNCHANGED <<room, active, reg, link, todo>>

\* Mutant: a heartbeat does not bring its player back into the active set.
SetActiveOnJoin(s) ==
  /\ req[s].pc = "act"
  /\ active' = CASE req[s].kind \in {"join", "reconnect"} -> active \cup {req[s].on}
                 [] req[s].kind = "heartbeat" -> active
                 [] OTHER -> active \ {req[s].on}
  /\ AfterRecord(s)
  /\ UNCHANGED <<room, rec, reg, link, todo, won, out>>

SetActive(s) ==
  /\ req[s].pc = "act"
  /\ active' = IF req[s].kind \in {"join", "heartbeat", "reconnect"}
               THEN active \cup {req[s].on} ELSE active \ {req[s].on}
  /\ AfterRecord(s)
  /\ UNCHANGED <<room, rec, reg, link, todo, won, out>>

\* update_room_fields(last_activity) brings back one field of a header that is
\* gone; the snapshot of join and reconnect then raises.
Touch(s) ==
  /\ req[s].pc = "touch"
  /\ room' = IF room = "gone" THEN "broken" ELSE room
  /\ \/ req[s].kind = "drop" /\ Goto(s, "remove")
     \/ /\ req[s].kind = "ban"
        /\ IF rec[req[s].on].in THEN Goto(s, "close") ELSE Return(s)
     \/ /\ req[s].kind \in {"join", "reconnect"}
        /\ IF room' = "broken" THEN Goto(s, "remove") ELSE Return(s)
     \/ req[s].kind \in {"heartbeat", "leave", "warn", "award"} /\ Return(s)
  /\ UNCHANGED <<rec, active, reg, link, todo, won, out>>

\* The finally clause of ws_room.
Remove(s) ==
  /\ req[s].pc = "remove"
  /\ reg' = [reg EXCEPT ![Pid(s)] = Nobody]
  /\ link' = [link EXCEPT ![s].st = "gone"]
  /\ Return(s)
  /\ UNCHANGED <<room, rec, active, todo, won, out>>

\* close_pid closes the socket it finds registered, and then removes the entry.
Close(a) ==
  /\ req[a].pc = "close"
  /\ LET s == reg[req[a].on] IN
       \/ /\ s = Nobody
          /\ Return(a) /\ UNCHANGED link
       \/ /\ s # Nobody
          /\ link' = [link EXCEPT ![s].shut = TRUE]
          /\ Goto(a, "unregister")
  /\ UNCHANGED <<room, rec, active, reg, todo, won, out>>

Unregister(a) ==
  /\ req[a].pc = "unregister"
  /\ reg' = [reg EXCEPT ![req[a].on] = Nobody]
  /\ Return(a)
  /\ UNCHANGED <<room, rec, active, link, todo, won, out>>

(***************************************************************************)
(* close_room: one DEL of all keys, then the sockets, one at a time.       *)
(***************************************************************************)
CloseRoom ==
  /\ req[Admin].pc = "idle" /\ room = "open" /\ May("admin")
  /\ room' = "gone"
  /\ rec' = [p \in Socket |-> Absent]
  /\ active' = {}
  /\ todo' = {p \in Socket : reg[p] # Nobody}
  /\ UNCHANGED <<reg, link, req, won, out>>

CloseNext(p) ==
  /\ req[Admin].pc = "idle" /\ p \in todo
  /\ todo' = todo \ {p}
  /\ Begin(Admin, "close", "admin", p)
  /\ UNCHANGED <<room, rec, active, reg, link, won, out>>

-----------------------------------------------------------------------------
\* The GameMaster has joined over a socket of its own.
Init ==
  /\ room = "open"
  /\ rec = [p \in Socket |-> IF p = GM THEN NewPlayer ELSE Absent]
  /\ active = {GM}
  /\ reg = [p \in Socket |-> IF p = GM THEN GM ELSE Nobody]
  /\ link = [s \in Socket |-> [st |-> IF s = GM THEN "open" ELSE "new",
                               pid |-> s, shut |-> FALSE]]
  /\ req = [a \in Actor |-> Idle]
  /\ todo = {} /\ won = {} /\ out = {}

Step(s) ==
  \/ Add(s) \/ GetRecord(s) \/ SetRecord(s) \/ SetActive(s) \/ Touch(s)
  \/ Remove(s) \/ Close(s) \/ Unregister(s)

Next ==
  \/ \E s \in Unsteady : Connect(s) \/ Hello(s)
  \/ \E s \in Unsteady : Join(s) \/ Leave(s) \/ Drop(s) \/ Raise(s)
  \/ \E s \in Socket : Heartbeat(s) \/ Step(s)
  \/ \E s \in Unsteady, p \in Watched : Reconnect(s, p)
  \/ \E s \in Socket, p \in Watched :
       Award(s, p) \/ Moderate(s, p, "kick") \/ Moderate(s, p, "warn")
  \/ CloseRoom \/ Close(Admin) \/ Unregister(Admin)
  \/ \E p \in Socket : CloseNext(p)

Spec == Init /\ [][Next]_vars

\* A request is carried through, and a client that is connected sends a
\* heartbeat every second.
Fairness == \A s \in Socket : WF_vars(Step(s)) /\ SF_vars(Heartbeat(s))
FairSpec == Spec /\ Fairness

-----------------------------------------------------------------------------
Record == [in : BOOLEAN, connected : BOOLEAN, kicked : BOOLEAN, points : 0..1]
Link == [st : {"new", "hello", "open", "lost", "gone"}, pid : Socket, shut : BOOLEAN]
Pc == {"idle", "add", "get", "set", "act", "touch", "remove", "close", "unregister"}

\* The values of the variables.
TypeOK ==
  /\ room \in {"open", "gone", "broken"}
  /\ rec \in [Socket -> Record]
  /\ active \subseteq Socket
  /\ reg \in [Socket -> Socket \cup {Nobody}]
  /\ link \in [Socket -> Link]
  /\ req \in [Actor -> [pc : Pc, kind : Kind, on : Socket, copy : Record]]
  /\ todo \subseteq Socket /\ won \subseteq Socket /\ out \subseteq Socket

\* However sockets come and go, take over a pid or are closed under a handler,
\* an entry of the registry is a socket that answers for that pid, so that no
\* broadcast goes twice to one socket; and it is open or is being opened, or its
\* hello was never sent and the pid is the one it was accepted with.  A socket
\* that got as far as its receive loop leaves no entry when it goes.
RegistryTrue ==
  \A p \in Socket : reg[p] # Nobody =>
    /\ Pid(reg[p]) = p
    /\ \/ link[reg[p]].st \in {"hello", "open"}
       \/ link[reg[p]].st = "lost" /\ reg[p] = p

\* "Kick: disconnects and blocks future actions": a player who was kicked stays
\* kicked, disconnected and out of the active set, whatever its sockets send,
\* over whichever pid they come back, while the room is there.
KickedStayOut ==
  \A p \in out : rec[p].in =>
    rec[p].kicked /\ ~rec[p].connected /\ p \notin active

\* A player who leaves, is dropped, joins again or reconnects has its points.
PointsKept == \A p \in won : rec[p].in => rec[p].points = 1

\* The client of socket s goes on and nobody says that its player has left.
Stays(s) ==
  /\ room = "open" /\ Open(s) /\ ~link[s].shut
  /\ rec[Pid(s)].in /\ ~Stopped(s)
  /\ \A q \in Socket : req[q].pc # "idle" /\ req[q].on = Pid(s)
       => req[q].kind \notin {"leave", "drop", "kick", "ban"}

\* Whatever order the handlers of a player's sockets wrote its presence in, an
\* old socket's disconnect after the new one's reconnect too, its heartbeats
\* bring it back: in the record and in the active set, for good.
PresenceHeals ==
  \A s \in Socket :
    <>[]Stays(s) => <>[](rec[Pid(s)].connected /\ Pid(s) \in active)

\* "Server restores the player's connection": a socket whose player is in the
\* room and not kicked is in the registry, or another one of that player is.
Listening ==
  \A s \in Socket :
    Open(s) /\ ~link[s].shut /\ req[s].pc = "idle" /\ rec[Pid(s)].in /\ ~Stopped(s)
      => reg[Pid(s)] # Nobody
=============================================================================
