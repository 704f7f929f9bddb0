---------------------------- MODULE PlayersProofs ----------------------------
(***************************************************************************)
(* What holds of the players of a room for any number of sockets, whichever *)
(* of them come and go and whatever may overlap.                           *)
(***************************************************************************)
EXTENDS Players, TLAPS

Request == [pc : Pc, kind : Kind, on : Socket, copy : Record]
Touching == {"get", "set", "act"}

\* The actors and the kinds of records.
LEMMA Facts ==
  /\ GM \in Socket /\ Admin \notin Socket /\ Nobody \notin Socket
  /\ Admin \in Actor /\ Socket \subseteq Actor
  /\ \A a \in Actor : a \in Socket \/ a = Admin
  BY PlayersAssumption DEF Actor

LEMMA Records ==
  /\ Absent \in Record /\ NewPlayer \in Record
  /\ ~Absent.in /\ ~Absent.connected /\ ~Absent.kicked /\ Absent.points = 0
  /\ NewPlayer.in /\ NewPlayer.connected /\ ~NewPlayer.kicked /\ NewPlayer.points = 0
<1>1. /\ Absent \in Record
      /\ ~Absent.in /\ ~Absent.connected /\ ~Absent.kicked /\ Absent.points = 0
  BY DEF Absent, Record
<1>2. NewPlayer = [Absent EXCEPT !.in = TRUE, !.connected = TRUE]
  BY DEF NewPlayer
<1> QED
  BY <1>1, <1>2 DEF Record

LEMMA IdleRequest ==
  Idle \in Request /\ Idle.pc = "idle" /\ Idle.kind = "heartbeat"
  BY Facts, Records DEF Idle, Request, Pc, Kind

-----------------------------------------------------------------------------
(***************************************************************************)
(* What becomes of the request that moves.                                 *)
(***************************************************************************)
Moved(a) ==
  /\ req' \in [Actor -> Request]
  /\ \A b \in Actor \ {a} : req'[b] = req[b]
Stands(a, pc, kind) ==
  req'[a].pc = pc /\ req'[a].kind = kind /\ req'[a].on = req[a].on

LEMMA Goes ==
  ASSUME req \in [Actor -> Request], NEW a \in Actor, NEW pc \in Pc, Goto(a, pc)
  PROVE  Moved(a) /\ Stands(a, pc, req[a].kind) /\ req'[a].copy = req[a].copy
  BY DEF Goto, Moved, Stands, Request

LEMMA Returns ==
  ASSUME req \in [Actor -> Request], NEW a \in Actor, Return(a)
  PROVE  Moved(a) /\ req'[a] = Idle
  BY IdleRequest DEF Return, Moved

LEMMA Begins ==
  ASSUME req \in [Actor -> Request], NEW a \in Actor, NEW pc \in Pc, NEW kind \in Kind,
         NEW p \in Socket, Begin(a, pc, kind, p)
  PROVE  Moved(a) /\ req'[a].pc = pc /\ req'[a].kind = kind /\ req'[a].on = p
<1>1. /\ [Idle EXCEPT !.pc = pc, !.kind = kind, !.on = p] \in Request
      /\ [Idle EXCEPT !.pc = pc, !.kind = kind, !.on = p].pc = pc
      /\ [Idle EXCEPT !.pc = pc, !.kind = kind, !.on = p].kind = kind
      /\ [Idle EXCEPT !.pc = pc, !.kind = kind, !.on = p].on = p
  BY IdleRequest DEF Request
<1> QED
  BY <1>1 DEF Begin, Moved

LEMMA AfterRecordIs ==
  ASSUME req \in [Actor -> Request], NEW a \in Actor, AfterRecord(a)
  PROVE  /\ Moved(a)
         /\ \/ req[a].kind = "kick" /\ Stands(a, "get", "ban")
            \/ req[a].kind # "kick" /\ Stands(a, "touch", req[a].kind)
<1>1. CASE req[a].kind = "kick"
  <2>1. req' = [req EXCEPT ![a].kind = "ban", ![a].pc = "get"]
    BY <1>1 DEF AfterRecord
  <2> QED
    BY <1>1, <2>1 DEF Moved, Stands, Request, Pc, Kind
<1>2. CASE req[a].kind # "kick"
  <2>1. "touch" \in Pc /\ Goto(a, "touch")
    BY <1>2 DEF AfterRecord, Pc
  <2> QED
    BY <1>2, <2>1, Goes
<1> QED
  BY <1>1, <1>2

\* A changed record is a record; only the award of a second point would not be.
LEMMA ChangeIs ==
  ASSUME NEW kind \in Kind, kind # "admin", NEW r \in Record,
         kind = "award" => r.points # 1
  PROVE  /\ Change(kind, r) \in Record /\ Change(kind, r).in = r.in
         /\ Change(kind, r).points = IF kind = "award" THEN 1 ELSE r.points
         /\ kind = "ban" \/ r.kicked => Change(kind, r).kicked
         /\ ~Change(kind, r).connected <=>
              \/ kind \in {"leave", "drop", "kick"}
              \/ kind \in {"ban", "warn", "award"} /\ ~r.connected
<1>1. CASE kind \in {"join", "heartbeat", "reconnect"}
  <2>1. Change(kind, r) = [r EXCEPT !.connected = TRUE]
    BY <1>1 DEF Change
  <2> QED
    BY <1>1, <2>1 DEF Record
<1>2. CASE kind \in {"leave", "drop", "kick"}
  <2>1. Change(kind, r) = [r EXCEPT !.connected = FALSE]
    BY <1>2 DEF Change
  <2> QED
    BY <1>2, <2>1 DEF Record
<1>3. CASE kind = "ban"
  <2>1. Change(kind, r) = [r EXCEPT !.kicked = TRUE]
    BY <1>3 DEF Change
  <2> QED
    BY <1>3, <2>1 DEF Record
<1>4. CASE kind = "award"
  <2>1. Change(kind, r) = [r EXCEPT !.points = r.points + 1]
    BY <1>4 DEF Change
  <2>2. r.points + 1 = 1
    BY <1>4 DEF Record
  <2> QED
    BY <1>4, <2>1, <2>2 DEF Record
<1>5. CASE kind = "warn"
  BY <1>5 DEF Change
<1> QED
  BY <1>1, <1>2, <1>3, <1>4, <1>5 DEF Kind

-----------------------------------------------------------------------------
(***************************************************************************)
(* The types.  A record has one point at most because a player who has its *)
(* point is not given another, and whoever gives one is alone in that.     *)
(***************************************************************************)
\* The administrator's request touches no record; who writes one back has read
\* it; nobody has a point who was not given it.
RequestSound(a) ==
  LET r == req[a] IN
  /\ a = Admin => r.pc \in {"idle", "close", "unregister"}
  /\ r.pc \in {"add", "touch", "remove"} \cup Touching => r.kind # "admin"
  /\ r.pc = "set" => r.copy.in
  /\ r.pc = "set" /\ r.copy.points = 1 => r.kind = "award" \/ r.on \in won
  /\ r.kind = "award" /\ r.pc \in {"get", "set"} => r.on \notin won

Awarding(a) == req[a].kind = "award" /\ req[a].pc # "idle"

Shaped ==
  /\ \A p \in Socket : rec[p].points = 1 => p \in won
  /\ \A a \in Actor : RequestSound(a)
  /\ \A a, b \in Actor : Awarding(a) /\ Awarding(b) => a = b

Typed == TypeOK /\ Shaped

\* Nobody gets a point, and one request moves on.
LEMMA MoveKeeps ==
  ASSUME Typed, NEW a \in Actor, Moved(a), RequestSound(a)',
         req'[a].pc # "idle" /\ req'[a].kind = "award" =>
           \/ Awarding(a)
           \/ \A b \in Actor : ~Awarding(b),
         UNCHANGED <<rec, won, out>>,
         room' \in {"open", "gone", "broken"}, active' \subseteq Socket,
         reg' \in [Socket -> Socket \cup {Nobody}], todo' \subseteq Socket,
         link' \in [Socket -> Link]
  PROVE  Typed'
<1>1. TypeOK'
  BY DEF Typed, TypeOK, Moved, Request
<1>2. ASSUME NEW b \in Actor PROVE RequestSound(b)'
  <2>1. CASE b = a
    BY <2>1
  <2>2. CASE b # a
    BY <2>2 DEF Typed, Shaped, RequestSound, Moved
  <2> QED
    BY <2>1, <2>2
<1>3. ASSUME NEW b \in Actor, NEW c \in Actor, Awarding(b)', Awarding(c)' PROVE b = c
  <2>1. \A d \in Actor : d # a /\ Awarding(d)' => Awarding(d)
    BY DEF Awarding, Moved
  <2>2. Awarding(a)' => Awarding(a) \/ \A d \in Actor : ~Awarding(d)
    BY DEF Awarding
  <2> QED
    BY <1>3, <2>1, <2>2 DEF Typed, Shaped
<1>4. Shaped'
  BY <1>2, <1>3 DEF Typed, Shaped
<1> QED
  BY <1>1, <1>4 DEF Typed

\* Every step, told apart by what it does to the records and the requests.
Beginning(s, p) ==
  \/ Join(s) \/ Heartbeat(s) \/ Leave(s) \/ Reconnect(s, p) \/ Award(s, p)
  \/ Moderate(s, p, "kick") \/ Moderate(s, p, "warn") \/ Drop(s) \/ Raise(s)
Late(a) == Touch(a) \/ (a \in Socket /\ Remove(a)) \/ Close(a) \/ Unregister(a)

LEMMA Steps ==
  ASSUME Next
  PROVE  \/ \E s \in Socket : Connect(s) \/ Hello(s)
         \/ \E s, p \in Socket : Beginning(s, p)
         \/ \E a \in Actor : GetRecord(a) \/ SetRecord(a) \/ SetActive(a) \/ Add(a) \/ Late(a)
         \/ CloseRoom
         \/ \E p \in Socket : CloseNext(p)
<1>1. /\ Unsteady \subseteq Socket /\ Watched \subseteq Socket /\ Admin \in Actor
      /\ Socket \subseteq Actor
  BY Facts, PlayersAssumption
<1>2. ASSUME NEW s \in Unsteady,
             Connect(s) \/ Hello(s) \/ Join(s) \/ Leave(s) \/ Drop(s) \/ Raise(s)
      PROVE  \E q \in Socket : Connect(q) \/ Hello(q) \/ \E p \in Socket : Beginning(q, p)
  BY <1>1, <1>2 DEF Beginning
<1>3. ASSUME NEW s \in Socket, Heartbeat(s)
      PROVE  \E q, p \in Socket : Beginning(q, p)
  BY <1>3 DEF Beginning
<1>4. ASSUME NEW s \in Socket, NEW p \in Watched,
             \/ Award(s, p) \/ Moderate(s, p, "kick") \/ Moderate(s, p, "warn")
             \/ s \in Unsteady /\ Reconnect(s, p)
      PROVE  \E q, r \in Socket : Beginning(q, r)
  BY <1>1, <1>4 DEF Beginning
<1>5. ASSUME NEW s \in Socket, Step(s)
      PROVE  \E a \in Actor : GetRecord(a) \/ SetRecord(a) \/ SetActive(a) \/ Add(a) \/ Late(a)
  BY <1>1, <1>5 DEF Step, Late
<1>6. ASSUME Close(Admin) \/ Unregister(Admin) PROVE \E a \in Actor : Late(a)
  BY <1>1, <1>6 DEF Late
<1> QED
  BY <1>1, <1>2, <1>3, <1>4, <1>5, <1>6 DEF Next

\* A new request: what it has found, and what it will do first.
Arrived(s) ==
  /\ UNCHANGED <<room, rec, active, todo, won, out>>
  /\ s \in Socket /\ req[s].pc = "idle"
  /\ \/ req' = req
     \/ /\ Moved(s)
        /\ req'[s].kind \in Kind \ {"ban", "admin"}
        /\ req'[s].pc \in {"add", "get", "remove"}
        /\ May(req'[s].kind)
        /\ req'[s].pc = "add" =>
             req'[s].kind = "join" /\ room = "open" /\ ~rec[req'[s].on].in
        /\ req'[s].pc = "get" => room = "open"
        /\ req'[s].pc = "get" /\ rec[req'[s].on].in /\ rec[req'[s].on].kicked
             => req'[s].kind \in {"drop", "kick", "warn", "award"}
        /\ req'[s].kind = "award" =>
             /\ req'[s].pc = "get" /\ req'[s].on \notin won
             /\ rec[req'[s].on].in /\ rec[req'[s].on].connected
             /\ \A b \in Actor : ~Awarding(b)

LEMMA Arrivals ==
  ASSUME TypeOK, NEW s \in Socket, NEW p \in Socket, Beginning(s, p)
  PROVE  Arrived(s)
<1> DEFINE pid == Pid(s)
<1>1. /\ s \in Actor /\ req \in [Actor -> Request] /\ pid \in Socket
      /\ {"add", "get", "remove"} \subseteq Pc
  BY Facts DEF TypeOK, Link, Request, Pid, Pc
<1>2. /\ UNCHANGED <<room, rec, active, todo, won, out>> /\ req[s].pc = "idle"
  BY DEF Beginning, Join, Heartbeat, Leave, Reconnect, Award, Moderate, Drop, Raise, Message, Receives
<1> HIDE DEF pid
<1>3. ASSUME NEW pc \in {"add", "get", "remove"}, NEW kind \in Kind \ {"ban", "admin"},
             NEW q \in Socket, Begin(s, pc, kind, q), May(kind),
             pc = "add" => kind = "join" /\ room = "open" /\ ~rec[q].in,
             pc = "get" => room = "open",
             pc = "get" /\ rec[q].in /\ rec[q].kicked
               => kind \in {"drop", "kick", "warn", "award"},
             kind = "award" =>
               /\ pc = "get" /\ q \notin won /\ rec[q].in /\ rec[q].connected
               /\ \A b \in Actor : ~Awarding(b)
      PROVE  Arrived(s)
  <2>1. Moved(s) /\ req'[s].pc = pc /\ req'[s].kind = kind /\ req'[s].on = q
    BY <1>1, <1>3, Begins
  <2> QED
    BY <1>2, <1>3, <2>1 DEF Arrived
<1>4. {"join", "heartbeat", "leave", "reconnect", "drop", "kick", "warn", "award"}
        \subseteq Kind \ {"ban", "admin"}
  BY DEF Kind
<1>5. ASSUME Join(s) PROVE Arrived(s)
  BY <1>1, <1>3, <1>4, <1>5 DEF Join, Message, pid
<1>6. ASSUME Heartbeat(s) PROVE Arrived(s)
  BY <1>1, <1>3, <1>4, <1>6 DEF Heartbeat, Message, Stopped, pid
<1>7. ASSUME Leave(s) PROVE Arrived(s)
  BY <1>1, <1>3, <1>4, <1>7 DEF Leave, Message, Stopped, pid
<1>8. ASSUME Reconnect(s, p) PROVE Arrived(s)
  <2>1. CASE UNCHANGED req
    BY <1>2, <2>1 DEF Arrived
  <2> QED
    BY <1>3, <1>4, <1>8, <2>1 DEF Reconnect, Message
<1>9. ASSUME Award(s, p) PROVE Arrived(s)
  <2>1. \A b \in Actor : ~Awarding(b)
    BY <1>9 DEF Award, Busy, Awarding
  <2> QED
    BY <1>3, <1>4, <1>9, <2>1 DEF Award, Message
<1>10. ASSUME Moderate(s, p, "kick") \/ Moderate(s, p, "warn") PROVE Arrived(s)
  BY <1>3, <1>4, <1>10 DEF Moderate, Message
<1>11. ASSUME Drop(s) PROVE Arrived(s)
  BY <1>1, <1>3, <1>4, <1>11 DEF Drop, pid
<1>12. ASSUME Raise(s) PROVE Arrived(s)
  BY <1>1, <1>3, <1>4, <1>12 DEF Raise, pid
<1> QED
  BY <1>5, <1>6, <1>7, <1>8, <1>9, <1>10, <1>11, <1>12 DEF Beginning

\* The steps of a request.
LEMMA GetIs ==
  ASSUME Typed, NEW a \in Actor, GetRecord(a)
  PROVE  /\ Moved(a) /\ UNCHANGED <<room, rec, active, reg, link, todo, won, out>>
         /\ req[a].pc = "get"
         /\ \/ /\ rec[req[a].on].in /\ Stands(a, "set", req[a].kind)
               /\ req'[a].copy = Change(req[a].kind, rec[req[a].on])
            \/ ~rec[req[a].on].in /\ AfterRecord(a)
         /\ req[a].kind # "admin"
         /\ req[a].kind = "award" => rec[req[a].on].points # 1
<1>1. /\ UNCHANGED <<room, rec, active, reg, link, todo, won, out>> /\ req[a].pc = "get"
      /\ req[a] \in Request /\ req \in [Actor -> Request] /\ rec[req[a].on] \in Record
  BY DEF GetRecord, Typed, TypeOK, Request
<1>2. /\ req[a].kind # "admin"
      /\ req[a].kind = "award" => rec[req[a].on].points # 1
  BY <1>1 DEF Typed, Shaped, RequestSound, Touching, Request
<1>3. CASE rec[req[a].on].in
  <2> DEFINE c == Change(req[a].kind, rec[req[a].on])
  <2>1. c \in Record
    BY <1>1, <1>2, ChangeIs DEF Request
  <2>2. req' = [req EXCEPT ![a].pc = "set", ![a].copy = c]
    BY <1>3 DEF GetRecord
  <2> HIDE DEF c
  <2>3. Moved(a) /\ Stands(a, "set", req[a].kind) /\ req'[a].copy = c
    BY <1>1, <2>1, <2>2 DEF Moved, Stands, Request, Pc
  <2> QED
    BY <1>1, <1>2, <1>3, <2>3 DEF c
<1>4. CASE ~rec[req[a].on].in
  <2>1. AfterRecord(a)
    BY <1>4 DEF GetRecord
  <2> QED
    BY <1>1, <1>2, <1>4, <2>1, AfterRecordIs
<1> QED
  BY <1>3, <1>4

LEMMA SetIs ==
  ASSUME Typed, NEW a \in Actor, SetRecord(a)
  PROVE  /\ Moved(a) /\ UNCHANGED <<room, active, reg, link, todo>> /\ req[a].pc = "set"
         /\ rec' = [rec EXCEPT ![req[a].on] = req[a].copy]
         /\ won' = IF req[a].kind = "award" THEN won \cup {req[a].on} ELSE won
         /\ out' = IF req[a].kind = "ban" THEN out \cup {req[a].on} ELSE out
         /\ \/ KeepsActive(req[a].kind) /\ Stands(a, "act", req[a].kind)
            \/ ~KeepsActive(req[a].kind) /\ Stands(a, "touch", req[a].kind)
<1>1. req \in [Actor -> Request] /\ "act" \in Pc
  BY DEF Typed, TypeOK, Request, Pc
<1>2. CASE KeepsActive(req[a].kind)
  <2>1. Goto(a, "act")
    BY <1>2 DEF SetRecord
  <2> QED
    BY <1>1, <1>2, <2>1, Goes DEF SetRecord
<1>3. CASE ~KeepsActive(req[a].kind)
  <2>1. AfterRecord(a) /\ req[a].kind # "kick"
    BY <1>3 DEF SetRecord, KeepsActive
  <2> QED
    BY <1>1, <1>3, <2>1, AfterRecordIs DEF SetRecord
<1> QED
  BY <1>2, <1>3

LEMMA ActIs ==
  ASSUME Typed, NEW a \in Actor, SetActive(a)
  PROVE  /\ Moved(a) /\ UNCHANGED <<room, rec, reg, link, todo, won, out>>
         /\ req[a].pc = "act" /\ AfterRecord(a)
         /\ active' = IF req[a].kind \in {"join", "heartbeat", "reconnect"}
                      THEN active \cup {req[a].on} ELSE active \ {req[a].on}
  BY AfterRecordIs DEF Typed, TypeOK, Request, SetActive

LEMMA AddIs ==
  ASSUME Typed, NEW a \in Actor, Add(a)
  PROVE  /\ Moved(a) /\ UNCHANGED <<room, active, reg, link, todo, won, out>>
         /\ req[a].pc = "add" /\ Stands(a, "act", req[a].kind)
         /\ rec' = [rec EXCEPT ![req[a].on] = NewPlayer]
<1>1. req \in [Actor -> Request] /\ "act" \in Pc
  BY DEF Typed, TypeOK, Request, Pc
<1> QED
  BY <1>1, Goes DEF Add

\* A request that is past the records, or the administrator's.
LEMMA LateIs ==
  ASSUME Typed, NEW a \in Actor, Late(a)
  PROVE  /\ Moved(a) /\ UNCHANGED <<rec, active, todo, won, out>>
         /\ room' = room \/ room' = "broken"
         /\ req[a].pc \in {"touch", "remove", "close", "unregister"}
         /\ \/ req'[a] = Idle
            \/ /\ \E pc \in {"remove", "close", "unregister"} : Stands(a, pc, req[a].kind)
               /\ req'[a].pc = "remove" => req[a].pc = "touch"
<1>1. /\ req \in [Actor -> Request]
      /\ {"remove", "close", "unregister"} \subseteq Pc
  BY DEF Typed, TypeOK, Request, Pc
<1>2. /\ UNCHANGED <<rec, active, todo, won, out>>
      /\ room' = room \/ room' = "broken"
      /\ req[a].pc \in {"touch", "remove", "close", "unregister"}
  BY DEF Late, Touch, Remove, Close, Unregister
<1>3. \/ Return(a) \/ Goto(a, "close") \/ Goto(a, "unregister")
      \/ req[a].pc = "touch" /\ Goto(a, "remove")
  BY DEF Late, Touch, Remove, Close, Unregister
<1>4. CASE Return(a)
  BY <1>1, <1>2, <1>4, Returns
<1>5. ASSUME NEW pc \in {"remove", "close", "unregister"}, Goto(a, pc),
             pc = "remove" => req[a].pc = "touch"
      PROVE  /\ Moved(a) /\ Stands(a, pc, req[a].kind)
             /\ req'[a].pc = "remove" => req[a].pc = "touch"
  BY <1>1, <1>5, Goes DEF Stands
<1> QED
  BY <1>2, <1>3, <1>4, <1>5

-----------------------------------------------------------------------------
LEMMA BeginTyped ==
  ASSUME Typed, NEW s \in Socket, NEW p \in Socket, Beginning(s, p)
  PROVE  Typed'
<1>1. Arrived(s)
  BY Arrivals DEF Typed
<1>2. link' \in [Socket -> Link]
  BY DEF Beginning, Join, Heartbeat, Leave, Reconnect, Award, Moderate, Drop, Raise,
         Typed, TypeOK, Link
<1>3. reg' \in [Socket -> Socket \cup {Nobody}]
  BY DEF Beginning, Join, Heartbeat, Leave, Reconnect, Award, Moderate, Drop, Raise,
         Typed, TypeOK
<1>4. s \in Actor /\ s # Admin /\ req \in [Actor -> Request]
  BY Facts DEF Typed, TypeOK, Request
<1>5. CASE req' = req
  <2>1. Moved(s) /\ RequestSound(s)'
    BY <1>1, <1>4, <1>5 DEF Arrived, Moved, RequestSound, Typed, Shaped
  <2>2. req'[s].pc # "idle" /\ req'[s].kind = "award" => Awarding(s)
    BY <1>5 DEF Awarding
  <2> QED
    BY <1>1, <1>2, <1>3, <1>4, <2>1, <2>2, MoveKeeps DEF Arrived, Typed, TypeOK
<1>6. CASE /\ Moved(s) /\ req'[s].kind \in Kind \ {"ban", "admin"}
           /\ req'[s].pc \in {"add", "get", "remove"}
           /\ req'[s].kind = "award" =>
                req'[s].on \notin won /\ \A b \in Actor : ~Awarding(b)
  <2>1. RequestSound(s)'
    BY <1>1, <1>4, <1>6 DEF Arrived, RequestSound
  <2> QED
    BY <1>1, <1>2, <1>3, <1>4, <1>6, <2>1, MoveKeeps DEF Arrived, Typed, TypeOK
<1> QED
  BY <1>1, <1>5, <1>6 DEF Arrived

LEMMA GetTyped ==
  ASSUME Typed, NEW a \in Actor, GetRecord(a)
  PROVE  Typed'
<1>1. /\ Moved(a) /\ UNCHANGED <<room, rec, active, reg, link, todo, won, out>>
      /\ req[a].pc = "get"
      /\ \/ /\ rec[req[a].on].in /\ Stands(a, "set", req[a].kind)
            /\ req'[a].copy = Change(req[a].kind, rec[req[a].on])
         \/ ~rec[req[a].on].in /\ AfterRecord(a)
      /\ req[a].kind # "admin"
      /\ req[a].kind = "award" => rec[req[a].on].points # 1
  BY GetIs
<1>2. /\ req[a].kind \in Kind /\ req[a].on \in Socket /\ rec[req[a].on] \in Record
      /\ req \in [Actor -> Request] /\ RequestSound(a)
  BY DEF Typed, TypeOK, Shaped, Request
<1>3. RequestSound(a)' /\ (req'[a].kind = "award" => Awarding(a))
  <2>1. CASE /\ rec[req[a].on].in /\ Stands(a, "set", req[a].kind)
             /\ req'[a].copy = Change(req[a].kind, rec[req[a].on])
    <3>1. /\ req'[a].copy.in
          /\ req[a].kind # "award" => req'[a].copy.points = rec[req[a].on].points
      BY <1>1, <1>2, <2>1, ChangeIs
    <3>2. rec[req[a].on].points = 1 => req[a].on \in won
      BY <1>2 DEF Typed, Shaped
    <3> QED
      BY <1>1, <1>2, <2>1, <3>1, <3>2 DEF RequestSound, Stands, Awarding, Touching
  <2>2. CASE AfterRecord(a)
    <3>1. \/ req[a].kind = "kick" /\ Stands(a, "get", "ban")
          \/ req[a].kind # "kick" /\ Stands(a, "touch", req[a].kind)
      BY <1>2, <2>2, AfterRecordIs
    <3> QED
      BY <1>1, <1>2, <3>1 DEF RequestSound, Stands, Awarding, Touching
  <2> QED
    BY <1>1, <2>1, <2>2
<1> QED
  BY <1>1, <1>3, MoveKeeps DEF Typed, TypeOK

LEMMA ActTyped ==
  ASSUME Typed, NEW a \in Actor, SetActive(a)
  PROVE  Typed'
<1>1. /\ Moved(a) /\ UNCHANGED <<room, rec, reg, link, todo, won, out>>
      /\ req[a].pc = "act" /\ AfterRecord(a)
      /\ active' = IF req[a].kind \in {"join", "heartbeat", "reconnect"}
                   THEN active \cup {req[a].on} ELSE active \ {req[a].on}
  BY ActIs
<1>2. req \in [Actor -> Request] /\ RequestSound(a) /\ req[a].on \in Socket
  BY DEF Typed, TypeOK, Shaped, Request
<1>3. \/ req[a].kind = "kick" /\ Stands(a, "get", "ban")
      \/ req[a].kind # "kick" /\ Stands(a, "touch", req[a].kind)
  BY <1>1, <1>2, AfterRecordIs
<1>4. RequestSound(a)' /\ (req'[a].kind = "award" => Awarding(a))
  BY <1>1, <1>2, <1>3 DEF RequestSound, Stands, Awarding, Touching
<1>5. active' \subseteq Socket
  BY <1>1, <1>2 DEF Typed, TypeOK
<1> QED
  BY <1>1, <1>4, <1>5, MoveKeeps DEF Typed, TypeOK

LEMMA LateTyped ==
  ASSUME Typed, NEW a \in Actor, Late(a)
  PROVE  Typed'
<1>1. /\ Moved(a) /\ UNCHANGED <<rec, active, todo, won, out>>
      /\ room' = room \/ room' = "broken"
      /\ req[a].pc \in {"touch", "remove", "close", "unregister"}
      /\ \/ req'[a] = Idle
         \/ /\ \E pc \in {"remove", "close", "unregister"} : Stands(a, pc, req[a].kind)
            /\ req'[a].pc = "remove" => req[a].pc = "touch"
  BY LateIs
<1>2. RequestSound(a)' /\ (req'[a].pc # "idle" /\ req'[a].kind = "award" => Awarding(a))
  <2>1. RequestSound(a)
    BY DEF Typed, Shaped
  <2>2. CASE req'[a] = Idle
    BY <2>2, IdleRequest DEF RequestSound, Touching
  <2>3. ASSUME NEW pc \in {"remove", "close", "unregister"}, Stands(a, pc, req[a].kind),
               req'[a].pc = "remove" => req[a].pc = "touch"
        PROVE  RequestSound(a)' /\ (req'[a].kind = "award" => Awarding(a))
    BY <1>1, <2>1, <2>3 DEF RequestSound, Stands, Awarding, Touching
  <2> QED
    BY <1>1, <2>2, <2>3
<1> DEFINE Links == [Socket -> Link]
<1>3. reg' \in [Socket -> Socket \cup {Nobody}]
  BY DEF Late, Touch, Remove, Close, Unregister, Typed, TypeOK
<1>4. link' \in Links
  <2>1. link \in Links
    BY DEF Typed, TypeOK
  <2>2. ASSUME NEW q \in Socket, link' = [link EXCEPT ![q].st = "gone"]
                               \/ link' = [link EXCEPT ![q].shut = TRUE]
        PROVE  link' \in Links
    BY <2>1, <2>2 DEF Link
  <2>3. Close(a) => link' = link \/ \E q \in Socket : link' = [link EXCEPT ![q].shut = TRUE]
    <3>1. req[a].on \in Socket
      BY DEF Typed, TypeOK
    <3>2. reg[req[a].on] = Nobody \/ reg[req[a].on] \in Socket
      BY <3>1 DEF Typed, TypeOK
    <3> QED
      BY <3>2 DEF Close
  <2>4. Remove(a) /\ a \in Socket => \E q \in Socket : link' = [link EXCEPT ![q].st = "gone"]
    BY DEF Remove
  <2> QED
    BY <2>1, <2>2, <2>3, <2>4 DEF Late, Touch, Unregister
<1> QED
  BY <1>1, <1>2, <1>3, <1>4, MoveKeeps DEF Typed, TypeOK

\* The steps that write a record.
LEMMA AddTyped ==
  ASSUME Typed, NEW a \in Actor, Add(a)
  PROVE  Typed'
<1>1. /\ Moved(a) /\ UNCHANGED <<room, active, reg, link, todo, won, out>>
      /\ req[a].pc = "add" /\ Stands(a, "act", req[a].kind)
      /\ rec' = [rec EXCEPT ![req[a].on] = NewPlayer]
  BY AddIs
<1>2. rec \in [Socket -> Record] /\ req[a].on \in Socket
  BY DEF Typed, TypeOK
<1>3. /\ rec' \in [Socket -> Record]
      /\ \A p \in Socket : rec'[p].points = 1 => rec[p].points = 1
  BY <1>1, <1>2, Records
<1>4. TypeOK'
  BY <1>1, <1>3 DEF Typed, TypeOK, Moved, Request
<1>5. ASSUME NEW b \in Actor PROVE RequestSound(b)' /\ (Awarding(b)' => Awarding(b))
  <2>1. RequestSound(b)
    BY DEF Typed, Shaped
  <2>2. CASE b = a
    BY <1>1, <2>1, <2>2 DEF RequestSound, Stands, Awarding, Touching
  <2>3. CASE b # a
    BY <1>1, <2>1, <2>3 DEF RequestSound, Awarding, Moved
  <2> QED
    BY <2>2, <2>3
<1>6. Shaped'
  BY <1>1, <1>3, <1>5 DEF Typed, Shaped
<1> QED
  BY <1>4, <1>6 DEF Typed

LEMMA SetTyped ==
  ASSUME Typed, NEW a \in Actor, SetRecord(a)
  PROVE  Typed'
<1>1. /\ Moved(a) /\ UNCHANGED <<room, active, reg, link, todo>> /\ req[a].pc = "set"
      /\ rec' = [rec EXCEPT ![req[a].on] = req[a].copy]
      /\ won' = IF req[a].kind = "award" THEN won \cup {req[a].on} ELSE won
      /\ out' = IF req[a].kind = "ban" THEN out \cup {req[a].on} ELSE out
      /\ Stands(a, "act", req[a].kind) \/ Stands(a, "touch", req[a].kind)
  BY SetIs
<1>2. /\ rec \in [Socket -> Record] /\ req[a].on \in Socket /\ req[a].copy \in Record
      /\ RequestSound(a)
  BY DEF Typed, TypeOK, Shaped, Request
<1>3. /\ rec' \in [Socket -> Record] /\ won \subseteq won'
      /\ \A p \in Socket : rec'[p].points = 1 => p \in won'
  BY <1>1, <1>2 DEF RequestSound, Typed, Shaped
<1>4. TypeOK'
  BY <1>1, <1>2, <1>3 DEF Typed, TypeOK, Moved, Request
<1>5. ASSUME NEW b \in Actor PROVE RequestSound(b)' /\ (Awarding(b)' => Awarding(b))
  <2>1. RequestSound(b)
    BY DEF Typed, Shaped
  <2>2. CASE b = a
    BY <1>1, <2>1, <2>2 DEF RequestSound, Stands, Awarding, Touching
  <2>3. CASE b # a
    <3>1. req'[b] = req[b]
      BY <1>1, <2>3 DEF Moved
    <3>2. CASE req[a].kind = "award"
      <4>1. ~Awarding(b)
        BY <1>1, <2>3, <3>2 DEF Typed, Shaped, Awarding
      <4> QED
        BY <1>3, <2>1, <3>1, <4>1 DEF RequestSound, Awarding
    <3>3. CASE req[a].kind # "award"
      BY <1>1, <2>1, <3>1, <3>3 DEF RequestSound, Awarding
    <3> QED
      BY <3>2, <3>3
  <2> QED
    BY <2>2, <2>3
<1>6. Shaped'
  BY <1>3, <1>5 DEF Typed, Shaped
<1> QED
  BY <1>4, <1>6 DEF Typed

LEMMA CloseTyped ==
  ASSUME Typed, CloseRoom
  PROVE  Typed'
<1>1. /\ rec' \in [Socket -> Record] /\ \A p \in Socket : rec'[p].points # 1
      /\ todo' \subseteq Socket
  BY Records DEF CloseRoom
<1>2. TypeOK'
  BY <1>1 DEF CloseRoom, Typed, TypeOK
<1>3. Shaped'
  BY <1>1 DEF CloseRoom, Typed, Shaped, RequestSound, Awarding
<1> QED
  BY <1>2, <1>3 DEF Typed

LEMMA CloseNextTyped ==
  ASSUME Typed, NEW p \in Socket, CloseNext(p)
  PROVE  Typed'
<1>1. "close" \in Pc /\ "admin" \in Kind /\ Admin \in Actor
  BY Facts DEF Pc, Kind
<1>2. /\ Moved(Admin) /\ req'[Admin].pc = "close" /\ req'[Admin].kind = "admin"
  BY <1>1, Begins DEF CloseNext, Typed, TypeOK, Request
<1>3. RequestSound(Admin)'
  BY <1>2 DEF RequestSound, Touching
<1> QED
  BY <1>1, <1>2, <1>3, MoveKeeps DEF CloseNext, Typed, TypeOK

LEMMA ConnectTyped ==
  ASSUME Typed, NEW s \in Socket, Connect(s) \/ Hello(s)
  PROVE  Typed'
<1>1. TypeOK'
  <2>1. link \in [Socket -> Link]
    BY DEF Typed, TypeOK
  <2>2. \A st \in {"hello", "open", "lost"} : [link EXCEPT ![s].st = st] \in [Socket -> Link]
    BY <2>1 DEF Link
  <2>3. \E st \in {"hello", "open", "lost"} : link' = [link EXCEPT ![s].st = st]
    BY DEF Connect, Hello
  <2>4. link' \in [Socket -> Link] /\ reg' \in [Socket -> Socket \cup {Nobody}]
    BY <2>2, <2>3 DEF Connect, Hello, Typed, TypeOK
  <2> QED
    BY <2>4 DEF Connect, Hello, Typed, TypeOK
<1>2. Shaped'
  BY DEF Connect, Hello, Typed, Shaped, RequestSound, Awarding
<1> QED
  BY <1>1, <1>2 DEF Typed

LEMMA TypedInit == Init => Typed
<1> SUFFICES ASSUME Init PROVE Typed
  OBVIOUS
<1>1. TypeOK
  BY Facts, Records, IdleRequest DEF Init, TypeOK, Request, Link
<1>2. Shaped
  BY Records, IdleRequest DEF Init, Shaped, RequestSound, Awarding, Touching
<1> QED
  BY <1>1, <1>2 DEF Typed

LEMMA TypedStep == Typed /\ [Next]_vars => Typed'
<1> SUFFICES ASSUME Typed, [Next]_vars PROVE Typed'
  OBVIOUS
<1>1. CASE UNCHANGED vars
  <2>1. TypeOK'
    BY <1>1 DEF vars, Typed, TypeOK
  <2>2. Shaped'
    BY <1>1 DEF vars, Typed, Shaped, RequestSound, Awarding
  <2> QED
    BY <2>1, <2>2 DEF Typed
<1>2. ASSUME NEW s \in Socket, NEW p \in Socket, Beginning(s, p) PROVE Typed'
  BY <1>2, BeginTyped
<1>3. ASSUME NEW a \in Actor,
             GetRecord(a) \/ SetRecord(a) \/ SetActive(a) \/ Add(a) \/ Late(a)
      PROVE  Typed'
  BY <1>3, GetTyped, SetTyped, ActTyped, AddTyped, LateTyped
<1>4. CASE Next
  BY <1>2, <1>3, <1>4, Steps, ConnectTyped, CloseTyped, CloseNextTyped
<1> QED
  BY <1>1, <1>4

LEMMA AlwaysTyped == Spec => []Typed
  BY TypedInit, TypedStep, PTL DEF Spec

\* The records, connections and requests of a room keep their types: in particular
\* no player is ever given a second point, though every write of a record writes
\* back what was read of it.
THEOREM TypeCorrect == Spec => []TypeOK
  BY AlwaysTyped, PTL DEF Typed

-----------------------------------------------------------------------------
(***************************************************************************)
(* The registry: an entry is put there for a socket together with its pid, *)
(* and whoever closes a socket for good or gives it another pid takes its  *)
(* entry out, the only one it has; but a socket whose hello was not sent   *)
(* keeps the entry of the pid it was accepted with.                        *)
(***************************************************************************)
Entry(p, s) == Pid(s) = p /\ link[s].st \in {"hello", "open", "lost"}
Registered ==
  /\ \A p \in Socket : reg[p] # Nobody => Entry(p, reg[p])
  /\ \A s \in Socket : link[s].st \in {"new", "hello", "lost"} => Pid(s) = s

LEMMA RegistryStep == Typed /\ Registered /\ [Next]_vars => Registered'
<1> SUFFICES ASSUME Typed, Registered, [Next]_vars PROVE Registered'
  OBVIOUS
<1>1. /\ reg \in [Socket -> Socket \cup {Nobody}]
      /\ link \in [Socket -> Link]
      /\ Nobody \notin Socket /\ \A a \in Actor : req[a].on \in Socket
  BY Facts DEF Typed, TypeOK, Request
<1>2. CASE UNCHANGED <<reg, link>>
  BY <1>2 DEF Registered, Entry, Pid
<1>3. ASSUME NEW s \in Socket, Connect(s) \/ Hello(s) PROVE Registered'
  <2>1. CASE Connect(s)
    BY <1>1, <2>1 DEF Connect, Registered, Entry, Pid, Link
  <2>2. ASSUME NEW st \in {"open", "lost"}, link' = [link EXCEPT ![s].st = st],
               link[s].st = "hello", reg' = reg
        PROVE  Registered'
    BY <1>1, <2>2 DEF Registered, Entry, Pid, Link
  <2> QED
    BY <1>3, <2>1, <2>2 DEF Hello
<1>4. ASSUME NEW s \in Socket, NEW p \in Socket, Beginning(s, p) PROVE Registered'
  <2>1. CASE Reconnect(s, p)
    <3>1. /\ link' = [link EXCEPT ![s].pid = p] /\ Open(s)
          /\ reg' = IF p = Pid(s) THEN reg ELSE [reg EXCEPT ![Pid(s)] = Nobody, ![p] = s]
      BY <2>1 DEF Reconnect, Message, Receives
    <3>2. ASSUME NEW q \in Socket, reg'[q] # Nobody
          PROVE  Entry(q, reg[q])' /\ link'[reg'[q]].pid = q
      <4>1. CASE p = Pid(s)
        <5>1. reg' = reg /\ \A t \in Socket : link'[t].pid = link[t].pid /\ link'[t].st = link[t].st
          BY <1>1, <3>1, <4>1 DEF Pid, Link
        <5> QED
          BY <1>1, <3>2, <5>1 DEF Registered, Entry, Pid
      <4>2. CASE p # Pid(s) /\ q = p
        BY <1>1, <3>1, <4>2 DEF Open, Pid, Entry, Link
      <4>3. CASE p # Pid(s) /\ q # p
        <5>1. q # Pid(s) /\ reg'[q] = reg[q]
          BY <1>1, <3>1, <3>2, <4>3 DEF Pid
        <5>2. reg[q] # s /\ reg[q] \in Socket
          BY <1>1, <3>2, <5>1 DEF Registered, Entry
        <5> QED
          BY <1>1, <3>1, <3>2, <5>1, <5>2 DEF Registered, Entry, Pid, Link
      <4> QED
        BY <4>1, <4>2, <4>3
    <3>3. \A q \in Socket : link'[q].st \in {"new", "hello", "lost"} => Pid(q)' = q
      BY <1>1, <3>1 DEF Registered, Open, Pid, Link
    <3> QED
      BY <3>2, <3>3 DEF Registered
  <2>2. CASE ~Reconnect(s, p)
    <3>1. reg' = reg /\ link' = link
      BY <1>4, <2>2 DEF Beginning, Join, Heartbeat, Leave, Award, Moderate, Drop, Raise
    <3> QED
      BY <1>2, <3>1
  <2> QED
    BY <2>1, <2>2
<1>5. ASSUME NEW a \in Actor, Late(a) PROVE Registered'
  <2>1. CASE Touch(a)
    BY <1>2, <2>1 DEF Touch
  <2>2. CASE a \in Socket /\ Remove(a)
    <3>1. /\ reg' = [reg EXCEPT ![Pid(a)] = Nobody]
          /\ link' = [link EXCEPT ![a].st = "gone"]
      BY <2>2 DEF Remove
    <3>2. ASSUME NEW q \in Socket, reg'[q] # Nobody
          PROVE  reg'[q] = reg[q] /\ reg[q] \in Socket /\ reg[q] # a
      BY <1>1, <2>2, <3>1, <3>2 DEF Registered, Entry, Pid
    <3>3. ASSUME NEW q \in Socket
          PROVE  /\ link'[q].pid = link[q].pid
                 /\ link'[q].st = IF q = a THEN "gone" ELSE link[q].st
      BY <1>1, <2>2, <3>1 DEF Link
    <3> QED
      BY <1>1, <2>2, <3>2, <3>3 DEF Registered, Entry, Pid
  <2>3. CASE Close(a)
    <3>1. \/ UNCHANGED <<reg, link>>
          \/ \E q \in Socket : reg' = reg /\ link' = [link EXCEPT ![q].shut = TRUE]
      BY <1>1, <2>3 DEF Close
    <3>2. ASSUME NEW q \in Socket, link' = [link EXCEPT ![q].shut = TRUE], NEW s \in Socket
          PROVE  link'[s].pid = link[s].pid /\ link'[s].st = link[s].st
      BY <1>1, <3>2 DEF Link
    <3> QED
      BY <1>1, <1>2, <3>1, <3>2 DEF Registered, Entry, Pid
  <2>4. CASE Unregister(a)
    BY <1>1, <2>4 DEF Unregister, Registered, Entry, Pid
  <2> QED
    BY <1>5, <2>1, <2>2, <2>3, <2>4 DEF Late
<1>6. ASSUME NEW a \in Actor, GetRecord(a) \/ SetRecord(a) \/ SetActive(a) \/ Add(a)
      PROVE  Registered'
  BY <1>2, <1>6 DEF GetRecord, SetRecord, SetActive, Add
<1>7. CASE CloseRoom \/ (\E p \in Socket : CloseNext(p)) \/ UNCHANGED vars
  BY <1>2, <1>7 DEF CloseRoom, CloseNext, vars
<1> QED
  BY <1>3, <1>4, <1>5, <1>6, <1>7, Steps

\* Whatever connects, reconnects, kicks and closings overlap, WSManager names no
\* socket for a pid it does not answer for, and a dead one only where the hello
\* failed before the try clause that would have taken the entry out.
THEOREM RegistryAlwaysTrue == Spec => []RegistryTrue
<1>1. Init => Registered
  BY Facts DEF Init, Registered, Entry, Pid
<1>2. Typed /\ Registered => RegistryTrue
  <2> SUFFICES ASSUME Typed, Registered, NEW p \in Socket, reg[p] # Nobody
               PROVE  /\ Pid(reg[p]) = p
                      /\ link[reg[p]].st \in {"hello", "open"}
                           \/ (link[reg[p]].st = "lost" /\ reg[p] = p)
    BY DEF RegistryTrue
  <2>1. reg[p] \in Socket /\ Entry(p, reg[p])
    BY DEF Typed, TypeOK, Registered
  <2> QED
    BY <2>1 DEF Entry, Registered
<1> QED
  BY <1>1, <1>2, AlwaysTyped, RegistryStep, PTL DEF Spec

-----------------------------------------------------------------------------
(***************************************************************************)
(* Requests that overlap no others.  The administrator may go on closing   *)
(* the sockets of a room that is gone beside them.                         *)
(***************************************************************************)
At(a) == req[a].pc # "idle"
Alone(K) ==
  \A a, b \in Actor : a # b /\ At(a) /\ At(b) /\ req[a].kind \in K => b = Admin

\* The kind of a request changes only from a kick to its ban.
LEMMA KindKept ==
  ASSUME Typed, NEW a \in Actor,
         GetRecord(a) \/ SetRecord(a) \/ SetActive(a) \/ Add(a) \/ Late(a)
  PROVE  /\ Moved(a) /\ At(a)
         /\ \/ ~At(a)'
            \/ req'[a].kind = req[a].kind
            \/ req[a].kind = "kick" /\ req'[a].kind = "ban"
<1>1. req \in [Actor -> Request]
  BY DEF Typed, TypeOK, Request
<1>2. CASE GetRecord(a)
  BY <1>1, <1>2, GetIs, AfterRecordIs DEF At, Stands
<1>3. CASE SetRecord(a)
  BY <1>3, SetIs DEF At, Stands
<1>4. CASE SetActive(a)
  BY <1>1, <1>4, ActIs, AfterRecordIs DEF At, Stands
<1>5. CASE Add(a)
  BY <1>5, AddIs DEF At, Stands
<1>6. CASE Late(a)
  BY <1>6, LateIs, IdleRequest DEF At, Stands
<1> QED
  BY <1>2, <1>3, <1>4, <1>5, <1>6

LEMMA AloneStep ==
  ASSUME NEW K, Overlapping \cap K = {}, "admin" \notin K, "ban" \in K <=> "kick" \in K,
         Typed, Alone(K), [Next]_vars
  PROVE  Alone(K)'
<1>1. CASE UNCHANGED req
  BY <1>1 DEF Alone, At
<1>2. ASSUME NEW s \in Socket, NEW p \in Socket, Beginning(s, p) PROVE Alone(K)'
  <2>1. Arrived(s)
    BY <1>2, Arrivals DEF Typed
  <2>2. CASE Moved(s) /\ May(req'[s].kind)
    <3>1. \/ \A b \in Actor : ~At(b)
          \/ /\ req'[s].kind \notin K
             /\ \A b \in Actor : At(b) => req[b].kind \notin K
      BY <2>2 DEF May, Busy, At
    <3> QED
      BY <2>2, <3>1 DEF Alone, At, Moved
  <2> QED
    BY <1>1, <2>1, <2>2 DEF Arrived
<1>3. ASSUME NEW a \in Actor,
             GetRecord(a) \/ SetRecord(a) \/ SetActive(a) \/ Add(a) \/ Late(a)
      PROVE  Alone(K)'
  <2>1. \A b \in Actor : /\ At(b)' => At(b)
                         /\ At(b)' /\ req'[b].kind \in K => req[b].kind \in K
    BY <1>3, KindKept DEF Moved, At
  <2> QED
    BY <2>1 DEF Alone
<1>4. ASSUME NEW p \in Socket, CloseNext(p) PROVE Alone(K)'
  <2>1. Moved(Admin) /\ req'[Admin].kind = "admin"
    BY <1>4, Begins, Facts DEF CloseNext, Typed, TypeOK, Request, Pc, Kind
  <2> QED
    BY <2>1 DEF Alone, At, Moved
<1>5. ASSUME NEW s \in Socket, Connect(s) \/ Hello(s) PROVE Alone(K)'
  BY <1>1, <1>5 DEF Connect, Hello
<1> QED
  BY <1>1, <1>2, <1>3, <1>4, <1>5, Steps DEF CloseRoom, vars

LEMMA AloneInit == ASSUME NEW K, Init PROVE Alone(K)
  BY IdleRequest DEF Init, Alone, At

\* A request that writes a record finds no other at work when it is alone.
LEMMA AloneAtWork ==
  ASSUME NEW K, Typed, Alone(K), NEW a \in Actor, req[a].kind \in K, At(a),
         NEW b \in Actor, b # a
  PROVE  req[b].pc \in {"idle", "close", "unregister"}
  BY DEF Alone, At, Typed, Shaped, RequestSound

-----------------------------------------------------------------------------
(***************************************************************************)
(* Kicks that overlap no other request.                                    *)
(***************************************************************************)
Kicks == {"kick", "ban"}

\* Out for good: nothing of the player is active while the room is there.
OutSound(p) ==
  p \in out =>
    /\ p \notin active
    /\ rec[p].in => rec[p].kicked /\ ~rec[p].connected
    /\ room = "open" => rec[p].in

\* What is written back of a player who is out says so, and what a kick has
\* found or done is still so at its next step.
KickSound(a) ==
  LET r == req[a] IN
  /\ r.pc = "add" => r.on \notin out /\ r.kind = "join"
  /\ r.on \in out /\ r.pc \in Touching
       => r.kind \in {"drop", "warn", "award", "kick", "ban"}
  /\ r.on \in out /\ r.pc = "set" => r.copy.kicked /\ ~r.copy.connected
  /\ r.kind = "kick" =>
       /\ r.pc = "set" => ~r.copy.connected
       /\ r.pc = "act" /\ rec[r.on].in => ~rec[r.on].connected
  /\ r.kind = "ban" =>
       /\ r.pc = "get" /\ rec[r.on].in
            => r.on \notin active /\ ~rec[r.on].connected
       /\ r.pc = "set" => r.on \notin active /\ r.copy.kicked /\ ~r.copy.connected

KickedOut ==
  /\ Alone(Kicks)
  /\ \A p \in Socket : OutSound(p)
  /\ \A a \in Actor : KickSound(a)

\* A step of a request under way leaves what the others rely on.
LEMMA KickOthers ==
  ASSUME Typed, KickedOut, NEW a \in Actor, At(a), Moved(a), NEW b \in Actor \ {a},
         out' = out \/ req[a].kind = "ban",
         req[a].pc \in {"add"} \cup Touching \/ UNCHANGED <<rec, active>>
  PROVE  KickSound(b)'
<1>1. req'[b] = req[b] /\ KickSound(b)
  BY DEF Moved, KickedOut
<1>2. CASE req[a].kind \in Kicks
  <2>1. req[b].pc \in {"idle", "close", "unregister"}
    BY <1>2, AloneAtWork DEF KickedOut
  <2> QED
    BY <1>1, <2>1 DEF KickSound, Touching
<1>3. CASE req[a].kind \notin Kicks /\ req[b].kind \in Kicks
  <2>1. CASE ~At(b)
    BY <1>1, <2>1 DEF At, KickSound, Touching
  <2>2. CASE At(b)
    <3>1. req[a].pc \notin {"add"} \cup Touching
      BY <1>3, <2>2 DEF KickedOut, Alone, Typed, Shaped, RequestSound, Touching
    <3> QED
      BY <1>1, <1>3, <3>1 DEF KickSound, Kicks
  <2> QED
    BY <2>1, <2>2
<1>4. CASE req[a].kind \notin Kicks /\ req[b].kind \notin Kicks
  BY <1>1, <1>4 DEF KickSound, Kicks
<1> QED
  BY <1>2, <1>3, <1>4

LEMMA KickBegin ==
  ASSUME Typed, KickedOut, NEW s \in Socket, NEW p \in Socket, Beginning(s, p)
  PROVE  \A q \in Socket : OutSound(q)' /\ \A a \in Actor : KickSound(a)'
<1>1. Arrived(s)
  BY Arrivals DEF Typed
<1>2. \A q \in Socket : OutSound(q)'
  BY <1>1 DEF Arrived, KickedOut, OutSound
<1>3. UNCHANGED <<room, rec, active, out>>
  BY <1>1 DEF Arrived
<1>4. CASE req' = req
  BY <1>2, <1>3, <1>4 DEF KickedOut, KickSound
<1>5. CASE /\ Moved(s) /\ req'[s].pc \in {"add", "get", "remove"}
           /\ req'[s].kind \in Kind \ {"ban", "admin"} /\ req'[s].on \in Socket
           /\ req'[s].pc = "add" =>
             req'[s].kind = "join" /\ room = "open" /\ ~rec[req'[s].on].in
           /\ req'[s].pc = "get" => room = "open"
           /\ req'[s].pc = "get" /\ rec[req'[s].on].in /\ rec[req'[s].on].kicked
                => req'[s].kind \in {"drop", "kick", "warn", "award"}
  <2>1. OutSound(req'[s].on)
    BY <1>5 DEF KickedOut
  <2>2. KickSound(s)'
    BY <1>3, <1>5, <2>1 DEF KickSound, OutSound, Touching
  <2>3. \A b \in Actor \ {s} : KickSound(b)'
    BY <1>3, <1>5 DEF KickedOut, KickSound, Moved
  <2> QED
    BY <1>2, <2>2, <2>3
<1> QED
  BY <1>1, <1>4, <1>5, Facts DEF Arrived, Moved, Request

LEMMA KickGet ==
  ASSUME Typed, KickedOut, NEW a \in Actor, GetRecord(a)
  PROVE  KickSound(a)' /\ \A q \in Socket : OutSound(q)'
<1>1. /\ Moved(a) /\ UNCHANGED <<room, rec, active, reg, link, todo, won, out>>
      /\ req[a].pc = "get"
      /\ \/ /\ rec[req[a].on].in /\ Stands(a, "set", req[a].kind)
            /\ req'[a].copy = Change(req[a].kind, rec[req[a].on])
         \/ ~rec[req[a].on].in /\ AfterRecord(a)
      /\ req[a].kind # "admin"
      /\ req[a].kind = "award" => rec[req[a].on].points # 1
  BY GetIs
<1>2. /\ req[a].kind \in Kind /\ req[a].on \in Socket /\ rec[req[a].on] \in Record
      /\ req \in [Actor -> Request]
  BY DEF Typed, TypeOK, Request
<1>3. KickSound(a) /\ OutSound(req[a].on)
  BY <1>2 DEF KickedOut
<1>4. CASE /\ rec[req[a].on].in /\ Stands(a, "set", req[a].kind)
           /\ req'[a].copy = Change(req[a].kind, rec[req[a].on])
  <2> DEFINE c == req'[a].copy
             r == rec[req[a].on]
  <2>1. /\ req[a].kind = "ban" \/ r.kicked => c.kicked
        /\ ~c.connected <=> \/ req[a].kind \in {"leave", "drop", "kick"}
                            \/ req[a].kind \in {"ban", "warn", "award"} /\ ~r.connected
    BY <1>1, <1>2, <1>4, ChangeIs
  <2>2. req'[a].kind = req[a].kind /\ req'[a].on = req[a].on /\ req'[a].pc = "set"
    BY <1>4 DEF Stands
  <2> HIDE DEF c
  <2>3. req[a].on \in out => c.kicked /\ ~c.connected
    BY <1>1, <1>3, <1>4, <2>1 DEF KickSound, OutSound, Touching
  <2>4. KickSound(a)'
    BY <1>1, <1>3, <1>4, <2>1, <2>2, <2>3 DEF KickSound, Touching, c
  <2> QED
    BY <1>1, <2>4 DEF KickedOut, OutSound
<1>5. CASE ~rec[req[a].on].in /\ AfterRecord(a)
  <2>1. \/ req[a].kind = "kick" /\ Stands(a, "get", "ban")
        \/ req[a].kind # "kick" /\ Stands(a, "touch", req[a].kind)
    BY <1>2, <1>5, AfterRecordIs
  <2> QED
    BY <1>1, <1>3, <1>5, <2>1 DEF KickSound, KickedOut, OutSound, Stands, Touching
<1> QED
  BY <1>1, <1>4, <1>5

LEMMA KickSet ==
  ASSUME Typed, KickedOut, NEW a \in Actor, SetRecord(a)
  PROVE  KickSound(a)' /\ \A q \in Socket : OutSound(q)'
<1>1. /\ Moved(a) /\ UNCHANGED <<room, active, reg, link, todo>> /\ req[a].pc = "set"
      /\ rec' = [rec EXCEPT ![req[a].on] = req[a].copy]
      /\ out' = IF req[a].kind = "ban" THEN out \cup {req[a].on} ELSE out
      /\ \/ KeepsActive(req[a].kind) /\ Stands(a, "act", req[a].kind)
         \/ ~KeepsActive(req[a].kind) /\ Stands(a, "touch", req[a].kind)
  BY SetIs
<1>2. /\ req[a].on \in Socket /\ rec \in [Socket -> Record] /\ req[a].copy.in
  BY <1>1 DEF Typed, TypeOK, Shaped, RequestSound, Request
<1>3. KickSound(a) /\ \A q \in Socket : OutSound(q)
  BY DEF KickedOut
<1>4. rec'[req[a].on] = req[a].copy /\ \A q \in Socket \ {req[a].on} : rec'[q] = rec[q]
  BY <1>1, <1>2
<1>5. KickSound(a)'
  BY <1>1, <1>2, <1>3, <1>4 DEF KickSound, Stands, Touching, KeepsActive
<1>6. ASSUME NEW q \in Socket PROVE OutSound(q)'
  <2>1. CASE q # req[a].on
    BY <1>1, <1>3, <1>4, <2>1 DEF OutSound
  <2>2. CASE q = req[a].on
    BY <1>1, <1>2, <1>3, <1>4, <2>2 DEF OutSound, KickSound, Touching
  <2> QED
    BY <2>1, <2>2
<1> QED
  BY <1>5, <1>6

LEMMA KickAct ==
  ASSUME Typed, KickedOut, NEW a \in Actor, SetActive(a)
  PROVE  KickSound(a)' /\ \A q \in Socket : OutSound(q)'
<1>1. /\ Moved(a) /\ UNCHANGED <<room, rec, reg, link, todo, won, out>>
      /\ req[a].pc = "act" /\ AfterRecord(a)
      /\ active' = IF req[a].kind \in {"join", "heartbeat", "reconnect"}
                   THEN active \cup {req[a].on} ELSE active \ {req[a].on}
  BY ActIs
<1>2. req \in [Actor -> Request]
  BY DEF Typed, TypeOK, Request
<1>3. \/ req[a].kind = "kick" /\ Stands(a, "get", "ban")
      \/ req[a].kind # "kick" /\ Stands(a, "touch", req[a].kind)
  BY <1>1, <1>2, AfterRecordIs
<1>4. KickSound(a) /\ \A q \in Socket : OutSound(q)
  BY DEF KickedOut
<1>5. KickSound(a)'
  BY <1>1, <1>3, <1>4 DEF KickSound, Stands, Touching
<1>6. \A q \in Socket : OutSound(q)'
  BY <1>1, <1>4 DEF KickSound, OutSound, Touching
<1> QED
  BY <1>5, <1>6

LEMMA KickAdd ==
  ASSUME Typed, KickedOut, NEW a \in Actor, Add(a)
  PROVE  KickSound(a)' /\ \A q \in Socket : OutSound(q)'
<1>1. /\ Moved(a) /\ UNCHANGED <<room, active, reg, link, todo, won, out>>
      /\ req[a].pc = "add" /\ Stands(a, "act", req[a].kind)
      /\ rec' = [rec EXCEPT ![req[a].on] = NewPlayer]
  BY AddIs
<1>2. req[a].on \notin out /\ \A q \in Socket : OutSound(q)
  BY <1>1 DEF KickedOut, KickSound
<1>3. req[a].kind \notin Kicks
  BY <1>1 DEF KickedOut, KickSound, Kicks
<1>4. KickSound(a)'
  BY <1>1, <1>2, <1>3 DEF KickSound, Stands, Touching, Kicks
<1>5. \A q \in Socket : OutSound(q)'
  BY <1>1, <1>2 DEF OutSound, Typed, TypeOK
<1> QED
  BY <1>4, <1>5

LEMMA KickLate ==
  ASSUME Typed, KickedOut, NEW a \in Actor, Late(a)
  PROVE  KickSound(a)' /\ \A q \in Socket : OutSound(q)'
<1>1. /\ UNCHANGED <<rec, active, todo, won, out>>
      /\ room' = room \/ room' = "broken"
      /\ \/ req'[a] = Idle
         \/ \E pc \in {"remove", "close", "unregister"} : Stands(a, pc, req[a].kind)
  BY LateIs
<1>2. KickSound(a)'
  BY <1>1, IdleRequest DEF KickSound, Stands, Touching
<1>3. \A q \in Socket : OutSound(q)'
  BY <1>1 DEF KickedOut, OutSound
<1> QED
  BY <1>2, <1>3

LEMMA KickStep ==
  ASSUME Overlapping \cap Kicks = {}
  PROVE  Typed /\ KickedOut /\ [Next]_vars => KickedOut'
<1> SUFFICES ASSUME Typed, KickedOut, [Next]_vars PROVE KickedOut'
  OBVIOUS
<1>1. Alone(Kicks)'
  BY AloneStep DEF KickedOut, Kicks
<1> SUFFICES (\A q \in Socket : OutSound(q)') /\ (\A a \in Actor : KickSound(a)')
  BY <1>1 DEF KickedOut
<1>2. CASE UNCHANGED <<room, rec, active, req, out>>
  BY <1>2 DEF KickedOut, OutSound, KickSound
<1>3. ASSUME NEW a \in Actor,
             GetRecord(a) \/ SetRecord(a) \/ SetActive(a) \/ Add(a) \/ Late(a)
      PROVE  (\A q \in Socket : OutSound(q)') /\ (\A b \in Actor : KickSound(b)')
  <2>1. KickSound(a)' /\ \A q \in Socket : OutSound(q)'
    BY <1>3, KickGet, KickSet, KickAct, KickAdd, KickLate
  <2>2. Moved(a) /\ At(a)
    BY <1>3, KindKept
  <2>3. /\ out' = out \/ req[a].kind = "ban"
        /\ req[a].pc \in {"add"} \cup Touching \/ UNCHANGED <<rec, active>>
    BY <1>3, SetIs, LateIs, AddIs, GetIs, ActIs DEF Touching
  <2>4. \A b \in Actor \ {a} : KickSound(b)'
    BY <2>2, <2>3, KickOthers
  <2> QED
    BY <2>1, <2>4
<1>4. ASSUME CloseRoom
      PROVE  (\A q \in Socket : OutSound(q)') /\ (\A a \in Actor : KickSound(a)')
  <2>1. /\ \A q \in Socket : ~rec'[q].in
        /\ active' = {} /\ room' = "gone" /\ UNCHANGED <<req, out>>
        /\ \A a \in Actor : req[a].on \in Socket
    BY <1>4, Records DEF CloseRoom, Typed, TypeOK
  <2> QED
    BY <2>1 DEF KickedOut, OutSound, KickSound
<1>5. ASSUME NEW p \in Socket, CloseNext(p)
      PROVE  (\A q \in Socket : OutSound(q)') /\ (\A a \in Actor : KickSound(a)')
  <2>1. Moved(Admin) /\ req'[Admin].kind = "admin" /\ req'[Admin].pc = "close"
    BY <1>5, Begins, Facts DEF CloseNext, Typed, TypeOK, Request, Pc, Kind
  <2>2. UNCHANGED <<room, rec, active, out>>
    BY <1>5 DEF CloseNext
  <2> QED
    BY <2>1, <2>2 DEF KickedOut, OutSound, KickSound, Moved, Touching
<1> QED
  BY <1>2, <1>3, <1>4, <1>5, KickBegin, Steps DEF Connect, Hello, vars

\* Kicks that are handled while no other request is: whoever is kicked stays out
\* of the room, over whichever sockets and pids it comes back, and even though
\* its other requests, rewards and disconnects overlap one another.
THEOREM KicksHold ==
  ASSUME Overlapping \cap Kicks = {}
  PROVE  Spec => []KickedStayOut
<1>1. Init => KickedOut
  <2>1. Init => Alone(Kicks)
    BY AloneInit
  <2>2. Init => \A a \in Actor : KickSound(a)
    BY IdleRequest DEF Init, KickSound, Touching
  <2> QED
    BY <2>1, <2>2 DEF Init, KickedOut, OutSound
<1>2. Typed /\ KickedOut /\ [Next]_vars => KickedOut'
  BY KickStep
<1>3. Typed /\ KickedOut => KickedStayOut
  BY DEF KickedOut, OutSound, KickedStayOut, Typed, TypeOK
<1> QED
  BY <1>1, <1>2, <1>3, AlwaysTyped, PTL DEF Spec

-----------------------------------------------------------------------------
(***************************************************************************)
(* Awards that overlap no other request.                                   *)
(***************************************************************************)
PointSound(p) ==
  p \in won =>
    /\ rec[p].in => rec[p].points = 1
    /\ room = "open" => rec[p].in

\* Whoever writes a record of a player with a point has read it with the point.
WriteSound(a) ==
  LET r == req[a] IN
  /\ r.pc = "add" => r.on \notin won /\ r.kind # "award"
  /\ r.pc = "set" /\ (r.on \in won \/ r.kind = "award") => r.copy.points = 1

Pointed ==
  /\ Alone({"award"})
  /\ \A p \in Socket : PointSound(p)
  /\ \A a \in Actor : WriteSound(a)

LEMMA PointMoves ==
  ASSUME Typed, Pointed, NEW a \in Actor,
         GetRecord(a) \/ SetRecord(a) \/ SetActive(a) \/ Add(a) \/ Late(a)
  PROVE  \A b \in Actor : WriteSound(b)'
<1>1. Moved(a) /\ At(a) /\ WriteSound(a)
  BY KindKept DEF Pointed
<1>2. ASSUME NEW b \in Actor \ {a} PROVE WriteSound(b)'
  <2>1. req'[b] = req[b] /\ WriteSound(b)
    BY <1>1 DEF Moved, Pointed
  <2>2. CASE req[a].kind = "award"
    <3>1. req[b].pc \in {"idle", "close", "unregister"}
      BY <1>1, <2>2, AloneAtWork DEF Pointed
    <3> QED
      BY <2>1, <3>1 DEF WriteSound
  <2>3. CASE req[a].kind # "award"
    <3>1. won' = won
      BY <1>2, <2>3, GetIs, SetIs, ActIs, AddIs, LateIs
    <3> QED
      BY <2>1, <3>1 DEF WriteSound
  <2> QED
    BY <2>2, <2>3
<1>3. CASE GetRecord(a)
  <2>1. UNCHANGED won /\ req[a].kind \in Kind \ {"admin"} /\ rec[req[a].on] \in Record
        /\ (req[a].kind = "award" => rec[req[a].on].points # 1)
    BY <1>3, GetIs DEF Typed, TypeOK
  <2>2. CASE /\ rec[req[a].on].in /\ Stands(a, "set", req[a].kind)
             /\ req'[a].copy = Change(req[a].kind, rec[req[a].on])
    <3>1. req'[a].copy.points
            = IF req[a].kind = "award" THEN 1 ELSE rec[req[a].on].points
      BY <2>1, <2>2, ChangeIs
    <3>2. PointSound(req[a].on)
      BY DEF Pointed, Typed, TypeOK
    <3> QED
      BY <1>2, <2>1, <2>2, <3>1, <3>2 DEF WriteSound, PointSound, Stands
  <2>3. CASE AfterRecord(a)
    <3>1. Stands(a, "get", "ban") \/ Stands(a, "touch", req[a].kind)
      BY <2>3, AfterRecordIs DEF Typed, TypeOK, Request
    <3> QED
      BY <1>2, <3>1 DEF WriteSound, Stands
  <2> QED
    BY <1>3, <2>2, <2>3, GetIs
<1>4. CASE SetRecord(a)
  <2>1. Stands(a, "act", req[a].kind) \/ Stands(a, "touch", req[a].kind)
    BY <1>4, SetIs
  <2> QED
    BY <1>2, <2>1 DEF WriteSound, Stands
<1>5. CASE SetActive(a)
  <2>1. Stands(a, "get", "ban") \/ Stands(a, "touch", req[a].kind)
    BY <1>5, ActIs, AfterRecordIs DEF Typed, TypeOK, Request
  <2> QED
    BY <1>2, <2>1 DEF WriteSound, Stands
<1>6. CASE Add(a)
  <2>1. Stands(a, "act", req[a].kind)
    BY <1>6, AddIs
  <2> QED
    BY <1>2, <2>1 DEF WriteSound, Stands
<1>7. CASE Late(a)
  <2>1. \/ req'[a] = Idle
        \/ \E pc \in {"remove", "close", "unregister"} : Stands(a, pc, req[a].kind)
    BY <1>7, LateIs
  <2>2. WriteSound(a)'
    BY <2>1, IdleRequest DEF WriteSound, Stands
  <2> QED
    BY <1>2, <2>2
<1> QED
  BY <1>3, <1>4, <1>5, <1>6, <1>7

LEMMA PointRecords ==
  ASSUME Typed, Pointed, NEW a \in Actor,
         GetRecord(a) \/ SetRecord(a) \/ SetActive(a) \/ Add(a) \/ Late(a),
         NEW p \in Socket
  PROVE  PointSound(p)'
<1>1. PointSound(p) /\ WriteSound(a) /\ rec \in [Socket -> Record]
  BY DEF Pointed, Typed, TypeOK
<1>2. CASE GetRecord(a) \/ SetActive(a) \/ Late(a)
  <2>1. UNCHANGED <<rec, won>> /\ (room' = room \/ room' = "broken")
    BY <1>2, GetIs, ActIs, LateIs
  <2> QED
    BY <1>1, <2>1 DEF PointSound
<1>3. CASE SetRecord(a)
  <2>1. /\ req[a].pc = "set" /\ UNCHANGED room
        /\ rec' = [rec EXCEPT ![req[a].on] = req[a].copy]
        /\ won' = IF req[a].kind = "award" THEN won \cup {req[a].on} ELSE won
    BY <1>3, SetIs
  <2>2. req[a].copy.in
    BY <2>1 DEF Typed, Shaped, RequestSound
  <2> QED
    BY <1>1, <2>1, <2>2 DEF PointSound, WriteSound
<1>4. CASE Add(a)
  <2>1. /\ req[a].pc = "add" /\ UNCHANGED <<room, won>>
        /\ rec' = [rec EXCEPT ![req[a].on] = NewPlayer]
    BY <1>4, AddIs
  <2> QED
    BY <1>1, <2>1 DEF PointSound, WriteSound
<1> QED
  BY <1>2, <1>3, <1>4

LEMMA PointStep ==
  ASSUME Overlapping \cap {"award"} = {}
  PROVE  Typed /\ Pointed /\ [Next]_vars => Pointed'
<1> SUFFICES ASSUME Typed, Pointed, [Next]_vars PROVE Pointed'
  OBVIOUS
<1>1. Alone({"award"})'
  BY AloneStep DEF Pointed
<1> SUFFICES (\A p \in Socket : PointSound(p)') /\ (\A a \in Actor : WriteSound(a)')
  BY <1>1 DEF Pointed
<1>2. CASE UNCHANGED <<room, rec, req, won>>
  BY <1>2 DEF Pointed, PointSound, WriteSound
<1>3. ASSUME NEW a \in Actor,
             GetRecord(a) \/ SetRecord(a) \/ SetActive(a) \/ Add(a) \/ Late(a)
      PROVE  (\A p \in Socket : PointSound(p)') /\ (\A b \in Actor : WriteSound(b)')
  BY <1>3, PointMoves, PointRecords
<1>4. ASSUME NEW s \in Socket, NEW p \in Socket, Beginning(s, p)
      PROVE  (\A q \in Socket : PointSound(q)') /\ (\A a \in Actor : WriteSound(a)')
  <2>1. Arrived(s) /\ UNCHANGED <<room, rec, won>>
    BY <1>4, Arrivals DEF Typed, Arrived
  <2>2. CASE req' = req
    BY <1>2, <2>1, <2>2
  <2>3. CASE /\ Moved(s) /\ req'[s].pc \in {"add", "get", "remove"}
             /\ req'[s].pc = "add" =>
                  req'[s].kind = "join" /\ room = "open" /\ ~rec[req'[s].on].in
    <3>1. req'[s].on \in Socket
      BY <2>3, Facts DEF Moved, Request
    <3>2. WriteSound(s)'
      BY <2>1, <2>3, <3>1 DEF WriteSound, Pointed, PointSound
    <3> QED
      BY <2>1, <2>3, <3>2 DEF Pointed, PointSound, WriteSound, Moved
  <2> QED
    BY <2>1, <2>2, <2>3 DEF Arrived
<1>5. ASSUME CloseRoom
      PROVE  (\A p \in Socket : PointSound(p)') /\ (\A a \in Actor : WriteSound(a)')
  <2>1. /\ \A q \in Socket : ~rec'[q].in
        /\ room' = "gone" /\ UNCHANGED <<req, won>>
    BY <1>5, Records DEF CloseRoom
  <2> QED
    BY <2>1 DEF Pointed, PointSound, WriteSound
<1>6. ASSUME NEW p \in Socket, CloseNext(p)
      PROVE  (\A q \in Socket : PointSound(q)') /\ (\A a \in Actor : WriteSound(a)')
  <2>1. Moved(Admin) /\ req'[Admin].pc = "close"
    BY <1>6, Begins, Facts DEF CloseNext, Typed, TypeOK, Request, Pc, Kind
  <2>2. UNCHANGED <<room, rec, won>>
    BY <1>6 DEF CloseNext
  <2> QED
    BY <2>1, <2>2 DEF Pointed, PointSound, WriteSound, Moved
<1> QED
  BY <1>2, <1>3, <1>4, <1>5, <1>6, Steps DEF Connect, Hello, vars

\* Points given while no other request is handled: no join, leave, reconnect,
\* disconnect, kick or warning of that player ever writes back a record without
\* them, in whatever order those overlap.
THEOREM PointsStay ==
  ASSUME Overlapping \cap {"award"} = {}
  PROVE  Spec => []PointsKept
<1>1. Init => Pointed
  <2>1. Init => Alone({"award"})
    BY AloneInit
  <2>2. Init => \A a \in Actor : WriteSound(a)
    BY IdleRequest DEF Init, WriteSound
  <2> QED
    BY <2>1, <2>2 DEF Init, Pointed, PointSound
<1>2. Typed /\ Pointed /\ [Next]_vars => Pointed'
  BY PointStep
<1>3. Typed /\ Pointed => PointsKept
  BY DEF Pointed, PointSound, PointsKept, Typed, TypeOK
<1> QED
  BY <1>1, <1>2, <1>3, AlwaysTyped, PTL DEF Spec
=============================================================================
