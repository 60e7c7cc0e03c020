------------------------- MODULE Reachability_proof -------------------------
(***************************************************************************)
(* What the server knows of an agent that can be reached.  RpcRouting, for *)
(* any methods, calls and connections, and any number of changes and       *)
(* failures: the rooms come to agree with the agent's handlers, and a call *)
(* fails only for a reason.  Presence, for any times and any number of     *)
(* heartbeats at once: an agent that is there is not swept for silent.     *)
(***************************************************************************)
EXTENDS RpcRouting, Presence, SequenceTheorems, FiniteSetTheorems, TLAPS

-----------------------------------------------------------------------------
(* Remote calls.                                                           *)

Message == [type : {"rpc-register", "rpc-unregister"}, method : Methods]

CallRecord ==
    [phase : {"none", "lookup", "looked", "racing", "done"},
     method : Methods \union {"none"}, found : SUBSET Conns,
     grace : BOOLEAN, late : BOOLEAN, target : Conns \union {NoConn}, misses : {0, 1},
     answer : {"none", "ok", "timeout", "disconnected", "not available"}, calm : BOOLEAN]

AgentTypes ==
    /\ handlers \subseteq Methods
    /\ socket \in Conns \union {NoConn}
    /\ link \in [Conns -> {"new", "up", "cut", "gone"}]
    /\ wire \in [Conns -> Seq(Message)]
    /\ rooms \in [Methods -> SUBSET Conns]

(* The last word on the wire about a method is the agent's; where there is *)
(* none, the room has it.  RegistrationsAgree says nothing while there is  *)
(* something on the wire, so it does not carry over a step by itself.      *)
LastWord ==
    socket # NoConn /\ link[socket] = "up" => \A m \in Methods :
        /\ (\A i \in 1 .. Len(wire[socket]) : wire[socket][i].method # m)
               => (m \in handlers <=> socket \in rooms[m])
        /\ \A i \in 1 .. Len(wire[socket]) :
               /\ wire[socket][i].method = m
               /\ \A j \in i + 1 .. Len(wire[socket]) : wire[socket][j].method # m
               => (wire[socket][i].type = "rpc-register" <=> m \in handlers)

(* A connection that was not made yet is in no room, and carried nothing.  *)
NewIsUnused ==
    \A c \in Conns : link[c] = "new" =>
        wire[c] = <<>> /\ \A m \in Methods : c \notin rooms[m]

AInv == AgentTypes /\ LastWord /\ NewIsUnused

(* A call that nothing stood in the way of so far: nothing does now, a     *)
(* lookup that came back late came back with somebody, and the end, if it  *)
(* has come, is an answer.                                                 *)
CallOK(x, lk, rm) ==
    /\ x \in CallRecord
    /\ x.phase # "none" => x.method \in Methods
    /\ x.phase = "racing" => x.target \in Conns
    /\ x.calm => /\ ~Bothered(x, lk, rm)
                 /\ x.phase = "looked" /\ x.late => x.found # {}
                 /\ x.phase = "done" => x.answer \in {"ok", "timeout"}

CInv == /\ DOMAIN call = Calls
        /\ \A k \in Calls : CallOK(call[k], link, rooms)

CallIsFunction == call = [k \in Calls |-> call[k]]

IInv == AInv /\ CInv /\ CallIsFunction

-----------------------------------------------------------------------------
(* The agent's registrations.                                              *)

LEMMA NoConnIsNone == NoConn \notin Conns
  BY ConnsAssumption DEF NoConn, Conns

(* onSocketConnect sends a registration for each handler, and no other.    *)
LEMMA RegistrationsFacts ==
  ASSUME NEW ms \in SUBSET Methods
  PROVE  /\ Registrations(ms) \in Seq(Message)
         /\ \A i \in 1 .. Len(Registrations(ms)) :
                /\ Registrations(ms)[i].type = "rpc-register"
                /\ Registrations(ms)[i].method \in ms
         /\ \A m \in ms : \E i \in 1 .. Len(Registrations(ms)) : Registrations(ms)[i].method = m
<1> DEFINE n == Cardinality(ms)
           f == SetToSeq(ms)
<1>1. IsFiniteSet(ms)
  BY MethodsAssumption, FS_Subset
<1>2. n \in Nat /\ ExistsBijection(1 .. n, ms)
  BY <1>1, FS_CardinalityType
<1>3. \E g \in [1 .. n -> ms] : IsInjective(g)
  BY <1>2 DEF ExistsBijection, Bijection, Injection, IsInjective
<1>4. f \in [1 .. n -> ms] /\ IsInjective(f)
  BY <1>3 DEF SetToSeq
<1>5. f \in Injection(1 .. n, ms)
  BY <1>4 DEF Injection, IsInjective
<1>6. IsFiniteSet(1 .. n) /\ Cardinality(1 .. n) = n
  BY <1>2, FS_Interval
<1>7. f \in Surjection(1 .. n, ms)
  BY <1>1, <1>5, <1>6, FS_Injection
<1>8. \A m \in ms : \E i \in 1 .. n : f[i] = m
  BY <1>7 DEF Surjection
<1>9. Registrations(ms) = [i \in 1 .. n |-> [type |-> "rpc-register", method |-> f[i]]]
  BY DEF Registrations
<1> HIDE DEF n, f
<1>10. \A i \in 1 .. n : [type |-> "rpc-register", method |-> f[i]] \in Message
  BY <1>4 DEF Message
<1>11. Registrations(ms) \in Seq(Message) /\ Len(Registrations(ms)) = n
  BY <1>2, <1>9, <1>10, IsASeq
<1>12. \A i \in 1 .. n : /\ Registrations(ms)[i].type = "rpc-register"
                         /\ Registrations(ms)[i].method = f[i] /\ f[i] \in ms
  BY <1>4, <1>9
<1> QED BY <1>8, <1>11, <1>12

(* A message is appended to the wire of the manager's socket, or dropped.  *)
LEMMA EmittedFacts ==
  ASSUME AgentTypes, NEW type \in {"rpc-register", "rpc-unregister"}, NEW m \in Methods
  PROVE  LET w == Emitted(type, m)
             e == [type |-> type, method |-> m]
         IN  /\ w \in [Conns -> Seq(Message)]
             /\ \A c \in Conns : link[c] # "up" \/ c # socket => w[c] = wire[c]
             /\ socket # NoConn /\ link[socket] = "up" =>
                    /\ Len(w[socket]) = Len(wire[socket]) + 1
                    /\ \A i \in 1 .. Len(wire[socket]) : w[socket][i] = wire[socket][i]
                    /\ w[socket][Len(wire[socket]) + 1] = e
<1> DEFINE e == [type |-> type, method |-> m]
<1>1. e \in Message /\ wire \in [Conns -> Seq(Message)]
  BY DEF Message, AgentTypes
<1> HIDE DEF e
<1>2. CASE socket # NoConn /\ link[socket] = "up"
  <2>1. socket \in Conns /\ Emitted(type, m) = [wire EXCEPT ![socket] = Append(wire[socket], e)]
    BY <1>2 DEF AgentTypes, Emitted, e
  <2>2. /\ Append(wire[socket], e) \in Seq(Message)
        /\ Len(Append(wire[socket], e)) = Len(wire[socket]) + 1
        /\ \A i \in 1 .. Len(wire[socket]) : Append(wire[socket], e)[i] = wire[socket][i]
        /\ Append(wire[socket], e)[Len(wire[socket]) + 1] = e
    BY <1>1, <2>1, AppendProperties
  <2> DEFINE w == Emitted(type, m)
             a == Append(wire[socket], e)
  <2>3. w = [wire EXCEPT ![socket] = a]
    BY <2>1
  <2> HIDE DEF w, a
  <2>4. w \in [Conns -> Seq(Message)] /\ w[socket] = a
        /\ \A c \in Conns \ {socket} : w[c] = wire[c]
    BY <1>1, <2>1, <2>2, <2>3 DEF a
  <2> QED BY <1>2, <2>2, <2>4 DEF e, w, a
<1>3. CASE ~(socket # NoConn /\ link[socket] = "up")
  <2>1. Emitted(type, m) = wire
    BY <1>3 DEF Emitted
  <2> QED BY <1>1, <1>3, <2>1
<1> QED BY <1>2, <1>3

(* What is said about a method is the agent's last word about it.          *)
LEMMA SaysKeeps ==
  ASSUME AInv, NEW type \in {"rpc-register", "rpc-unregister"}, NEW m \in Methods,
         wire' = Emitted(type, m), UNCHANGED <<socket, link, rooms>>,
         handlers' = IF type = "rpc-register" THEN handlers \union {m} ELSE handlers \ {m}
  PROVE  AInv'
<1> DEFINE e == [type |-> type, method |-> m]
<1>1. AgentTypes
  BY DEF AInv
<1>2. /\ wire' \in [Conns -> Seq(Message)]
      /\ \A c \in Conns : link[c] # "up" \/ c # socket => wire'[c] = wire[c]
      /\ socket # NoConn /\ link[socket] = "up" =>
             /\ Len(wire'[socket]) = Len(wire[socket]) + 1
             /\ \A i \in 1 .. Len(wire[socket]) : wire'[socket][i] = wire[socket][i]
             /\ wire'[socket][Len(wire[socket]) + 1] = e
  BY <1>1, EmittedFacts
<1>3. e.type = type /\ e.method = m
  OBVIOUS
<1> HIDE DEF e
<1>4. AgentTypes'
  BY <1>1, <1>2 DEF AgentTypes
<1>5. NewIsUnused'
  BY <1>2 DEF AInv, NewIsUnused
<1>6. LastWord'
  <2> SUFFICES ASSUME socket # NoConn, link[socket] = "up", NEW d \in Methods
               PROVE  /\ (\A i \in 1 .. Len(wire'[socket]) : wire'[socket][i].method # d)
                             => (d \in handlers' <=> socket \in rooms[d])
                      /\ \A i \in 1 .. Len(wire'[socket]) :
                             /\ wire'[socket][i].method = d
                             /\ \A j \in i + 1 .. Len(wire'[socket]) : wire'[socket][j].method # d
                             => (wire'[socket][i].type = "rpc-register" <=> d \in handlers')
    BY DEF LastWord
  <2> DEFINE w == wire[socket]
             v == wire'[socket]
  <2>1. Len(w) \in Nat /\ Len(v) = Len(w) + 1 /\ v[Len(w) + 1] = e
        /\ \A i \in 1 .. Len(w) : v[i] = w[i]
    BY <1>1, <1>2, LenProperties DEF AgentTypes
  <2>2. /\ (\A i \in 1 .. Len(w) : w[i].method # d) => (d \in handlers <=> socket \in rooms[d])
        /\ \A i \in 1 .. Len(w) :
               w[i].method = d /\ (\A j \in i + 1 .. Len(w) : w[j].method # d)
                   => (w[i].type = "rpc-register" <=> d \in handlers)
    BY DEF AInv, LastWord
  <2> HIDE DEF w, v
  <2>3. CASE d = m
    <3>1. ASSUME NEW i \in 1 .. Len(v), v[i].method = m,
                 \A j \in i + 1 .. Len(v) : v[j].method # m
          PROVE  v[i].type = "rpc-register" <=> m \in handlers'
      <4>1. i = Len(w) + 1
        BY <1>3, <2>1, <3>1
      <4> QED BY <1>3, <2>1, <4>1
    <3>2. Len(v) \in 1 .. Len(v) /\ v[Len(v)].method = m
      BY <1>3, <2>1
    <3> QED BY <2>3, <3>1, <3>2 DEF v
  <2>4. CASE d # m
    <3>1. d \in handlers' <=> d \in handlers
      BY <2>4
    <3>2. (\A i \in 1 .. Len(v) : v[i].method # d) => \A i \in 1 .. Len(w) : w[i].method # d
      BY <2>1
    <3>3. ASSUME NEW i \in 1 .. Len(v), v[i].method = d,
                 \A j \in i + 1 .. Len(v) : v[j].method # d
          PROVE  v[i].type = "rpc-register" <=> d \in handlers
      <4>1. i \in 1 .. Len(w) /\ v[i] = w[i]
        BY <1>3, <2>1, <2>4, <3>3
      <4>2. \A j \in i + 1 .. Len(w) : w[j].method # d
        BY <2>1, <3>3
      <4> QED BY <2>2, <3>3, <4>1, <4>2
    <3> QED BY <2>2, <3>1, <3>2, <3>3 DEF v
  <2> QED BY <2>3, <2>4
<1> QED BY <1>4, <1>5, <1>6 DEF AInv

LEMMA ConnectsKeepsAgent ==
  ASSUME AInv, NEW c \in Conns, Connects(c)
  PROVE  AInv'
<1> DEFINE R == Registrations(handlers)
<1>1. /\ AgentTypes /\ handlers \in SUBSET Methods /\ link[c] = "new"
      /\ socket' = c /\ link' = [link EXCEPT ![c] = "up"]
      /\ wire' = [wire EXCEPT ![c] = R]
      /\ UNCHANGED <<handlers, rooms>>
  BY DEF AInv, AgentTypes, Connects
<1>2. /\ R \in Seq(Message)
      /\ \A i \in 1 .. Len(R) : R[i].type = "rpc-register" /\ R[i].method \in handlers
      /\ \A m \in handlers : \E i \in 1 .. Len(R) : R[i].method = m
  BY <1>1, RegistrationsFacts
<1> HIDE DEF R
<1>3. wire'[c] = R /\ link'[c] = "up" /\ \A d \in Conns \ {c} : wire'[d] = wire[d] /\ link'[d] = link[d]
  BY <1>1 DEF AgentTypes
<1>4. AgentTypes'
  BY <1>1, <1>2 DEF AgentTypes
<1>5. NewIsUnused'
  BY <1>1, <1>3 DEF AInv, NewIsUnused
<1>6. \A m \in Methods : c \notin rooms[m]
  BY <1>1 DEF AInv, NewIsUnused
<1>7. LastWord'
  <2>1. ASSUME NEW m \in Methods, \A i \in 1 .. Len(R) : R[i].method # m
        PROVE  m \in handlers <=> c \in rooms[m]
    BY <1>2, <1>6, <2>1
  <2>2. ASSUME NEW m \in Methods, NEW i \in 1 .. Len(R), R[i].method = m
        PROVE  R[i].type = "rpc-register" <=> m \in handlers
    BY <1>2, <2>2
  <2> QED BY <1>1, <1>3, <2>1, <2>2 DEF LastWord
<1> QED BY <1>4, <1>5, <1>7 DEF AInv

LEMMA ServerReadsKeepsAgent ==
  ASSUME AInv, NEW c \in Conns, ServerReads(c)
  PROVE  AInv'
<1> DEFINE msg == wire[c][1]
<1>1. /\ AgentTypes /\ wire[c] \in Seq(Message) /\ wire[c] # <<>>
      /\ wire' = [wire EXCEPT ![c] = Tail(wire[c])]
      /\ UNCHANGED <<handlers, socket, link>>
  BY DEF AInv, AgentTypes, ServerReads
<1>2. /\ Len(wire[c]) \in Nat \ {0} /\ Head(wire[c]) = msg /\ msg \in Message
      /\ Tail(wire[c]) \in Seq(Message) /\ Len(Tail(wire[c])) = Len(wire[c]) - 1
      /\ \A i \in 1 .. Len(wire[c]) - 1 : Tail(wire[c])[i] = wire[c][i + 1]
  <2>1. Len(wire[c]) \in Nat \ {0}
    BY <1>1, EmptySeq
  <2>2. Head(wire[c]) \in Message /\ Head(wire[c]) = msg
    BY <1>1, <2>1, HeadTailProperties
  <2>3. /\ Tail(wire[c]) \in Seq(Message) /\ Len(Tail(wire[c])) = Len(wire[c]) - 1
        /\ \A i \in 1 .. Len(Tail(wire[c])) : Tail(wire[c])[i] = wire[c][i + 1]
    BY <1>1, HeadTailProperties
  <2> QED BY <2>1, <2>2, <2>3
<1>3. rooms' = [rooms EXCEPT ![msg.method] =
                   IF msg.type = "rpc-register" THEN rooms[msg.method] \union {c}
                                                ELSE rooms[msg.method] \ {c}]
  BY <1>2 DEF ServerReads
<1>4. msg.method \in Methods /\ msg.type \in {"rpc-register", "rpc-unregister"}
  BY <1>2 DEF Message
<1>5. /\ \A m \in Methods : \A d \in Conns : d # c \/ m # msg.method
             => (d \in rooms'[m] <=> d \in rooms[m])
      /\ c \in rooms'[msg.method] <=> msg.type = "rpc-register"
      /\ rooms' \in [Methods -> SUBSET Conns]
  <2> HIDE DEF msg
  <2> QED BY <1>1, <1>3, <1>4 DEF AgentTypes
<1>6. AgentTypes'
  BY <1>1, <1>2, <1>5 DEF AgentTypes
<1>7. NewIsUnused'
  BY <1>1, <1>5, <1>6 DEF AInv, NewIsUnused, AgentTypes
<1>8. LastWord'
  <2> SUFFICES ASSUME socket # NoConn, link[socket] = "up", NEW m \in Methods
               PROVE  /\ (\A i \in 1 .. Len(wire'[socket]) : wire'[socket][i].method # m)
                             => (m \in handlers <=> socket \in rooms'[m])
                      /\ \A i \in 1 .. Len(wire'[socket]) :
                             /\ wire'[socket][i].method = m
                             /\ \A j \in i + 1 .. Len(wire'[socket]) : wire'[socket][j].method # m
                             => (wire'[socket][i].type = "rpc-register" <=> m \in handlers)
    <3>1. handlers' = handlers /\ socket' = socket /\ link' = link
      BY <1>1
    <3> QED BY <3>1 DEF LastWord
  <2> DEFINE w == wire[socket]
             v == wire'[socket]
  <2>1. /\ (\A i \in 1 .. Len(w) : w[i].method # m) => (m \in handlers <=> socket \in rooms[m])
        /\ \A i \in 1 .. Len(w) :
               w[i].method = m /\ (\A j \in i + 1 .. Len(w) : w[j].method # m)
                   => (w[i].type = "rpc-register" <=> m \in handlers)
    BY DEF AInv, LastWord
  <2>2. socket \in Conns
    BY <1>1 DEF AgentTypes
  <2>3. CASE c # socket
    <3>1. v = w /\ (socket \in rooms'[m] <=> socket \in rooms[m])
      BY <1>1, <1>5, <2>2, <2>3 DEF AgentTypes
    <3> QED BY <2>1, <3>1
  <2>4. CASE c = socket
    <3>1. /\ Len(w) \in Nat \ {0} /\ Len(v) = Len(w) - 1 /\ w[1] = msg
          /\ \A i \in 1 .. Len(w) - 1 : v[i] = w[i + 1]
      BY <1>1, <1>2, <2>4 DEF AgentTypes
    <3> HIDE DEF w, v, msg
    <3>2. ASSUME \A i \in 1 .. Len(v) : v[i].method # m
          PROVE  m \in handlers <=> socket \in rooms'[m]
      <4>1. ASSUME NEW j \in 2 .. Len(w)  PROVE w[j].method # m
        <5>1. j - 1 \in 1 .. Len(v) /\ v[j - 1] = w[j]
          BY <3>1
        <5> QED BY <3>2, <5>1
      <4>2. CASE msg.method = m
        <5>1. 1 \in 1 .. Len(w) /\ \A j \in 1 + 1 .. Len(w) : w[j].method # m
          BY <3>1, <4>1
        <5> QED BY <1>5, <2>1, <2>4, <3>1, <4>2, <5>1
      <4>3. CASE msg.method # m
        <5>1. \A i \in 1 .. Len(w) : w[i].method # m
          BY <3>1, <4>1, <4>3
        <5> QED BY <1>5, <2>1, <2>2, <4>3, <5>1
      <4> QED BY <4>2, <4>3
    <3>3. ASSUME NEW i \in 1 .. Len(v), v[i].method = m,
                 \A j \in i + 1 .. Len(v) : v[j].method # m
          PROVE  v[i].type = "rpc-register" <=> m \in handlers
      <4>1. i + 1 \in 1 .. Len(w) /\ v[i] = w[i + 1]
        BY <3>1
      <4>2. ASSUME NEW j \in (i + 1) + 1 .. Len(w)  PROVE w[j].method # m
        <5>1. j - 1 \in i + 1 .. Len(v) /\ j - 1 \in 1 .. Len(w) - 1 /\ (j - 1) + 1 = j
          BY <3>1
        <5>2. v[j - 1] = w[j]
          BY <3>1, <5>1
        <5> QED BY <3>3, <5>1, <5>2
      <4> QED BY <2>1, <3>3, <4>1, <4>2
    <3> QED BY <3>2, <3>3 DEF v
  <2> QED BY <2>3, <2>4
<1> QED BY <1>6, <1>7, <1>8 DEF AInv

LEMMA BreaksKeepsAgent ==
  ASSUME AInv, NEW c \in Conns, Breaks(c)
  PROVE  AInv'
<1>1. /\ AgentTypes /\ link[c] = "up" /\ link' = [link EXCEPT ![c] = "cut"]
      /\ UNCHANGED <<handlers, socket, wire, rooms>>
  BY DEF AInv, Breaks, agentVars
<1>2. AgentTypes' /\ NewIsUnused'
  BY <1>1 DEF AInv, AgentTypes, NewIsUnused
<1>3. LastWord'
  BY <1>1 DEF AInv, AgentTypes, LastWord
<1> QED BY <1>2, <1>3 DEF AInv

LEMMA ServerNoticesKeepsAgent ==
  ASSUME AInv, NEW c \in Conns, ServerNotices(c)
  PROVE  AInv'
<1>1. /\ AgentTypes /\ link[c] = "cut" /\ link' = [link EXCEPT ![c] = "gone"]
      /\ wire' = [wire EXCEPT ![c] = <<>>] /\ rooms' = [m \in Methods |-> rooms[m] \ {c}]
      /\ UNCHANGED <<handlers, socket>>
  BY DEF AInv, ServerNotices
<1>2. AgentTypes' /\ NewIsUnused'
  BY <1>1, EmptySeq DEF AInv, AgentTypes, NewIsUnused
<1>3. LastWord'
  <2>1. ASSUME socket # NoConn, link'[socket] = "up"
        PROVE  /\ socket # c /\ link[socket] = "up" /\ wire'[socket] = wire[socket]
               /\ \A m \in Methods : socket \in rooms'[m] <=> socket \in rooms[m]
    BY <1>1, <2>1 DEF AgentTypes
  <2> QED BY <1>1, <2>1 DEF AInv, LastWord
<1> QED BY <1>2, <1>3 DEF AInv

LEMMA AgentKept ==
  ASSUME AInv, UNCHANGED <<agentVars, link, rooms>>
  PROVE  AInv'
  BY DEF AInv, AgentTypes, LastWord, NewIsUnused, agentVars

-----------------------------------------------------------------------------
(* The calls.                                                              *)

(* A step of one call.                                                     *)
LEMMA OneCallMoves ==
  ASSUME CInv, CallIsFunction, NEW k \in Calls, NEW STATE x, call' = [call EXCEPT ![k] = x],
         CallOK(x, link, rooms), UNCHANGED <<link, rooms>>
  PROVE  CInv' /\ CallIsFunction'
  BY DEF CInv, CallIsFunction

(* The connections and the rooms change, and the calls note it.            *)
LEMMA NotedKeeps ==
  ASSUME CInv, CallIsFunction, call' = Noted(link', rooms')
  PROVE  CInv' /\ CallIsFunction'
<1>1. ASSUME NEW k \in Calls  PROVE CallOK(call'[k], link', rooms')
  <2> DEFINE x == call[k]
             b == Bothered(x, link', rooms')
  <2>1. CallOK(x, link, rooms) /\ x \in CallRecord
    BY DEF CInv, CallOK
  <2>2. call'[k] = IF x.phase = "none" THEN x ELSE [x EXCEPT !.calm = x.calm /\ ~b]
    BY DEF Noted
  <2> HIDE DEF x
  <2>3. CASE x.phase = "none"
    BY <2>1, <2>2, <2>3 DEF CallOK, Bothered
  <2>4. CASE x.phase # "none"
    <3> DEFINE y == [x EXCEPT !.calm = x.calm /\ ~b]
    <3>1. b \in BOOLEAN
      BY DEF Bothered
    <3> HIDE DEF b
    <3>2. /\ y \in CallRecord /\ y.phase = x.phase /\ y.method = x.method /\ y.found = x.found
          /\ y.late = x.late /\ y.target = x.target /\ y.answer = x.answer
          /\ y.calm = (x.calm /\ ~b)
      BY <2>1, <3>1 DEF CallRecord
    <3> HIDE DEF y
    <3>3. Bothered(y, link', rooms') = b
      BY <3>2 DEF Bothered, b
    <3>4. CallOK(y, link', rooms')
      BY <2>1, <3>2, <3>3 DEF CallOK
    <3> QED BY <2>2, <2>4, <3>4 DEF y
  <2> QED BY <2>3, <2>4
<1>2. DOMAIN call' = Calls /\ CallIsFunction'
  BY DEF Noted, CallIsFunction
<1> QED BY <1>1, <1>2 DEF CInv

LEMMA NewCallFacts ==
  ASSUME NEW m \in Methods \union {"none"}
  PROVE  /\ NewCall(m) \in CallRecord /\ NewCall(m).phase = "lookup" /\ NewCall(m).method = m
         /\ NewCall(m).late = FALSE /\ NewCall(m).calm = TRUE /\ NewCall(m).answer = "none"
  BY DEF NewCall, CallRecord

LEMMA AnsweredFacts ==
  ASSUME NEW x \in CallRecord, x.method \in Methods,
         NEW answer \in {"ok", "timeout", "disconnected", "not available"},
         answer \in {"ok", "timeout"} \/ ~x.calm
  PROVE  \A lk, rm : CallOK(Answered(x, answer), lk, rm)
<1> DEFINE y == Answered(x, answer)
<1>1. y \in CallRecord /\ y.phase = "done" /\ y.answer = answer /\ y.calm = x.calm
      /\ y.method = x.method
  BY DEF Answered, CallRecord
<1> HIDE DEF y
<1>2. \A lk, rm : CallOK(y, lk, rm)
  BY <1>1 DEF CallOK, Bothered
<1> QED BY <1>2 DEF y

(* The call, with what CInv says of it.                                    *)
LEMMA CallFacts ==
  ASSUME IInv, NEW k \in Calls
  PROVE  /\ call[k] \in CallRecord /\ CallOK(call[k], link, rooms)
         /\ call[k].phase # "none" => call[k].method \in Methods /\ rooms[call[k].method] \in SUBSET Conns
         /\ call[k].phase = "racing" => call[k].target \in Conns
  BY DEF IInv, CInv, CallOK, AInv, AgentTypes

LEMMA RpcCallKeeps ==
  ASSUME IInv, NEW k \in Calls, NEW m \in Methods, RpcCall(k, m)
  PROVE  IInv'
<1>1. CallOK(NewCall(m), link, rooms)
  BY NewCallFacts DEF CallOK, Bothered
<1> DEFINE x == NewCall(m)
<1>2. CallOK(x, link, rooms) /\ call' = [call EXCEPT ![k] = x] /\ UNCHANGED <<agentVars, link, rooms>>
  BY <1>1 DEF RpcCall
<1> HIDE DEF x
<1> QED BY <1>2, OneCallMoves, AgentKept DEF IInv

LEMMA LooksKeeps ==
  ASSUME IInv, NEW k \in Calls, Looks(k)
  PROVE  IInv'
<1> DEFINE x == call[k]
<1>1. /\ x \in CallRecord /\ CallOK(x, link, rooms)
      /\ x.phase # "none" => x.method \in Methods /\ rooms[x.method] \in SUBSET Conns
      /\ x.phase = "racing" => x.target \in Conns
  BY CallFacts
<1>2. CInv /\ CallIsFunction /\ AInv
  BY DEF IInv
<1>3. UNCHANGED <<agentVars, link, rooms>>
  BY DEF Looks, LookupReads, LookupFails, GraceEnds, LookupFinds, LookupFindsNobody
<1>4. ASSUME NEW y, CallOK(y, link, rooms), call' = [call EXCEPT ![k] = y]
      PROVE  IInv'
  BY <1>2, <1>3, <1>4, OneCallMoves, AgentKept DEF IInv
<1>5. CASE LookupReads(k)
  <2> DEFINE y == [[x EXCEPT !.phase = "looked"] EXCEPT !.found = rooms[x.method]]
  <2>1. x.phase = "lookup" /\ call' = [call EXCEPT ![k] = y]
    BY <1>2, <1>5 DEF LookupReads, CInv
  <2> HIDE DEF x
  <2>2. /\ y \in CallRecord /\ y.phase = "looked" /\ y.method = x.method /\ y.found = rooms[x.method]
        /\ y.late = x.late /\ y.calm = x.calm
    BY <1>1, <2>1 DEF CallRecord
  <2> HIDE DEF y
  <2>3. CallOK(y, link, rooms)
    BY <1>1, <2>1, <2>2 DEF CallOK, Bothered
  <2> QED BY <1>4, <2>1, <2>3
<1>6. CASE LookupFails(k)
  <2> DEFINE y == [[[x EXCEPT !.phase = "looked"] EXCEPT !.found = {}] EXCEPT !.calm = x.calm /\ ~x.late]
  <2>1. x.phase = "lookup" /\ call' = [call EXCEPT ![k] = y]
    BY <1>2, <1>6 DEF LookupFails, CInv
  <2> HIDE DEF x
  <2>2. /\ y \in CallRecord /\ y.phase = "looked" /\ y.method = x.method
        /\ y.late = x.late /\ y.calm = (x.calm /\ ~x.late)
    BY <1>1, <2>1 DEF CallRecord
  <2> HIDE DEF y
  <2>3. CallOK(y, link, rooms)
    BY <1>1, <2>1, <2>2 DEF CallOK, Bothered, CallRecord
  <2> QED BY <1>4, <2>1, <2>3
<1>7. CASE GraceEnds(k)
  <2> DEFINE calm == /\ x.calm /\ rooms[x.method] # {}
                     /\ x.phase = "looked" => x.found # {}
             y == [[x EXCEPT !.late = TRUE] EXCEPT !.calm = calm]
  <2>1. x.phase \in {"lookup", "looked"} /\ call' = [call EXCEPT ![k] = y]
    BY <1>2, <1>7 DEF GraceEnds, CInv
  <2>2. calm \in BOOLEAN
    BY <1>1 DEF CallRecord
  <2> HIDE DEF x
  <2>3. calm => x.calm /\ rooms[x.method] # {} /\ (x.phase = "looked" => x.found # {})
    OBVIOUS
  <2> HIDE DEF calm
  <2>4. /\ y \in CallRecord /\ y.phase = x.phase /\ y.method = x.method /\ y.found = x.found
        /\ y.calm = calm
    BY <1>1, <2>1, <2>2 DEF CallRecord
  <2> HIDE DEF y
  <2>5. CallOK(y, link, rooms)
    BY <1>1, <2>1, <2>3, <2>4 DEF CallOK, Bothered, CallRecord
  <2> QED BY <1>4, <2>1, <2>5
<1>8. CASE LookupFinds(k)
  <2>1. x.phase = "looked"
    BY <1>8 DEF LookupFinds
  <2>2. PICK c \in x.found :
            LET z == [NewCall(x.method) EXCEPT !.phase = "racing", !.target = c, !.calm = x.calm]
            IN  call' = [call EXCEPT ![k] = [z EXCEPT !.calm = @ /\ ~Bothered(z, link, rooms)]]
    BY <1>8 DEF LookupFinds
  <2>3. c \in Conns /\ x.method \in Methods /\ x.calm \in BOOLEAN
    BY <1>1, <2>1 DEF CallRecord
  <2> HIDE DEF x
  <2> DEFINE n == NewCall(x.method)
             z == [[[n EXCEPT !.phase = "racing"] EXCEPT !.target = c] EXCEPT !.calm = x.calm]
             b == Bothered(z, link, rooms)
             y == [z EXCEPT !.calm = z.calm /\ ~b]
  <2>4. call' = [call EXCEPT ![k] = y]
    BY <2>2
  <2>5. n \in CallRecord /\ n.method = x.method
    BY <2>3, NewCallFacts
  <2> HIDE DEF n
  <2>6. z \in CallRecord /\ z.method = x.method /\ z.phase = "racing" /\ z.target = c
    BY <2>3, <2>5 DEF CallRecord
  <2>7. b \in BOOLEAN
    BY DEF Bothered
  <2> HIDE DEF z, b
  <2>8. /\ y \in CallRecord /\ y.method = x.method /\ y.phase = "racing" /\ y.target = c
        /\ y.calm => ~b
    BY <2>6, <2>7 DEF CallRecord
  <2> HIDE DEF y
  <2>9. Bothered(y, link, rooms) = b
    BY <2>6, <2>8 DEF Bothered, b
  <2>10. CallOK(y, link, rooms)
    BY <2>3, <2>8, <2>9 DEF CallOK
  <2> QED BY <1>4, <2>4, <2>10
<1>9. CASE LookupFindsNobody(k)
  <2>1. /\ x.phase = "looked" /\ x.found = {}
        /\ call' = [call EXCEPT ![k] = IF x.late THEN Answered(x, "not available")
                          ELSE [[x EXCEPT !.phase = "lookup"] EXCEPT !.grace = TRUE]]
    BY <1>2, <1>9 DEF LookupFindsNobody, GivesUp, CInv
  <2> HIDE DEF x
  <2>2. CASE x.late
    <3>1. ~x.calm
      BY <1>1, <2>1, <2>2 DEF CallOK
    <3> DEFINE y == Answered(x, "not available")
    <3>2. CallOK(y, link, rooms)
      BY <1>1, <2>1, <3>1, AnsweredFacts
    <3>3. call' = [call EXCEPT ![k] = y]
      BY <2>1, <2>2
    <3> HIDE DEF y
    <3> QED BY <1>4, <3>2, <3>3
  <2>3. CASE ~x.late
    <3> DEFINE y == [[x EXCEPT !.phase = "lookup"] EXCEPT !.grace = TRUE]
    <3>1. y \in CallRecord /\ y.phase = "lookup" /\ y.method = x.method /\ y.late = x.late
      BY <1>1 DEF CallRecord
    <3>2. call' = [call EXCEPT ![k] = y]
      BY <2>1, <2>3
    <3> HIDE DEF y
    <3>3. CallOK(y, link, rooms)
      BY <1>1, <2>1, <2>3, <3>1 DEF CallOK, Bothered, CallRecord
    <3> QED BY <1>4, <3>2, <3>3
  <2> QED BY <2>2, <2>3
<1> QED BY <1>5, <1>6, <1>7, <1>8, <1>9 DEF Looks

(* One more look at the target without seeing it.                          *)
LEMMA MissedFacts ==
  ASSUME IInv, NEW x \in CallRecord, x.phase = "racing", CallOK(x, link, rooms),
         x.misses # 0 => ~x.calm
  PROVE  CallOK(Missed(x), link, rooms)
<1>1. CASE x.misses = 0
  <2> DEFINE y == [x EXCEPT !.misses = 1]
  <2>1. /\ y \in CallRecord /\ y.phase = x.phase /\ y.method = x.method /\ y.target = x.target
        /\ y.calm = x.calm
    BY DEF CallRecord
  <2>2. Missed(x) = y
    BY <1>1 DEF Missed
  <2> HIDE DEF y
  <2>3. CallOK(y, link, rooms)
    BY <2>1 DEF CallOK, Bothered
  <2> QED BY <2>2, <2>3
<1>2. CASE x.misses # 0
  <2>1. Missed(x) = Answered(x, "disconnected") /\ x.method \in Methods /\ ~x.calm
    BY <1>2 DEF Missed, CallOK
  <2> QED BY <2>1, AnsweredFacts
<1> QED BY <1>1, <1>2

LEMMA RacesKeeps ==
  ASSUME IInv, NEW k \in Calls, Races(k)
  PROVE  IInv'
<1> DEFINE x == call[k]
<1>1. /\ x \in CallRecord /\ CallOK(x, link, rooms) /\ x.phase = "racing"
      /\ x.method \in Methods /\ rooms[x.method] \in SUBSET Conns /\ x.target \in Conns
  BY CallFacts DEF Races, AckArrives, AckTimesOut, PresencePoll, PresencePollFails, Racing
<1>2. CInv /\ CallIsFunction /\ AInv /\ DOMAIN call = Calls
  BY DEF IInv, CInv
<1>3. UNCHANGED <<agentVars, link, rooms>>
  BY DEF Races, AckArrives, AckTimesOut, PresencePoll, PresencePollFails
<1>4. ASSUME NEW y, CallOK(y, link, rooms), call' = [call EXCEPT ![k] = y]
      PROVE  IInv'
  BY <1>2, <1>3, <1>4, OneCallMoves, AgentKept DEF IInv
<1>5. CASE AckArrives(k) \/ AckTimesOut(k)
  <2>1. PICK answer \in {"ok", "timeout"} : call' = [call EXCEPT ![k] = Answered(x, answer)]
    <3>1. AckArrives(k) => call' = [call EXCEPT ![k] = Answered(x, "ok")]
      BY <1>2 DEF AckArrives
    <3>2. AckTimesOut(k) => call' = [call EXCEPT ![k] = Answered(x, "timeout")]
      BY <1>2 DEF AckTimesOut
    <3> QED BY <1>5, <3>1, <3>2
  <2> DEFINE y == Answered(x, answer)
  <2>2. CallOK(y, link, rooms)
    BY <1>1, AnsweredFacts
  <2>3. call' = [call EXCEPT ![k] = y]
    BY <2>1
  <2> HIDE DEF y
  <2> QED BY <1>4, <2>2, <2>3
<1>6. CASE PresencePoll(k)
  <2>1. call' = [call EXCEPT ![k] = IF x.target \in rooms[x.method] THEN [x EXCEPT !.misses = 0]
                                    ELSE Missed(x)]
    BY <1>2, <1>6 DEF PresencePoll
  <2> HIDE DEF x
  <2>2. CASE x.target \in rooms[x.method]
    <3> DEFINE y == [x EXCEPT !.misses = 0]
    <3>1. /\ y \in CallRecord /\ y.phase = x.phase /\ y.method = x.method /\ y.target = x.target
          /\ y.calm = x.calm
      BY <1>1 DEF CallRecord
    <3>2. call' = [call EXCEPT ![k] = y]
      BY <2>1, <2>2
    <3> HIDE DEF y
    <3>3. CallOK(y, link, rooms)
      BY <1>1, <3>1 DEF CallOK, Bothered
    <3> QED BY <1>4, <3>2, <3>3
  <2>3. CASE x.target \notin rooms[x.method]
    <3> DEFINE y == Missed(x)
    <3>1. ~x.calm
      BY <1>1, <2>3 DEF CallOK, Bothered
    <3>2. CallOK(y, link, rooms)
      BY <1>1, <3>1, MissedFacts
    <3>3. call' = [call EXCEPT ![k] = y]
      BY <2>1, <2>3
    <3> HIDE DEF y
    <3> QED BY <1>4, <3>2, <3>3
  <2> QED BY <2>2, <2>3
<1>7. CASE PresencePollFails(k)
  <2> DEFINE z == [x EXCEPT !.calm = x.calm /\ x.misses = 0]
             y == Missed(z)
  <2>1. call' = [call EXCEPT ![k] = y]
    BY <1>2, <1>7 DEF PresencePollFails
  <2> HIDE DEF x
  <2>2. /\ z \in CallRecord /\ z.phase = "racing" /\ z.method = x.method /\ z.target = x.target
        /\ z.misses = x.misses /\ z.calm = (x.calm /\ x.misses = 0)
    BY <1>1 DEF CallRecord
  <2> HIDE DEF z
  <2>3. CallOK(z, link, rooms)
    BY <1>1, <2>2 DEF CallOK, Bothered, CallRecord
  <2>4. CallOK(y, link, rooms)
    BY <2>2, <2>3, MissedFacts
  <2> HIDE DEF y
  <2> QED BY <1>4, <2>1, <2>4
<1> QED BY <1>5, <1>6, <1>7 DEF Races

-----------------------------------------------------------------------------
(* The invariant.                                                          *)

LEMMA InitIInv == Init => IInv
<1> SUFFICES ASSUME Init  PROVE IInv
  OBVIOUS
<1>1. /\ handlers \subseteq Methods /\ socket = NoConn
      /\ link = [c \in Conns |-> "new"] /\ wire = [c \in Conns |-> <<>>]
      /\ rooms = [m \in Methods |-> {}]
      /\ call = [k \in Calls |-> [NewCall("none") EXCEPT !.phase = "none"]]
  BY DEF Init
<1>2. AInv
  BY <1>1, EmptySeq DEF AInv, AgentTypes, LastWord, NewIsUnused
<1> DEFINE x == [NewCall("none") EXCEPT !.phase = "none"]
<1>3. x \in CallRecord /\ x.phase = "none"
  BY DEF NewCall, CallRecord
<1>4. call = [k \in Calls |-> x]
  BY <1>1
<1> HIDE DEF x
<1>5. CallOK(x, link, rooms)
  BY <1>3 DEF CallOK, Bothered
<1>6. CInv /\ CallIsFunction
  BY <1>4, <1>5 DEF CInv, CallIsFunction
<1> QED BY <1>2, <1>6 DEF IInv

(* The calls as they were, with connections that broke nowhere.            *)
LEMMA CallsKept ==
  ASSUME CInv, CallIsFunction, UNCHANGED <<call, rooms>>, AgentTypes,
         \A c \in Conns : link[c] = "up" => link'[c] = "up"
  PROVE  CInv' /\ CallIsFunction'
<1>1. ASSUME NEW k \in Calls  PROVE CallOK(call[k], link', rooms)
  BY DEF CInv, CallOK, Bothered
<1> QED BY <1>1 DEF CInv, CallIsFunction

LEMMA StepIInv == IInv /\ [Next]_vars => IInv'
<1> SUFFICES ASSUME IInv, [Next]_vars  PROVE IInv'
  OBVIOUS
<1>1. AInv /\ CInv /\ CallIsFunction /\ AgentTypes
  BY DEF IInv, AInv
<1>2. ASSUME NEW m \in Methods, RegisterHandler(m) \/ UnregisterHandler(m)  PROVE IInv'
  <2>1. PICK type \in {"rpc-register", "rpc-unregister"} :
            /\ wire' = Emitted(type, m)
            /\ handlers' = IF type = "rpc-register" THEN handlers \union {m} ELSE handlers \ {m}
    BY <1>2 DEF RegisterHandler, UnregisterHandler
  <2>2. UNCHANGED <<socket, link, rooms, call>>
    BY <1>2 DEF RegisterHandler, UnregisterHandler
  <2> QED BY <1>1, <2>1, <2>2, SaysKeeps, CallsKept DEF IInv
<1>3. ASSUME AgentNotices  PROVE IInv'
  <2>1. socket' = NoConn /\ UNCHANGED <<handlers, link, wire, rooms, call>>
    BY <1>3 DEF AgentNotices
  <2>2. AInv'
    BY <1>1, <2>1 DEF AInv, AgentTypes, LastWord, NewIsUnused
  <2> QED BY <1>1, <2>1, <2>2, CallsKept DEF IInv
<1>4. ASSUME NEW c \in Conns, Connects(c)  PROVE IInv'
  <2>1. link[c] = "new" /\ link' = [link EXCEPT ![c] = "up"] /\ UNCHANGED <<call, rooms>>
    BY <1>4 DEF Connects
  <2>2. \A d \in Conns : link[d] = "up" => link'[d] = "up"
    BY <1>1, <2>1 DEF AgentTypes
  <2> QED BY <1>1, <1>4, <2>1, <2>2, ConnectsKeepsAgent, CallsKept DEF IInv
<1>5. ASSUME NEW c \in Conns, Breaks(c)  PROVE IInv'
  <2>1. call' = Noted(link', rooms')
    BY <1>5 DEF Breaks, Noted, Bothered
  <2> QED BY <1>1, <1>5, <2>1, BreaksKeepsAgent, NotedKeeps DEF IInv
<1>6. ASSUME NEW c \in Conns, ServerNotices(c)  PROVE IInv'
  BY <1>1, <1>6, ServerNoticesKeepsAgent, NotedKeeps DEF IInv, ServerNotices
<1>7. ASSUME NEW c \in Conns, ServerReads(c)  PROVE IInv'
  <2>1. call' = Noted(link', rooms')
    BY <1>7 DEF ServerReads, Noted, Bothered
  <2> QED BY <1>1, <1>7, <2>1, ServerReadsKeepsAgent, NotedKeeps DEF IInv
<1>8. ASSUME NEW k \in Calls, RpcRequest(k) \/ HandlerReturns(k)  PROVE IInv'
  <2>1. UNCHANGED <<agentVars, link, rooms, call>>
    BY <1>8 DEF RpcRequest, HandlerReturns
  <2> QED BY <1>1, <2>1, AgentKept, CallsKept DEF IInv
<1>9. ASSUME UNCHANGED vars  PROVE IInv'
  <2>1. UNCHANGED <<agentVars, link, rooms, call>>
    BY <1>9 DEF vars
  <2> QED BY <1>1, <2>1, AgentKept, CallsKept DEF IInv
<1> QED BY <1>2, <1>3, <1>4, <1>5, <1>6, <1>7, <1>8, <1>9, RpcCallKeeps, LooksKeeps, RacesKeeps
        DEF Next, Agent, Network

LEMMA AlwaysIInv == Spec => []IInv
<1> QED BY InitIInv, StepIInv, PTL DEF Spec

(* While the agent is connected and the server has handled all it sent,    *)
(* the agent is in the rooms of exactly the methods it has handlers for:   *)
(* registerHandler, unregisterHandler and onSocketConnect with the         *)
(* server's rpc-register, rpc-unregister and disconnect.                   *)
THEOREM RoomsAgree == Spec => []RegistrationsAgree
<1>1. IInv => RegistrationsAgree
  BY EmptySeq DEF IInv, AInv, LastWord, RegistrationsAgree
<1> QED BY <1>1, AlwaysIInv, PTL

(* A call that nothing stood in the way of, in the room when its grace     *)
(* period ended and on the connection it was handed to, is answered by the *)
(* agent or by its timeout: waitForRoomMember and the presence poll of     *)
(* rpc-call give up nobody who is there.                                   *)
THEOREM FailsForAReason == Spec => []CalmCallsAreAnswered
<1>1. IInv => CalmCallsAreAnswered
  BY DEF IInv, CInv, CallOK, CalmCallsAreAnswered
<1> QED BY <1>1, AlwaysIInv, PTL

-----------------------------------------------------------------------------
(* Presence.                                                               *)

Ages == 0 .. MaxDelay + 1
Entry == [present : BOOLEAN, age : 0 .. TTL, sent : 0 .. SentMost,
          pending : Ages \union {None}, active : BOOLEAN]
Heard == [phase : {"none", "asking", "read"}, t : 0 .. MaxDelay,
          sent : 0 .. SentMost, active : BOOLEAN]

(* Only what came after the batch timer waits for the next one.            *)
PendingIsRecent == flushed /\ cache.pending # None => cache.pending <= MaxDelay

(* What a handler has read, and what an entry says was written, is nearly  *)
(* true of the row: two writes of one tick may change places.  An entry can*)
(* be wrong after a failed write, but then it ages with the streak.        *)
Near(age, sent) == sent = SentMost \/ age <= sent + MaxDelay + 1

ReadIsNear == \A h \in Handlers : alive[h].phase = "read" => Near(db.age, alive[h].sent)
SentIsNear == cache.present => \/ Near(db.age, cache.sent) \/ writes # {}
                               \/ cache.sent >= streak

(* From a streak of Long ticks on every heartbeat that has been dealt with *)
(* leaves the row Fresh, or an update of it under way.  An entry that      *)
(* expires before the batch timer can lose that update, once: the next one *)
(* is in a new entry.                                                      *)
Long == Threshold + MaxDelay + 1
Fresh == Threshold + 2 * MaxDelay + 1
Busy == \E h \in Handlers : alive[h].phase # "none"
Waiting == cache.pending # None

BeatLeavesUpdate ==
    streak >= Long /\ beat /\ ~Busy =>
        db.age <= Fresh \/ writes # {} \/ (Waiting /\ Valid)

UpdateIsSafe ==
    streak >= Long + 1 =>
        \/ Busy \/ (~Valid /\ ~beat)
        \/ db.age <= Fresh + 1 \/ writes # {}
        \/ Waiting /\ Valid /\ (~flushed \/ cache.age + 1 < TTL)

UpdateComes ==
    streak >= Long + 2 =>
        \/ db.age <= Fresh + 2 \/ writes # {}
        \/ Waiting /\ Valid /\ ~flushed /\ ~Busy

RowIsFresh == streak >= Long + 3 => db.age <= Fresh + 3

PresenceInv ==
    /\ PresenceTypeOK /\ PendingIsRecent /\ ReadIsNear /\ SentIsNear
    /\ BeatLeavesUpdate /\ UpdateIsSafe /\ UpdateComes /\ RowIsFresh

Staleness == /\ PendingIsRecent /\ ReadIsNear /\ SentIsNear
             /\ BeatLeavesUpdate /\ UpdateIsSafe /\ UpdateComes /\ RowIsFresh

LEMMA Times ==
  /\ TTL \in Nat /\ Threshold \in Nat /\ Timeout \in Nat /\ MaxDelay \in Nat
  /\ MaxUpsets \in Nat /\ TTL >= 2
  /\ SentMost = Threshold + MaxDelay + 1 /\ Long = SentMost /\ Patience = Long + 3
  /\ SentMost \in Nat /\ Long \in Nat /\ Fresh \in Nat /\ Patience \in Nat
  /\ Fresh = Long + MaxDelay /\ Fresh + 3 < Timeout
  /\ None = -1
BY TimesAssumption DEF SentMost, Long, Fresh, Patience, None

LEMMA CapFacts ==
  ASSUME NEW n \in Nat, NEW most \in Nat
  PROVE  /\ Cap(n, most) \in 0 .. most /\ Cap(n, most) <= n
         /\ Cap(n, most) = n \/ (Cap(n, most) = most /\ n > most)
BY DEF Cap

LEMMA CapGrows ==
  ASSUME NEW n \in Nat, NEW most \in Nat
  PROVE  /\ Cap(n + 1, most) \in 0 .. most /\ Cap(n + 1, most) <= n + 1
         /\ Cap(n + 1, most) = n + 1 \/ Cap(n + 1, most) = most
BY DEF Cap

(* A heartbeat leaves an update waiting, or the entry says that there was  *)
(* one lately.                                                             *)
LEMMA QueuedFacts ==
  ASSUME NEW e \in Entry, NEW t \in 0 .. MaxDelay
  PROVE  /\ Queued(e, t) \in Entry
         /\ Queued(e, t).present = e.present /\ Queued(e, t).age = e.age
         /\ Queued(e, t).sent = e.sent
         /\ Queued(e, t).pending = e.pending \/ Queued(e, t).pending = t
         /\ e.pending # None => Queued(e, t).pending # None
         /\ Queued(e, t).pending # None \/ e.sent <= Threshold + MaxDelay
<1>1. t \in Ages /\ t # None /\ t \in Nat /\ t <= MaxDelay
  BY Times DEF Ages
<1>2. e.sent \in Nat
  BY Times DEF Entry
<1>3. CASE Apart(e.sent, t) > Threshold \/ (kind = "machine" /\ ~e.active)
  <2>1. Queued(e, t) = [e EXCEPT !.pending = t]
    BY <1>3 DEF Queued
  <2> QED BY <1>1, <2>1 DEF Entry
<1>4. CASE ~(Apart(e.sent, t) > Threshold \/ (kind = "machine" /\ ~e.active))
  <2>1. Queued(e, t) = e
    BY <1>4 DEF Queued
  <2>2. e.sent <= Threshold + MaxDelay
    BY <1>1, <1>2, <1>4, Times DEF Apart
  <2> QED BY <2>1, <2>2
<1> QED BY <1>3, <1>4

(* Nothing here gets staler when the row gets fresher.                     *)
LEMMA RowGetsFresher ==
  ASSUME PresenceInv, UNCHANGED <<cache, alive, writes, flushed, beat, streak>>,
         db'.age \in Nat, db'.age <= db.age
  PROVE  Staleness'
<1>1. db.age \in Nat /\ Fresh \in Nat /\ MaxDelay \in Nat /\ SentMost \in Nat
  BY Times DEF PresenceInv, PresenceTypeOK
<1>2. \A n \in Nat : db.age <= n => db'.age <= n
  BY <1>1
<1>3. PendingIsRecent'
  BY DEF PresenceInv, PendingIsRecent
<1>4. \A sent \in 0 .. SentMost : Near(db.age, sent) => Near(db'.age, sent)
  BY <1>1, <1>2 DEF Near
<1>5. ReadIsNear'
  BY <1>4 DEF PresenceInv, PresenceTypeOK, ReadIsNear
<1>6. SentIsNear'
  BY <1>4 DEF PresenceInv, PresenceTypeOK, SentIsNear
<1>7. BeatLeavesUpdate'
  BY <1>1, <1>2 DEF PresenceInv, BeatLeavesUpdate, Waiting, Valid, Busy
<1>8. UpdateIsSafe'
  BY <1>1, <1>2 DEF PresenceInv, UpdateIsSafe, Waiting, Valid, Busy
<1>9. UpdateComes'
  BY <1>1, <1>2 DEF PresenceInv, UpdateComes, Waiting, Valid, Busy
<1>10. RowIsFresh'
  BY <1>1, <1>2 DEF PresenceInv, RowIsFresh
<1> QED BY <1>3, <1>5, <1>6, <1>7, <1>8, <1>9, <1>10 DEF Staleness

(* A streak that is broken asks for little.                                *)
LEMMA StreakBroken ==
  ASSUME PresenceTypeOK', streak' = 0, PendingIsRecent', ReadIsNear'
  PROVE  Staleness'
<1>1. ~(streak' >= Long) /\ ~(streak' >= Long + 1) /\ ~(streak' >= Long + 2)
      /\ ~(streak' >= Long + 3)
  BY Times
<1>2. cache'.sent >= 0
  BY Times DEF PresenceTypeOK
<1>3. SentIsNear'
  BY <1>2 DEF SentIsNear
<1> QED BY <1>1, <1>3 DEF Staleness, BeatLeavesUpdate, UpdateIsSafe, UpdateComes, RowIsFresh

LEMMA AliveHitStep ==
  ASSUME PresenceInv, NEW t \in 0 .. MaxDelay, AliveHit(t)
  PROVE  PresenceInv'
<1>1. /\ UNCHANGED <<kind, agent, db, alive, writes, sweep, upsets, flushed, streak>>
      /\ Valid /\ beat' = TRUE /\ cache' = Queued(cache, t)
  BY DEF AliveHit
<1>2. /\ cache \in Entry /\ db.age \in Nat /\ streak \in Nat /\ t \in Nat /\ t <= MaxDelay
      /\ cache.sent \in Nat /\ cache.age \in Nat
  BY Times DEF PresenceInv, PresenceTypeOK, Entry, Ages
<1>3. /\ cache' \in Entry
      /\ cache'.present = cache.present /\ cache'.age = cache.age /\ cache'.sent = cache.sent
      /\ cache'.pending = cache.pending \/ cache'.pending = t
      /\ cache.pending # None => cache'.pending # None
      /\ cache'.pending # None \/ cache.sent <= Threshold + MaxDelay
  BY <1>1, <1>2, QueuedFacts
<1>4. PresenceTypeOK'
  BY <1>1, <1>3 DEF PresenceInv, PresenceTypeOK, Entry, Ages
<1>5. PendingIsRecent'
  BY <1>1, <1>2, <1>3 DEF PresenceInv, PendingIsRecent
<1>6. ReadIsNear' /\ SentIsNear'
  BY <1>1, <1>3 DEF PresenceInv, ReadIsNear, SentIsNear, Near
<1>7. Valid' /\ (Busy' <=> Busy) /\ (Waiting => Waiting')
  BY <1>1, <1>3 DEF Valid, Busy, Waiting
<1>8. streak >= Long => db.age <= Fresh \/ writes # {} \/ Waiting'
  <2>1. CASE cache.sent <= Threshold + MaxDelay
    <3>1. cache.sent # SentMost /\ ~(cache.sent >= Long)
      BY <1>2, <2>1, Times
    <3>2. db.age <= cache.sent + MaxDelay + 1 \/ writes # {} \/ cache.sent >= streak
      BY <1>1, <3>1 DEF PresenceInv, SentIsNear, Near, Valid
    <3> QED BY <1>2, <2>1, <3>1, <3>2, Times
  <2>2. CASE cache'.pending # None
    BY <2>2 DEF Waiting
  <2> QED BY <1>3, <2>1, <2>2
<1>9. BeatLeavesUpdate'
  BY <1>1, <1>7, <1>8 DEF BeatLeavesUpdate
<1>10. UpdateIsSafe'
  BY <1>1, <1>3, <1>7 DEF PresenceInv, UpdateIsSafe
<1>11. UpdateComes' /\ RowIsFresh'
  BY <1>1, <1>7 DEF PresenceInv, UpdateComes, RowIsFresh
<1> QED BY <1>4, <1>5, <1>6, <1>9, <1>10, <1>11 DEF PresenceInv

LEMMA AliveMissStep ==
  ASSUME PresenceInv, NEW h \in Handlers, NEW t \in 0 .. MaxDelay, AliveMiss(h, t)
  PROVE  PresenceInv'
<1>1. /\ UNCHANGED <<kind, agent, db, cache, writes, sweep, upsets, flushed, streak>>
      /\ ~Valid /\ beat' = TRUE
      /\ alive' = [alive EXCEPT ![h] = [NoAlive EXCEPT !.phase = "asking", !.t = t]]
  BY DEF AliveMiss
<1>2. alive \in [Handlers -> Heard]
  BY DEF PresenceInv, PresenceTypeOK, Heard
<1>3. PICK new : new = [NoAlive EXCEPT !.phase = "asking", !.t = t]
  OBVIOUS
<1>4. /\ alive' \in [Handlers -> Heard] /\ alive'[h].phase = "asking"
      /\ \A g \in Handlers \ {h} : alive'[g] = alive[g]
  <2>1. new = [phase |-> "asking", t |-> t, sent |-> 0, active |-> FALSE]
    BY <1>3 DEF NoAlive
  <2>2. 0 \in 0 .. SentMost
    BY Times
  <2>3. new \in Heard /\ new.phase = "asking"
    BY <2>1, <2>2 DEF Heard
  <2>4. alive' = [alive EXCEPT ![h] = new]
    BY <1>1, <1>3
  <2> QED BY <1>2, <2>3, <2>4
<1>5. PresenceTypeOK'
  BY <1>1, <1>4 DEF PresenceInv, PresenceTypeOK, Heard
<1>6. PendingIsRecent' /\ SentIsNear' /\ RowIsFresh'
  BY <1>1 DEF PresenceInv, PendingIsRecent, SentIsNear, RowIsFresh, Near
<1>7. ReadIsNear'
  <2>1. ASSUME NEW g \in Handlers, alive'[g].phase = "read"  PROVE Near(db'.age, alive'[g].sent)
    <3>1. g # h /\ alive'[g] = alive[g]
      BY <1>4, <2>1
    <3> QED BY <1>1, <2>1, <3>1 DEF PresenceInv, ReadIsNear, Near
  <2> QED BY <2>1 DEF ReadIsNear
<1>8. Busy' /\ ~Valid' /\ (Waiting' <=> Waiting)
  BY <1>1, <1>4 DEF Busy, Valid, Waiting
<1>9. BeatLeavesUpdate' /\ UpdateIsSafe'
  BY <1>8 DEF BeatLeavesUpdate, UpdateIsSafe
<1>10. UpdateComes'
  BY <1>1, <1>8 DEF PresenceInv, UpdateComes
<1> QED BY <1>5, <1>6, <1>7, <1>9, <1>10 DEF PresenceInv

LEMMA AliveReadStep ==
  ASSUME PresenceInv, NEW h \in Handlers, AliveRead(h)
  PROVE  PresenceInv'
<1> DEFINE sent == Cap(db.age, SentMost)
<1>1. /\ UNCHANGED <<kind, agent, db, cache, writes, sweep, upsets, flushed, beat, streak>>
      /\ alive[h].phase = "asking"
      /\ alive' = [alive EXCEPT ![h].phase = "read", ![h].active = db.active, ![h].sent = sent]
  BY DEF AliveRead
<1>2. alive \in [Handlers -> Heard] /\ db.active \in BOOLEAN /\ db.age \in Nat
  BY Times DEF PresenceInv, PresenceTypeOK, Heard
<1>3. /\ sent \in 0 .. SentMost
      /\ sent = SentMost \/ db.age <= sent + MaxDelay + 1
  BY <1>2, CapFacts, Times
<1> HIDE DEF sent
<1>4. /\ alive' \in [Handlers -> Heard]
      /\ alive'[h].phase = "read" /\ alive'[h].sent = sent
      /\ \A g \in Handlers \ {h} : alive'[g] = alive[g]
  BY <1>1, <1>2, <1>3 DEF Heard
<1>5. PresenceTypeOK'
  BY <1>1, <1>4 DEF PresenceInv, PresenceTypeOK, Heard
<1>6. PendingIsRecent' /\ SentIsNear' /\ RowIsFresh'
  BY <1>1 DEF PresenceInv, PendingIsRecent, SentIsNear, RowIsFresh, Near
<1>7. ReadIsNear'
  <2>1. ASSUME NEW g \in Handlers, alive'[g].phase = "read"  PROVE Near(db'.age, alive'[g].sent)
    <3>1. CASE g = h
      BY <1>1, <1>3, <1>4, <3>1 DEF Near
    <3>2. CASE g # h
      BY <1>1, <1>4, <2>1, <3>2 DEF PresenceInv, ReadIsNear, Near
    <3> QED BY <3>1, <3>2
  <2> QED BY <2>1 DEF ReadIsNear
<1>8. Busy /\ Busy' /\ (Valid' <=> Valid) /\ (Waiting' <=> Waiting)
  BY <1>1, <1>4 DEF Busy, Valid, Waiting
<1>9. BeatLeavesUpdate' /\ UpdateIsSafe'
  BY <1>8 DEF BeatLeavesUpdate, UpdateIsSafe
<1>10. UpdateComes'
  BY <1>1, <1>8 DEF PresenceInv, UpdateComes
<1> QED BY <1>5, <1>6, <1>7, <1>9, <1>10 DEF PresenceInv

(* The entry is replaced by one that expires no sooner than the next batch.*)
LEMMA AliveCachedStep ==
  ASSUME PresenceInv, NEW h \in Handlers, AliveCached(h)
  PROVE  PresenceInv'
<1> DEFINE e == [present |-> TRUE, age |-> 0, sent |-> alive[h].sent,
                 pending |-> None, active |-> alive[h].active]
<1>1. /\ UNCHANGED <<kind, agent, db, writes, sweep, upsets, flushed, beat, streak>>
      /\ alive[h].phase = "read"
      /\ alive' = [alive EXCEPT ![h] = NoAlive]
      /\ cache' = Queued(e, alive[h].t)
  BY DEF AliveCached
<1>2. /\ alive \in [Handlers -> Heard] /\ alive[h] \in Heard
      /\ alive[h].t \in 0 .. MaxDelay /\ alive[h].t \in Nat /\ alive[h].t <= MaxDelay
      /\ alive[h].sent \in Nat /\ db.age \in Nat /\ streak \in Nat
  BY Times DEF PresenceInv, PresenceTypeOK, Heard
<1>3. /\ e \in Entry /\ e.present = TRUE /\ e.age = 0 /\ e.sent = alive[h].sent
      /\ e.pending = None
  BY <1>2, Times DEF Entry, Heard
<1> HIDE DEF e
<1>4. /\ cache' \in Entry /\ cache'.present = TRUE /\ cache'.age = 0
      /\ cache'.sent = alive[h].sent
      /\ cache'.pending = None \/ cache'.pending = alive[h].t
      /\ cache'.pending # None \/ alive[h].sent <= Threshold + MaxDelay
  BY <1>1, <1>2, <1>3, QueuedFacts
<1>5. /\ alive' \in [Handlers -> Heard] /\ alive'[h].phase = "none"
      /\ \A g \in Handlers \ {h} : alive'[g] = alive[g]
  <2>1. NoAlive \in Heard /\ NoAlive.phase = "none"
    BY Times DEF NoAlive, Heard
  <2> QED BY <1>1, <1>2, <2>1
<1>6. PresenceTypeOK'
  BY <1>1, <1>4, <1>5 DEF PresenceInv, PresenceTypeOK, Entry, Ages, Heard
<1>7. PendingIsRecent'
  BY <1>2, <1>4 DEF PendingIsRecent
<1>8. ReadIsNear'
  <2>1. ASSUME NEW g \in Handlers, alive'[g].phase = "read"  PROVE Near(db'.age, alive'[g].sent)
    <3>1. g # h /\ alive'[g] = alive[g]
      BY <1>5, <2>1
    <3> QED BY <1>1, <2>1, <3>1 DEF PresenceInv, ReadIsNear, Near
  <2> QED BY <2>1 DEF ReadIsNear
<1>9. alive[h].sent = SentMost \/ db.age <= alive[h].sent + MaxDelay + 1
  BY <1>1 DEF PresenceInv, ReadIsNear, Near
<1>10. SentIsNear'
  BY <1>1, <1>4, <1>9 DEF SentIsNear, Near
<1>11. Valid' /\ cache'.age + 1 < TTL
  BY <1>4, Times DEF Valid
<1>12. db.age <= Fresh \/ Waiting'
  <2>1. CASE alive[h].sent <= Threshold + MaxDelay
    BY <1>2, <1>9, <2>1, Times
  <2>2. CASE cache'.pending # None
    BY <2>2 DEF Waiting
  <2> QED BY <1>4, <2>1, <2>2
<1>13. BeatLeavesUpdate'
  BY <1>1, <1>11, <1>12 DEF BeatLeavesUpdate
<1>14. UpdateIsSafe'
  <2>1. db.age <= Fresh => db.age <= Fresh + 1
    BY <1>2, Times
  <2> QED BY <1>1, <1>11, <1>12, <2>1 DEF UpdateIsSafe
<1>15. UpdateComes' /\ RowIsFresh'
  <2>1. Busy
    BY <1>1 DEF Busy
  <2> QED BY <1>1, <2>1 DEF PresenceInv, UpdateComes, RowIsFresh
<1> QED BY <1>6, <1>7, <1>8, <1>10, <1>13, <1>14, <1>15 DEF PresenceInv

LEMMA AliveFailsStep ==
  ASSUME PresenceInv, NEW h \in Handlers, AliveFails(h)
  PROVE  PresenceInv'
<1>1. /\ UNCHANGED <<kind, agent, db, cache, writes, sweep, upsets, flushed, beat>>
      /\ alive' = [alive EXCEPT ![h] = NoAlive] /\ streak' = 0
  BY DEF AliveFails
<1>2. /\ alive' \in [Handlers -> Heard] /\ alive'[h].phase = "none"
      /\ \A g \in Handlers \ {h} : alive'[g] = alive[g]
  <2>1. NoAlive \in Heard /\ NoAlive.phase = "none"
    BY Times DEF NoAlive, Heard
  <2> QED BY <1>1, <2>1 DEF PresenceInv, PresenceTypeOK, Heard
<1>3. PresenceTypeOK'
  BY <1>1, <1>2, Times DEF PresenceInv, PresenceTypeOK, Heard
<1>4. PendingIsRecent'
  BY <1>1 DEF PresenceInv, PendingIsRecent
<1>5. ReadIsNear'
  <2>1. ASSUME NEW g \in Handlers, alive'[g].phase = "read"  PROVE Near(db'.age, alive'[g].sent)
    <3>1. g # h /\ alive'[g] = alive[g]
      BY <1>2, <2>1
    <3> QED BY <1>1, <2>1, <3>1 DEF PresenceInv, ReadIsNear, Near
  <2> QED BY <2>1 DEF ReadIsNear
<1> QED BY <1>1, <1>3, <1>4, <1>5, StreakBroken DEF PresenceInv, Staleness

LEMMA FlushCollectsStep ==
  ASSUME PresenceInv, FlushCollects
  PROVE  PresenceInv'
<1>1. /\ UNCHANGED <<kind, agent, db, alive, sweep, upsets, beat, streak>>
      /\ flushed' = TRUE
  BY DEF FlushCollects
<1>2. cache \in Entry /\ writes \subseteq Ages
  BY DEF PresenceInv, PresenceTypeOK, Entry, Ages
<1>3. CASE cache.pending # None
  <2>1. /\ writes' = writes \union {cache.pending}
        /\ cache' = [cache EXCEPT !.sent = cache.pending, !.pending = None, !.active = TRUE]
    BY <1>3 DEF FlushCollects
  <2>2. cache.pending \in Ages /\ cache.pending \in 0 .. SentMost
    BY <1>2, <1>3, Times DEF Entry, Ages
  <2>3. cache' \in Entry /\ cache'.pending = None /\ writes' \subseteq Ages /\ writes' # {}
    BY <1>2, <2>1, <2>2 DEF Entry
  <2>4. PresenceTypeOK'
    BY <1>1, <2>3 DEF PresenceInv, PresenceTypeOK, Entry, Ages
  <2>5. PendingIsRecent' /\ ReadIsNear' /\ SentIsNear' /\ RowIsFresh'
    BY <1>1, <2>3 DEF PresenceInv, PendingIsRecent, ReadIsNear, SentIsNear, RowIsFresh
  <2>6. BeatLeavesUpdate' /\ UpdateIsSafe' /\ UpdateComes'
    BY <2>3 DEF BeatLeavesUpdate, UpdateIsSafe, UpdateComes
  <2> QED BY <2>4, <2>5, <2>6 DEF PresenceInv
<1>4. CASE cache.pending = None
  <2>1. UNCHANGED <<writes, cache>>
    BY <1>4 DEF FlushCollects
  <2>2. PresenceTypeOK'
    BY <1>1, <2>1 DEF PresenceInv, PresenceTypeOK
  <2>3. PendingIsRecent' /\ ReadIsNear' /\ SentIsNear' /\ RowIsFresh'
    BY <1>1, <1>4, <2>1 DEF PresenceInv, PendingIsRecent, ReadIsNear, SentIsNear, RowIsFresh
  <2>4. ~Waiting /\ ~Waiting' /\ (Valid' <=> Valid) /\ (Busy' <=> Busy)
    BY <1>1, <1>4, <2>1 DEF Waiting, Valid, Busy
  <2>5. BeatLeavesUpdate' /\ UpdateIsSafe' /\ UpdateComes'
    BY <1>1, <2>1, <2>4 DEF PresenceInv, BeatLeavesUpdate, UpdateIsSafe, UpdateComes
  <2> QED BY <2>2, <2>3, <2>5 DEF PresenceInv
<1> QED BY <1>3, <1>4

LEMMA FlushWritesStep ==
  ASSUME PresenceInv, NEW t \in writes, FlushWrites(t)
  PROVE  PresenceInv'
<1>1. /\ UNCHANGED <<kind, agent, cache, alive, sweep, upsets, flushed, beat, streak>>
      /\ writes' = writes \ {t} /\ db' = [active |-> TRUE, age |-> t]
  BY DEF FlushWrites
<1>2. t \in 0 .. MaxDelay + 1 /\ t \in Nat
  BY Times DEF PresenceInv, PresenceTypeOK
<1>3. db'.age = t /\ t <= MaxDelay + 1 /\ t <= Fresh
  BY <1>1, <1>2, Times
<1>4. PresenceTypeOK'
  <2>1. t \in 0 .. Timeout
    BY <1>2, <1>3, Times
  <2> QED BY <1>1, <2>1 DEF PresenceInv, PresenceTypeOK
<1>5. PendingIsRecent'
  BY <1>1 DEF PresenceInv, PendingIsRecent
<1>6. \A sent \in 0 .. SentMost : Near(t, sent)
  BY <1>2, <1>3, Times DEF Near
<1>7. ReadIsNear'
  BY <1>1, <1>3, <1>6 DEF PresenceInv, PresenceTypeOK, ReadIsNear
<1>8. SentIsNear'
  BY <1>1, <1>3, <1>6 DEF PresenceInv, PresenceTypeOK, SentIsNear
<1>9. t <= Fresh /\ t <= Fresh + 1 /\ t <= Fresh + 2 /\ t <= Fresh + 3
  BY <1>2, <1>3, Times
<1>10. BeatLeavesUpdate' /\ UpdateIsSafe' /\ UpdateComes' /\ RowIsFresh'
  BY <1>3, <1>9 DEF BeatLeavesUpdate, UpdateIsSafe, UpdateComes, RowIsFresh
<1> QED BY <1>4, <1>5, <1>7, <1>8, <1>10 DEF PresenceInv

LEMMA FlushFailsStep ==
  ASSUME PresenceInv, NEW t \in writes, FlushFails(t)
  PROVE  PresenceInv'
<1>1. /\ UNCHANGED <<kind, agent, db, cache, alive, sweep, upsets, flushed, beat>>
      /\ writes' = writes \ {t} /\ streak' = 0
  BY DEF FlushFails
<1>2. PresenceTypeOK'
  BY <1>1, Times DEF PresenceInv, PresenceTypeOK
<1>3. PendingIsRecent' /\ ReadIsNear'
  BY <1>1 DEF PresenceInv, PendingIsRecent, ReadIsNear
<1> QED BY <1>1, <1>2, <1>3, StreakBroken DEF PresenceInv, Staleness

(* Only an entry that is not valid any more goes.                          *)
LEMMA CleanupStep ==
  ASSUME PresenceInv, Cleanup
  PROVE  PresenceInv'
<1>1. /\ UNCHANGED <<kind, agent, db, alive, writes, sweep, upsets, flushed, beat, streak>>
      /\ cache.age >= TTL /\ cache' = NoEntry
  BY DEF Cleanup
<1>2. cache' \in Entry /\ cache'.present = FALSE /\ cache'.pending = None
  BY <1>1, Times DEF NoEntry, Entry
<1>3. PresenceTypeOK'
  BY <1>1, <1>2 DEF PresenceInv, PresenceTypeOK, Entry, Ages
<1>4. PendingIsRecent' /\ ReadIsNear' /\ SentIsNear' /\ RowIsFresh'
  BY <1>1, <1>2 DEF PresenceInv, PendingIsRecent, ReadIsNear, SentIsNear, RowIsFresh
<1>5. ~Valid /\ ~Valid' /\ (Busy' <=> Busy)
  <2>1. cache.age \in Nat
    BY Times DEF PresenceInv, PresenceTypeOK
  <2> QED BY <1>1, <1>2, <2>1, Times DEF Valid, Busy
<1>6. BeatLeavesUpdate' /\ UpdateIsSafe' /\ UpdateComes'
  BY <1>1, <1>5 DEF PresenceInv, BeatLeavesUpdate, UpdateIsSafe, UpdateComes
<1> QED BY <1>3, <1>4, <1>6 DEF PresenceInv

(* What the sweep, the archive route and machine-update-state write.       *)
LEMMA PastTheCacheSteps ==
  ASSUME PresenceInv, SweepFinds \/ SweepMarks \/ Archive \/ MachineState \/ Resume
  PROVE  PresenceInv'
<1>1. UNCHANGED <<kind, cache, alive, writes, flushed, beat, streak>>
  BY DEF SweepFinds, SweepMarks, Archive, MachineState, Resume
<1>2. db \in [active : BOOLEAN, age : 0 .. Timeout] /\ upsets \in 0 .. MaxUpsets
  BY DEF PresenceInv, PresenceTypeOK
<1>3. /\ db' \in [active : BOOLEAN, age : 0 .. Timeout] /\ db'.age <= db.age
      /\ agent' \in {"running", "silent", "ended"} /\ sweep' \in BOOLEAN
      /\ upsets' \in 0 .. MaxUpsets
  <2>1. CASE SweepFinds
    BY <1>2, <2>1, Times DEF PresenceInv, PresenceTypeOK, SweepFinds
  <2>2. CASE SweepMarks
    <3>1. db' = [db EXCEPT !.active = FALSE] /\ sweep' = FALSE /\ UNCHANGED <<agent, upsets>>
      BY <2>2 DEF SweepMarks
    <3>2. db.age \in Nat
      BY <1>2, Times
    <3>3. db' \in [active : BOOLEAN, age : 0 .. Timeout] /\ db'.age = db.age
      BY <1>2, <3>1
    <3>4. agent \in {"running", "silent", "ended"}
      BY DEF PresenceInv, PresenceTypeOK
    <3>5. db'.age <= db.age
      BY <3>2, <3>3
    <3> QED BY <1>2, <3>1, <3>3, <3>4, <3>5
  <2>3. CASE Archive
    BY <1>2, <2>3, Times DEF PresenceInv, PresenceTypeOK, Archive
  <2>4. CASE MachineState
    BY <1>2, <2>4, Times DEF PresenceInv, PresenceTypeOK, MachineState
  <2>5. CASE Resume
    BY <1>2, <2>5, Times DEF PresenceInv, PresenceTypeOK, Resume
  <2> QED BY <2>1, <2>2, <2>3, <2>4, <2>5
<1>4. PresenceTypeOK'
  BY <1>1, <1>3 DEF PresenceInv, PresenceTypeOK
<1>5. db'.age \in Nat
  BY <1>3, Times
<1> QED BY <1>1, <1>3, <1>4, <1>5, RowGetsFresher DEF PresenceInv, Staleness

LEMMA SessionEndStep ==
  ASSUME PresenceInv, NEW t \in 0 .. MaxDelay, SessionEnd(t)
  PROVE  PresenceInv'
<1>1. /\ UNCHANGED <<kind, cache, alive, writes, sweep, upsets, flushed, beat>>
      /\ agent' = "ended" /\ db' = [active |-> FALSE, age |-> t] /\ streak' = 0
  BY DEF SessionEnd
<1>2. t \in Nat /\ t <= MaxDelay /\ t \in 0 .. Timeout
  BY Times
<1>3. PresenceTypeOK'
  BY <1>1, <1>2, Times DEF PresenceInv, PresenceTypeOK
<1>4. PendingIsRecent'
  BY <1>1 DEF PresenceInv, PendingIsRecent
<1>5. ReadIsNear'
  <2>1. \A sent \in 0 .. SentMost : Near(t, sent)
    BY <1>2, Times DEF Near
  <2> QED BY <1>1, <2>1 DEF PresenceInv, PresenceTypeOK, ReadIsNear
<1> QED BY <1>1, <1>3, <1>4, <1>5, StreakBroken DEF PresenceInv, Staleness

LEMMA FallSilentStep ==
  ASSUME PresenceInv, FallSilent
  PROVE  PresenceInv'
<1>1. /\ UNCHANGED <<kind, db, cache, alive, writes, sweep, upsets, flushed, beat>>
      /\ agent' = "silent" /\ streak' = 0
  BY DEF FallSilent
<1>2. PresenceTypeOK'
  BY <1>1, Times DEF PresenceInv, PresenceTypeOK
<1>3. PendingIsRecent' /\ ReadIsNear'
  BY <1>1 DEF PresenceInv, PendingIsRecent, ReadIsNear
<1> QED BY <1>1, <1>2, <1>3, StreakBroken DEF PresenceInv, Staleness

LEMMA RestartStep ==
  ASSUME PresenceInv, Restart
  PROVE  PresenceInv'
<1>1. /\ UNCHANGED <<kind, agent, db, flushed, beat>>
      /\ upsets < MaxUpsets /\ upsets' = upsets + 1
      /\ cache' = NoEntry /\ alive' = [h \in Handlers |-> NoAlive]
      /\ writes' = {} /\ sweep' = FALSE /\ streak' = 0
  BY DEF Restart
<1>2. cache' \in Entry /\ cache'.pending = None
  BY <1>1, Times DEF NoEntry, Entry
<1>3. alive' \in [Handlers -> Heard] /\ \A h \in Handlers : alive'[h].phase = "none"
  <2>1. NoAlive \in Heard /\ NoAlive.phase = "none"
    BY Times DEF NoAlive, Heard
  <2> QED BY <1>1, <2>1
<1>4. upsets' \in 0 .. MaxUpsets
  BY <1>1, Times DEF PresenceInv, PresenceTypeOK
<1>5. PresenceTypeOK'
  <2>1. /\ agent' \in {"running", "silent", "ended"}
        /\ db' \in [active : BOOLEAN, age : 0 .. Timeout]
        /\ flushed' \in BOOLEAN /\ beat' \in BOOLEAN
    BY <1>1 DEF PresenceInv, PresenceTypeOK
  <2>2. 0 \in 0 .. Patience
    BY Times
  <2>3. streak' \in 0 .. Patience /\ sweep' \in BOOLEAN /\ writes' \subseteq Ages
    BY <1>1, <2>2
  <2> QED BY <1>2, <1>3, <1>4, <2>1, <2>3 DEF PresenceTypeOK, Entry, Ages, Heard
<1>6. PendingIsRecent' /\ ReadIsNear'
  BY <1>2, <1>3 DEF PendingIsRecent, ReadIsNear
<1> QED BY <1>1, <1>5, <1>6, StreakBroken DEF PresenceInv, Staleness

(* A tick ends with every heartbeat dealt with and nothing being written.  *)
LEMMA TickStep ==
  ASSUME PresenceInv, Tick
  PROVE  PresenceInv'
<1>1. /\ UNCHANGED <<kind, agent, alive, writes, sweep, upsets>>
      /\ \A h \in Handlers : alive[h].phase = "none"
      /\ writes = {} /\ flushed /\ flushed' = FALSE /\ beat' = FALSE
      /\ db' = [db EXCEPT !.age = Cap(db.age + 1, Timeout)]
      /\ cache' = IF ~cache.present THEN cache
                  ELSE [cache EXCEPT !.age = Cap(cache.age + 1, TTL),
                                     !.sent = Cap(cache.sent + 1, SentMost),
                                     !.pending = IF @ = None THEN None ELSE @ + 1]
      /\ streak' = IF beat THEN Cap(streak + 1, Patience) ELSE 0
  BY DEF Tick
<1>2. /\ cache \in Entry /\ db.age \in Nat /\ streak \in Nat /\ streak <= Patience
      /\ cache.sent \in Nat /\ cache.age \in Nat
      /\ db \in [active : BOOLEAN, age : 0 .. Timeout]
  BY Times DEF PresenceInv, PresenceTypeOK, Entry, Ages
<1>3. /\ db' \in [active : BOOLEAN, age : 0 .. Timeout]
      /\ db'.age \in Nat /\ db'.age <= db.age + 1
  <2>1. Cap(db.age + 1, Timeout) \in 0 .. Timeout /\ Cap(db.age + 1, Timeout) <= db.age + 1
    BY <1>2, CapGrows, Times
  <2>2. db' \in [active : BOOLEAN, age : 0 .. Timeout] /\ db'.age = Cap(db.age + 1, Timeout)
    BY <1>1, <1>2, <2>1
  <2> QED BY <2>1, <2>2, Times
<1>4. /\ streak' \in 0 .. Patience /\ streak' \in Nat
      /\ streak' > 0 => beat /\ streak' <= streak + 1
  <2>1. Cap(streak + 1, Patience) \in 0 .. Patience /\ Cap(streak + 1, Patience) <= streak + 1
    BY <1>2, CapGrows, Times
  <2>2. CASE beat
    BY <1>1, <2>1, <2>2, Times
  <2>3. CASE ~beat
    BY <1>1, <2>3, Times
  <2> QED BY <2>2, <2>3
<1>5. cache.pending # None => cache.pending \in Nat /\ cache.pending <= MaxDelay
  BY <1>1, <1>2, Times DEF PresenceInv, PendingIsRecent, Entry, Ages
<1>6. /\ cache' \in Entry /\ cache'.present = cache.present
      /\ cache'.pending # None <=> cache.pending # None
      /\ cache.present => /\ cache'.age = cache.age + 1 \/ cache'.age = TTL
                          /\ cache'.age <= cache.age + 1
                          /\ cache'.sent = cache.sent + 1 \/ cache'.sent = SentMost
  <2>1. CASE ~cache.present
    BY <1>1, <1>2, <2>1
  <2>2. CASE cache.present
    <3>1. PICK age, sent, pending : /\ age = Cap(cache.age + 1, TTL)
                                    /\ sent = Cap(cache.sent + 1, SentMost)
                                    /\ pending = IF cache.pending = None THEN None
                                                 ELSE cache.pending + 1
      OBVIOUS
    <3>2. cache' = [cache EXCEPT !.age = age, !.sent = sent, !.pending = pending]
      BY <1>1, <2>2, <3>1
    <3>3. age \in 0 .. TTL /\ age <= cache.age + 1 /\ (age = cache.age + 1 \/ age = TTL)
      BY <1>2, <3>1, CapGrows, Times
    <3>4. sent \in 0 .. SentMost /\ (sent = cache.sent + 1 \/ sent = SentMost)
      BY <1>2, <3>1, CapGrows, Times
    <3>5. pending \in Ages \union {None} /\ (pending # None <=> cache.pending # None)
      BY <1>5, <3>1, Times DEF Ages
    <3>6. /\ cache'.age = age /\ cache'.sent = sent /\ cache'.pending = pending
          /\ cache'.present = cache.present /\ cache' \in Entry
      BY <1>2, <3>2, <3>3, <3>4, <3>5 DEF Entry
    <3> QED BY <3>3, <3>4, <3>5, <3>6
  <2> QED BY <2>1, <2>2
<1>7. PresenceTypeOK'
  BY <1>1, <1>3, <1>4, <1>6 DEF PresenceInv, PresenceTypeOK, Entry, Ages
<1>8. PendingIsRecent' /\ ReadIsNear' /\ BeatLeavesUpdate'
  BY <1>1 DEF PendingIsRecent, ReadIsNear, BeatLeavesUpdate
<1>9. SentIsNear'
  <2> SUFFICES ASSUME cache.present, cache'.sent # SentMost
               PROVE  \/ db'.age <= cache'.sent + MaxDelay + 1
                      \/ cache'.sent >= streak'
    BY <1>6 DEF SentIsNear, Near
  <2>1. cache'.sent = cache.sent + 1
    BY <1>6
  <2>2. cache.sent # SentMost
    <3>1. cache'.sent \in 0 .. SentMost
      BY <1>6 DEF Entry
    <3> QED BY <1>2, <2>1, <3>1, Times
  <2>3. db.age <= cache.sent + MaxDelay + 1 \/ cache.sent >= streak
    BY <1>1, <2>2 DEF PresenceInv, SentIsNear, Near
  <2> QED BY <1>2, <1>3, <1>4, <2>1, <2>3, Times
<1>10. ~Busy /\ ~Busy' /\ (Waiting' <=> Waiting)
  BY <1>1, <1>6 DEF Busy, Waiting
<1>11. ASSUME Valid, cache.age + 1 < TTL  PROVE Valid'
  <2>1. cache.present /\ cache'.age <= cache.age + 1 /\ cache'.age \in 0 .. TTL
    BY <1>6, <1>11 DEF Valid, Entry
  <2> QED BY <1>2, <1>6, <1>11, <2>1, Times DEF Valid
<1>12. UpdateIsSafe'
  <2> SUFFICES ASSUME streak' >= Long + 1
               PROVE  ~Valid' \/ db'.age <= Fresh + 1 \/ Waiting'
    BY <1>1 DEF UpdateIsSafe
  <2>1. streak >= Long /\ beat
    BY <1>2, <1>4, Times
  <2>2. db.age <= Fresh \/ Waiting
    BY <1>1, <1>10, <2>1 DEF PresenceInv, BeatLeavesUpdate
  <2> QED BY <1>2, <1>3, <1>10, <2>2, Times
<1>13. UpdateComes'
  <2> SUFFICES ASSUME streak' >= Long + 2
               PROVE  db'.age <= Fresh + 2 \/ (Waiting' /\ Valid')
    BY <1>1, <1>10 DEF UpdateComes
  <2>1. streak >= Long + 1 /\ beat
    BY <1>2, <1>4, Times
  <2>2. db.age <= Fresh + 1 \/ (Waiting /\ Valid /\ cache.age + 1 < TTL)
    BY <1>1, <1>10, <2>1 DEF PresenceInv, UpdateIsSafe
  <2> QED BY <1>2, <1>3, <1>10, <1>11, <2>2, Times
<1>14. RowIsFresh'
  <2> SUFFICES ASSUME streak' >= Long + 3  PROVE db'.age <= Fresh + 3
    BY DEF RowIsFresh
  <2>1. streak >= Long + 2
    BY <1>2, <1>4, Times
  <2>2. db.age <= Fresh + 2
    BY <1>1, <2>1 DEF PresenceInv, UpdateComes
  <2> QED BY <1>2, <1>3, <2>2, Times
<1> QED BY <1>7, <1>8, <1>9, <1>12, <1>13, <1>14 DEF PresenceInv

LEMMA InitPresence == PresenceInit => PresenceInv
<1> SUFFICES ASSUME PresenceInit  PROVE PresenceInv
  OBVIOUS
<1>1. /\ agent = "running" /\ db = [active |-> kind = "session", age |-> 0]
      /\ cache = NoEntry /\ alive = [h \in Handlers |-> NoAlive] /\ writes = {}
      /\ sweep = FALSE /\ upsets = 0 /\ flushed = FALSE /\ beat = FALSE /\ streak = 0
  BY DEF PresenceInit
<1>2. cache \in Entry /\ cache.present = FALSE
  BY <1>1, Times DEF NoEntry, Entry
<1>3. alive \in [Handlers -> Heard] /\ \A h \in Handlers : alive[h].phase = "none"
  <2>1. NoAlive \in Heard /\ NoAlive.phase = "none"
    BY Times DEF NoAlive, Heard
  <2> QED BY <1>1, <2>1
<1>4. db \in [active : BOOLEAN, age : 0 .. Timeout]
  <2>1. 0 \in 0 .. Timeout /\ (kind = "session") \in BOOLEAN
    BY Times
  <2> QED BY <1>1, <2>1
<1>5. upsets \in 0 .. MaxUpsets /\ streak \in 0 .. Patience
  BY <1>1, Times
<1>6. PresenceTypeOK
  BY <1>1, <1>2, <1>3, <1>4, <1>5 DEF PresenceTypeOK, Entry, Ages, Heard
<1>7. PendingIsRecent /\ ReadIsNear /\ SentIsNear /\ BeatLeavesUpdate
  BY <1>1, <1>2, <1>3 DEF PendingIsRecent, ReadIsNear, SentIsNear, BeatLeavesUpdate
<1>8. UpdateIsSafe /\ UpdateComes /\ RowIsFresh
  BY <1>1, Times DEF UpdateIsSafe, UpdateComes, RowIsFresh
<1> QED BY <1>6, <1>7, <1>8 DEF PresenceInv

LEMMA PresenceStep == PresenceInv /\ [PresenceNext]_presenceVars => PresenceInv'
<1> SUFFICES ASSUME PresenceInv, [PresenceNext]_presenceVars  PROVE PresenceInv'
  OBVIOUS
<1>1. ASSUME NEW t \in 0 .. MaxDelay,
             AliveHit(t) \/ SessionEnd(t) \/ \E h \in Handlers : AliveMiss(h, t)
      PROVE  PresenceInv'
  BY <1>1, AliveHitStep, SessionEndStep, AliveMissStep
<1>2. ASSUME NEW h \in Handlers, AliveRead(h) \/ AliveCached(h) \/ AliveFails(h)
      PROVE  PresenceInv'
  BY <1>2, AliveReadStep, AliveCachedStep, AliveFailsStep
<1>3. ASSUME NEW t \in writes, FlushWrites(t) \/ FlushFails(t)  PROVE PresenceInv'
  BY <1>3, FlushWritesStep, FlushFailsStep
<1>4. CASE FlushCollects \/ Cleanup
  BY <1>4, FlushCollectsStep, CleanupStep
<1>5. CASE SweepFinds \/ SweepMarks \/ Archive \/ MachineState \/ Resume
  BY <1>5, PastTheCacheSteps
<1>6. CASE FallSilent \/ Restart \/ Tick
  BY <1>6, FallSilentStep, RestartStep, TickStep
<1>7. CASE UNCHANGED presenceVars
  <2>1. UNCHANGED <<kind, agent, db, cache, alive, writes, sweep, upsets, flushed, beat, streak>>
    BY <1>7 DEF presenceVars
  <2>2. PresenceTypeOK' /\ db'.age \in Nat /\ db'.age <= db.age
    BY <2>1, Times DEF PresenceInv, PresenceTypeOK
  <2> QED BY <2>1, <2>2, RowGetsFresher DEF PresenceInv, Staleness
<1> QED BY <1>1, <1>2, <1>3, <1>4, <1>5, <1>6, <1>7 DEF PresenceNext

(* The inductive invariant: how far the cache's idea of the row can be from*)
(* the row, and how an update that a heartbeat leaves gets through.        *)
THEOREM PresenceInvariant == PresenceSpec => []PresenceInv
<1> QED BY InitPresence, PresenceStep, PTL DEF PresenceSpec

(* Every variable has its type: in particular no update of lastActiveAt    *)
(* waits in the cache for longer than a tick.                              *)
THEOREM PresenceTypeCorrect == PresenceSpec => []PresenceTypeOK
<1>1. PresenceInv => PresenceTypeOK
  BY DEF PresenceInv
<1> QED BY <1>1, PresenceInvariant, PTL

(* The sweep never finds an agent whose heartbeats have been coming in     *)
(* without a failure for Patience ticks, for any number of handlers and any*)
(* times: what the activity cache skips, entries that are replaced by late *)
(* handlers or cleaned up with an update in them, and batches written out  *)
(* of order never add up to the ten minutes of the timeout.                *)
THEOREM LiveAreSpared == PresenceSpec => SweepSparesTheLive
<1>1. PresenceInv /\ [PresenceNext]_presenceVars
        => [~sweep /\ sweep' => streak < Patience]_presenceVars
  <2> SUFFICES ASSUME PresenceInv, PresenceNext, ~sweep, sweep'  PROVE streak < Patience
    OBVIOUS
  <2>1. SweepFinds
    BY DEF PresenceNext, AliveHit, SessionEnd, AliveMiss, AliveRead, AliveCached, AliveFails,
           FlushCollects, Cleanup, FlushWrites, FlushFails, SweepMarks, Archive, MachineState,
           FallSilent, Resume, Restart, Tick
  <2>2. db.age >= Timeout
    BY <2>1 DEF SweepFinds
  <2>3. db.age \in Nat /\ streak \in Nat
    BY Times DEF PresenceInv, PresenceTypeOK
  <2>4. ~(streak >= Long + 3)
    BY <2>2, <2>3, Times DEF PresenceInv, RowIsFresh
  <2> QED BY <2>3, <2>4, Times
<1> QED BY <1>1, PresenceInvariant, PTL DEF PresenceSpec, SweepSparesTheLive

=============================================================================
