----------------------------- MODULE RpcRouting -----------------------------
(***************************************************************************)
(* Remote calls from an app to an agent or a daemon: the agent's           *)
(* RpcHandlerManager registers methods over whatever connection it has,    *)
(* the server keeps one room per method (socket/rpcHandler.ts), and a call *)
(* looks the room up, waits a while for somebody to come into it, hands    *)
(* the request to one socket and watches whether that socket stays.        *)
(*                                                                         *)
(* A connection breaks at one moment and each side notices at its own:     *)
(* until the server does, a dead socket stays in its rooms, perhaps next   *)
(* to the one of the reconnected agent.  Delays are not counted: a grace   *)
(* period, a timeout and a poll come at any time.  Callers register        *)
(* nothing themselves, so the refusal of a call to one's own socket is     *)
(* left out; so are calls without a method.                                *)
(***************************************************************************)
EXTENDS Naturals, Sequences, FiniteSets, SequencesExt

CONSTANTS Calls,        \* rpc-calls of the apps
          Methods,      \* prefixed method names
          MaxConns,     \* bound: connections the agent makes
          MaxChanges,   \* bound: handlers registered and unregistered
          MaxFails      \* bound: fetchSockets that fail

ASSUME ConnsAssumption == MaxConns \in Nat \ {0}
ASSUME MethodsAssumption == IsFiniteSet(Methods)

Conns == 1 .. MaxConns
NoConn == 0

VARIABLES handlers,     \* keys of RpcHandlerManager's handlers
          socket,       \* RpcHandlerManager's socket
          link,         \* how each connection is
          wire,         \* what the agent sent on it and the server has not handled
          rooms,        \* the sockets in each method's room
          call,         \* the rpc-call handlers
          work,         \* what became of each call's rpc-request
          changes, fails \* how much of the bounds is used

agentVars == <<handlers, socket, wire, changes>>
vars == <<agentVars, link, rooms, call, work, fails>>

Open(k) == call[k].phase \in {"lookup", "looked", "racing"}
Racing(k) == call[k].phase = "racing"

NewCall(m) == [phase |-> "lookup", method |-> m, found |-> {}, grace |-> FALSE, late |-> FALSE,
               target |-> NoConn, misses |-> 0, answer |-> "none", calm |-> TRUE]

Answered(x, answer) == [x EXCEPT !.phase = "done", !.answer = answer, !.misses = 0]

(* History: does this state of the connections stand in the way of call x? *)
(* Nobody is there when the grace period is over, or the socket that was   *)
(* given the request is dead or has left the room.                         *)
Bothered(x, lk, rm) ==
    \/ x.phase \in {"lookup", "looked"} /\ x.late /\ rm[x.method] = {}
    \/ x.phase = "racing" /\ (lk[x.target] # "up" \/ x.target \notin rm[x.method])

Noted(lk, rm) ==
    [k \in Calls |-> IF call[k].phase = "none" THEN call[k]
                     ELSE [call[k] EXCEPT !.calm = @ /\ ~Bothered(call[k], lk, rm)]]

-----------------------------------------------------------------------------
(* The agent.  A message goes out on the manager's socket, if it has one.  *)
Emitted(type, m) ==
    IF socket # NoConn /\ link[socket] = "up"
    THEN [wire EXCEPT ![socket] = Append(@, [type |-> type, method |-> m])]
    ELSE wire

(* registerHandler: for a new method, or to replace the handler of one.    *)
RegisterHandler(m) ==
    /\ changes < MaxChanges /\ changes' = changes + 1
    /\ handlers' = handlers \union {m}
    /\ wire' = Emitted("rpc-register", m)
    /\ UNCHANGED <<socket, link, rooms, call, work, fails>>

(* unregisterHandler, of the resume method when it is no longer offered.   *)
UnregisterHandler(m) ==
    /\ changes < MaxChanges /\ changes' = changes + 1
    /\ m \in handlers
    /\ handlers' = handlers \ {m}
    /\ wire' = Emitted("rpc-unregister", m)
    /\ UNCHANGED <<socket, link, rooms, call, work, fails>>

(* socket 'connect', and onSocketConnect: everything is registered anew.   *)
Registrations(ms) == [i \in 1 .. Cardinality(ms) |->
                         [type |-> "rpc-register", method |-> SetToSeq(ms)[i]]]

MutConnects(c) ==           \* mutant: a reconnect is taken for a resumed connection
    /\ socket = NoConn /\ link[c] = "new"
    /\ \A d \in 1 .. c - 1 : link[d] # "new"
    /\ socket' = c
    /\ link' = [link EXCEPT ![c] = "up"]
    /\ wire' = [wire EXCEPT ![c] = IF c = 1 THEN Registrations(handlers) ELSE <<>>]
    /\ UNCHANGED <<handlers, changes, rooms, call, work, fails>>
Connects(c) ==
    /\ socket = NoConn /\ link[c] = "new"
    /\ \A d \in 1 .. c - 1 : link[d] # "new"
    /\ socket' = c
    /\ link' = [link EXCEPT ![c] = "up"]
    /\ wire' = [wire EXCEPT ![c] = Registrations(handlers)]
    /\ UNCHANGED <<handlers, changes, rooms, call, work, fails>>

(* The connection breaks.                                                  *)
Breaks(c) ==
    /\ link[c] = "up"
    /\ link' = [link EXCEPT ![c] = "cut"]
    /\ call' = Noted(link', rooms)
    /\ UNCHANGED <<agentVars, rooms, work, fails>>

(* socket 'disconnect', and onSocketDisconnect.                            *)
AgentNotices ==
    /\ socket # NoConn
    /\ link[socket] # "up"
    /\ socket' = NoConn
    /\ UNCHANGED <<handlers, changes, link, wire, rooms, call, work, fails>>

(* The server gives the connection up: the socket leaves all its rooms.    *)
ServerNotices(c) ==
    /\ link[c] = "cut"
    /\ link' = [link EXCEPT ![c] = "gone"]
    /\ wire' = [wire EXCEPT ![c] = <<>>]
    /\ rooms' = [m \in Methods |-> rooms[m] \ {c}]
    /\ call' = Noted(link', rooms')
    /\ UNCHANGED <<handlers, socket, changes, work, fails>>

(* socket.on('rpc-register') and socket.on('rpc-unregister')               *)
ServerReads(c) ==
    /\ wire[c] # <<>>
    /\ LET msg == Head(wire[c])
       IN  rooms' = [rooms EXCEPT ![msg.method] =
                        IF msg.type = "rpc-register" THEN @ \union {c} ELSE @ \ {c}]
    /\ wire' = [wire EXCEPT ![c] = Tail(@)]
    /\ call' = Noted(link, rooms')
    /\ UNCHANGED <<handlers, socket, changes, link, work, fails>>

(* socket.on('rpc-request'), handleRequest: the handler runs, or the       *)
(* answer says that there is none.                                         *)
RpcRequest(k) ==
    /\ work[k] = "sent"
    /\ link[call[k].target] = "up"
    /\ work' = [work EXCEPT ![k] = IF call[k].method \in handlers THEN "running" ELSE "acked"]
    /\ UNCHANGED <<agentVars, link, rooms, call, fails>>

(* The handler has a result or has thrown: both are acknowledged.          *)
HandlerReturns(k) ==
    /\ work[k] = "running"
    /\ work' = [work EXCEPT ![k] = IF link[call[k].target] = "up" THEN "acked" ELSE "lost"]
    /\ UNCHANGED <<agentVars, link, rooms, call, fails>>

-----------------------------------------------------------------------------
(* The server.  socket.on('rpc-call')                                      *)
RpcCall(k, m) ==
    /\ call[k].phase = "none"
    /\ call' = [call EXCEPT ![k] = NewCall(m)]
    /\ UNCHANGED <<agentVars, link, rooms, work, fails>>

(* fetchRoomSockets reads the room, at once or after the pause between two *)
(* looks; what it read comes back a little later.                          *)
LookupReads(k) ==
    /\ call[k].phase = "lookup"
    /\ call' = [call EXCEPT ![k].phase = "looked", ![k].found = rooms[call[k].method]]
    /\ UNCHANGED <<agentVars, link, rooms, work, fails>>

(* A replica does not answer in time: nobody is found.                     *)
LookupFails(k) ==
    /\ call[k].phase = "lookup"
    /\ fails < MaxFails /\ fails' = fails + 1
    /\ call' = [call EXCEPT ![k].phase = "looked", ![k].found = {}, ![k].calm = @ /\ ~call[k].late]
    /\ UNCHANGED <<agentVars, link, rooms, work>>

(* RPC_RECONNECT_GRACE_MS have passed since the first look.                *)
GraceEnds(k) ==
    /\ call[k].phase \in {"lookup", "looked"}
    /\ call[k].grace /\ ~call[k].late
    /\ call' = [call EXCEPT ![k].late = TRUE,
                            ![k].calm = /\ @
                                        /\ rooms[call[k].method] # {}
                                        /\ call[k].phase = "looked" => call[k].found # {}]
    /\ UNCHANGED <<agentVars, link, rooms, work, fails>>

(* Somebody was found: the request goes to one of them.                    *)
LookupFinds(k) ==
    /\ call[k].phase = "looked"
    /\ \E c \in call[k].found :
          LET x == [NewCall(call[k].method) EXCEPT !.phase = "racing", !.target = c,
                                                 !.calm = call[k].calm]
          IN  call' = [call EXCEPT ![k] = [x EXCEPT !.calm = @ /\ ~Bothered(x, link, rooms)]]
    /\ work' = [work EXCEPT ![k] = "sent"]
    /\ UNCHANGED <<agentVars, link, rooms, fails>>

(* Nobody: waitForRoomMember looks again until the grace period is over,   *)
(* and has looked at least once itself.                                    *)
MutNeverGivesUp(x) == FALSE \* mutant: the deadline is not looked at
GivesUp(x) == x.late

LookupFindsNobody(k) ==
    /\ call[k].phase = "looked"
    /\ call[k].found = {}
    /\ call' = [call EXCEPT ![k] = IF GivesUp(@) THEN Answered(@, "not available")
                                   ELSE [@ EXCEPT !.phase = "lookup", !.grace = TRUE]]
    /\ UNCHANGED <<agentVars, link, rooms, work, fails>>

(* emitWithAck and the presence poll race.                                 *)
AckArrives(k) ==
    /\ Racing(k) /\ work[k] = "acked"
    /\ call' = [call EXCEPT ![k] = Answered(@, "ok")]
    /\ UNCHANGED <<agentVars, link, rooms, work, fails>>

AckTimesOut(k) ==
    /\ Racing(k)
    /\ call' = [call EXCEPT ![k] = Answered(@, "timeout")]
    /\ UNCHANGED <<agentVars, link, rooms, work, fails>>

(* Twice in a row the target is not there: the call is given up.           *)
MutMissed(x) == Answered(x, "disconnected")     \* mutant: the first miss is enough
Missed(x) == IF x.misses = 0 THEN [x EXCEPT !.misses = 1] ELSE Answered(x, "disconnected")

PresencePoll(k) ==
    /\ Racing(k)
    /\ call' = [call EXCEPT ![k] = IF @.target \in rooms[@.method] THEN [@ EXCEPT !.misses = 0]
                                   ELSE Missed(@)]
    /\ UNCHANGED <<agentVars, link, rooms, work, fails>>

PresencePollFails(k) ==
    /\ Racing(k)
    /\ fails < MaxFails /\ fails' = fails + 1
    /\ LET x == call[k]
       IN  call' = [call EXCEPT ![k] = Missed([x EXCEPT !.calm = x.calm /\ x.misses = 0])]
    /\ UNCHANGED <<agentVars, link, rooms, work>>

-----------------------------------------------------------------------------
(* The agent starts with its handlers set and no connection.               *)
Init ==
    /\ handlers \in SUBSET Methods
    /\ socket = NoConn
    /\ link = [c \in Conns |-> "new"]
    /\ wire = [c \in Conns |-> <<>>]
    /\ rooms = [m \in Methods |-> {}]
    /\ call = [k \in Calls |-> [NewCall("none") EXCEPT !.phase = "none"]]
    /\ work = [k \in Calls |-> "none"]
    /\ changes = 0 /\ fails = 0

Agent == (\E m \in Methods : RegisterHandler(m) \/ UnregisterHandler(m)) \/ AgentNotices

Network(c) == Connects(c) \/ Breaks(c) \/ ServerNotices(c) \/ ServerReads(c)

Looks(k) == LookupReads(k) \/ LookupFails(k) \/ GraceEnds(k) \/ LookupFinds(k) \/ LookupFindsNobody(k)

Races(k) == AckArrives(k) \/ AckTimesOut(k) \/ PresencePoll(k) \/ PresencePollFails(k)

Next ==
    \/ Agent
    \/ \E c \in Conns : Network(c)
    \/ \E k \in Calls : \/ \E m \in Methods : RpcCall(k, m)
                        \/ RpcRequest(k) \/ HandlerReturns(k)
                        \/ Looks(k) \/ Races(k)

(* The server's timers fire and a fetch comes back or fails.  Nothing is   *)
(* assumed of the agent, the network or the handlers.                      *)
Fairness ==
    \A k \in Calls : /\ WF_vars(LookupReads(k)) /\ WF_vars(LookupFinds(k))
                     /\ WF_vars(LookupFindsNobody(k)) /\ WF_vars(GraceEnds(k))
                     /\ WF_vars(AckTimesOut(k))

Spec == Init /\ [][Next]_vars /\ Fairness

-----------------------------------------------------------------------------
(* While the agent is connected and the server has handled all it sent,    *)
(* the agent is in the rooms of exactly the methods it has handlers for:   *)
(* whatever was registered, replaced or withdrawn while it had a socket,   *)
(* had none, or had one that was dead.                                     *)
RegistrationsAgree ==
    socket # NoConn /\ link[socket] = "up" /\ wire[socket] = <<>> =>
        \A m \in Methods : m \in handlers <=> socket \in rooms[m]

(* A call fails only for a reason: if the agent is in the room when the    *)
(* grace period ends and has not left again by the next look, if the       *)
(* socket that gets the request is alive and stays in the room, and if     *)
(* there are no two failed polls in a row, then the call is answered, by   *)
(* the agent or by the timeout of a handler that takes too long.           *)
CalmCallsAreAnswered ==
    \A k \in Calls : call[k].phase = "done" /\ call[k].calm =>
        call[k].answer \in {"ok", "timeout"}

(* Every call is answered, whatever becomes of the agent, its connection   *)
(* and the rooms meanwhile.                                                *)
EveryCallIsAnswered == \A k \in Calls : (call[k].phase # "none") ~> (call[k].phase = "done")

=============================================================================
