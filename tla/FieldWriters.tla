---------------------------- MODULE FieldWriters ----------------------------
(***************************************************************************)
(* Who writes the versioned fields.  Those of a session: agents, with      *)
(* updateMetadata and updateAgentState of ApiSessionClient (one call at a  *)
(* time under an AsyncLock), and apps, with sessionArchive and             *)
(* sessionUpdateAgentModesMetadata.  Those of a machine: daemons, with     *)
(* updateMachineMetadata and updateDaemonState of ApiMachineClient (any    *)
(* number of calls at a time, and no check of the version of an update),   *)
(* and apps, with machineUpdateMetadata.  Agents and daemons repeat a call *)
(* with backoff() until it is answered; apps make three attempts.          *)
(*                                                                         *)
(* Every change is made once, by one call.  An app's copy of the field is  *)
(* not modelled: a call starts from any version, since the app may have    *)
(* heard of any.  socket.io keeps what is sent offline until it connects,  *)
(* and rejects a call that was sent when the connection is lost before its *)
(* answer.                                                                 *)
(***************************************************************************)
EXTENDS VersionedField

CONSTANTS Agents,       \* ApiSessionClients; for a machine's field ApiMachineClients
          Apps,         \* app clients
          ChangeOf,     \* the writer that makes each change
          MaxUpsets     \* statements failed, connections lost and server restarts

ASSUME WritersAssumption == Writers = Agents \union Apps /\ Agents \intersect Apps = {}
ASSUME AgentsListenAssumption == Listeners = Agents
ASSUME ChangeOfAssumption == ChangeOf \in [Changes -> Writers]
ASSUME MaxUpsetsAssumption == MaxUpsets \in Nat

MaxAttempts == 3

VARIABLES copy,         \* the agents' copies of the field, with its version
          queue,        \* the calls in each agent's lock, the running one first
          call,         \* the call that makes each change
          upsets        \* failures so far

writerVars == <<copy, queue, call, upsets>>
allVars == <<fieldVars, writerVars>>

(* A version with its value.  What a request carries is that of the moment *)
(* it is made, whatever the writer hears until it arrives.                 *)
Row == [version : Nat, value : Value]

(* phase of a call:                                                        *)
(*   "none"     not made yet                                               *)
(*   "locked"   it waits for the lock; "next": the lock passes to it       *)
(*   "sent"     emitWithAck was called; socket.io may still buffer it      *)
(*   "waiting"  the request is with the server                             *)
(*   "backoff"  the attempt failed; the next one comes after a delay       *)
(*   "acked"    it ended with 'success'; "dropped": it ended otherwise     *)
(* Its request is kept until the server has it.                            *)
Call == [phase   : {"none", "locked", "next", "sent", "waiting", "backoff", "acked", "dropped"},
         attempt : 0 .. MaxAttempts - 1,
         ask     : Row]

NoRow == [version |-> 0, value |-> {}]

At(phase) == [phase |-> phase, attempt |-> 0, ask |-> NoRow]

Made(c) == call[c].phase # "none"
Over(c) == call[c].phase \in {"acked", "dropped"}

CallsOf(w) == {c \in Changes : ChangeOf[c] = w}

(* A copy that takes the row of a packet p; and one that takes a newer one *)
(* only, as an agent does with an update, and with a mismatch.             *)
RowOf(p) == [version |-> p.version, value |-> p.value]

MutNewer(row, p) ==      \* mutant: the new version, with the old value
    IF p.version > row.version THEN [row EXCEPT !.version = p.version] ELSE row
Newer(row, p) == IF p.version > row.version THEN RowOf(p) ELSE row

(* The handler of c is applied to a row, and the result is sent.           *)
Sends(c, row) == [call EXCEPT ![c].phase = "sent",
                              ![c].ask = [row EXCEPT !.value = @ \union {c}]]

(* The call c ends in a phase; a lock wakes the next call.                 *)
MutCallEnds(w, c, end) ==      \* mutant: wakes nobody
    /\ call' = [call EXCEPT ![c] = At(end)]
    /\ queue' = [queue EXCEPT ![w] = IF @ = <<>> THEN @ ELSE Tail(@)]
CallEnds(w, c, end) ==
    LET woken == IF Len(queue[w]) > 1 THEN {queue[w][2]} ELSE {}
    IN  /\ call' = [d \in Changes |-> IF d \in woken THEN At("next")
                                      ELSE IF d = c THEN At(end)
                                      ELSE call[d]]
        /\ queue' = [queue EXCEPT ![w] = IF @ = <<>> THEN @ ELSE Tail(@)]

-----------------------------------------------------------------------------
(* updateMetadata(handler), updateMachineMetadata(handler).                *)
AgentCalls(w, c) ==
    /\ call[c].phase = "none" /\ ChangeOf[c] = w
    /\ call' = IF queue[w] = <<>> THEN Sends(c, copy[w])
                                  ELSE [call EXCEPT ![c] = At("locked")]
    /\ queue' = IF kind = "session" THEN [queue EXCEPT ![w] = Append(@, c)] ELSE queue
    /\ UNCHANGED <<fieldVars, copy, upsets>>

(* The delay, or the timer of the lock, is over.                           *)
AgentSends(w, c) ==
    /\ call[c].phase \in {"backoff", "next"} /\ ChangeOf[c] = w
    /\ call' = Sends(c, copy[w])
    /\ UNCHANGED <<fieldVars, copy, queue, upsets>>

(* The request of a call, of an agent or an app, gets to a handler.        *)
Reaches(c, h) ==
    /\ call[c].phase = "sent"
    /\ FieldArrive(h, ChangeOf[c], c, call[c].ask.version, call[c].ask.value)
    /\ call' = [call EXCEPT ![c].phase = "waiting", ![c].ask = NoRow]
    /\ UNCHANGED <<copy, queue, upsets>>

(* An 'update' of the socket: a daemon takes it whatever its version.      *)
AgentHearsUpdate(w) ==
    /\ FieldHear(w) /\ Head(inbox[w]).type = "update"
    /\ copy' = [copy EXCEPT ![w] = IF kind = "session" THEN Newer(@, Head(inbox[w]))
                                                       ELSE RowOf(Head(inbox[w]))]
    /\ UNCHANGED <<queue, call, upsets>>

(* The answer to a call.  A success is adopted whatever was heard before;  *)
(* an 'error' ends the call.                                               *)
AgentHearsAnswer(w) ==
    /\ FieldHear(w)
    /\ LET p == Head(inbox[w])
       IN  \/ /\ p.type = "success"
              /\ copy' = [copy EXCEPT ![w] = RowOf(p)]
              /\ CallEnds(w, p.call, "acked")
           \/ /\ p.type = "mismatch"
              /\ copy' = [copy EXCEPT ![w] = Newer(@, p)]
              /\ call' = [call EXCEPT ![p.call] = At("backoff")]
              /\ queue' = queue
           \/ /\ p.type = "error"
              /\ CallEnds(w, p.call, "dropped")
              /\ copy' = copy
    /\ UNCHANGED upsets

-----------------------------------------------------------------------------
(* sessionArchive, sessionSetAgentModes, machineUpdateMetadata: from the   *)
(* row that the app has, which may be of any version.                      *)
AppCalls(w, c, v) ==
    /\ call[c].phase = "none" /\ ChangeOf[c] = w
    /\ call' = Sends(c, [version |-> v, value |-> ValueAt(v)])
    /\ UNCHANGED <<fieldVars, copy, queue, upsets>>

(* The next attempt, from the row the answer carries.                      *)
AppTriesAgain(w) ==
    /\ FieldHear(w) /\ Head(inbox[w]).type = "mismatch"
    /\ LET p == Head(inbox[w])
       IN  /\ call[p.call].attempt < MaxAttempts - 1
           /\ call' = [Sends(p.call, RowOf(p)) EXCEPT ![p.call].attempt = @ + 1]
    /\ UNCHANGED <<copy, queue, upsets>>

(* The call ends: with success, with an error, with the last mismatch, or, *)
(* in a session's field, with any mismatch when newer picks of the user    *)
(* replaced the patch.                                                     *)
AppEnds(w) ==
    /\ FieldHear(w)
    /\ LET p == Head(inbox[w])
       IN  /\ p.type = "mismatch" =>
                  (kind = "session" \/ call[p.call].attempt = MaxAttempts - 1)
           /\ call' = [call EXCEPT ![p.call] =
                           At(IF p.type = "success" THEN "acked" ELSE "dropped")]
    /\ UNCHANGED <<copy, queue, upsets>>

-----------------------------------------------------------------------------
Upset == upsets < MaxUpsets /\ upsets' = upsets + 1

StatementFails(h) == FieldFail(h) /\ Upset /\ UNCHANGED <<copy, queue, call>>

(* The calls of the writers W that were sent over their connections are    *)
(* rejected: backoff() tries again, an app's call ends.                    *)
CallsReject(W) ==
    /\ call' = [c \in Changes |->
           IF ChangeOf[c] \in W \intersect online /\ call[c].phase \in {"sent", "waiting"}
           THEN At(IF ChangeOf[c] \in Agents THEN "backoff" ELSE "dropped")
           ELSE call[c]]
    /\ Upset
    /\ UNCHANGED <<copy, queue>>

ConnectionLost(w) == FieldDisconnect(w) /\ CallsReject({w})

(* The process ends with its handlers; what was written stays.             *)
ServerRestarts ==
    /\ online # {}
    /\ req' = [h \in Handlers |-> Free]
    /\ online' = {}
    /\ inbox' = [w \in Writers |-> <<>>]
    /\ CallsReject(Writers)
    /\ UNCHANGED <<kind, history, userSeq>>

Connects(w) == FieldConnect(w) /\ UNCHANGED writerVars
Serves(h)   == FieldServer(h) /\ UNCHANGED writerVars

-----------------------------------------------------------------------------
Init ==
    /\ FieldInit
    /\ copy = [w \in Agents |-> NoRow]
    /\ queue = [w \in Agents |-> <<>>]
    /\ call = [c \in Changes |-> At("none")]
    /\ upsets = 0

AgentStep(w) ==
    \/ \E c \in Changes : AgentCalls(w, c) \/ AgentSends(w, c)
    \/ AgentHearsUpdate(w)
    \/ AgentHearsAnswer(w)

AppStep(w) ==
    \/ \E c \in Changes, v \in 0 .. Version : AppCalls(w, c, v)
    \/ AppTriesAgain(w)
    \/ AppEnds(w)

Next ==
    \/ \E w \in Agents : AgentStep(w)
    \/ \E w \in Apps : AppStep(w)
    \/ \E c \in Changes, h \in Handlers : Reaches(c, h)
    \/ \E h \in Handlers : Serves(h) \/ StatementFails(h)
    \/ \E w \in Writers : Connects(w) \/ ConnectionLost(w)
    \/ ServerRestarts

Spec == Init /\ [][Next]_allVars

(* Timers fire, what is on its way arrives and is handled, the server works*)
(* on what it has accepted, and a closed connection is opened again.  No   *)
(* step that fails, and no new call, has to happen.                        *)
Fairness ==
    /\ \A w \in Agents : /\ WF_allVars(\E c \in Changes : AgentSends(w, c))
                         /\ WF_allVars(AgentHearsUpdate(w) \/ AgentHearsAnswer(w))
    /\ \A w \in Apps : WF_allVars(AppTriesAgain(w) \/ AppEnds(w))
    /\ \A c \in Changes : WF_allVars(\E h \in Handlers : Reaches(c, h))
    /\ \A h \in Handlers : WF_allVars(Serves(h))
    /\ \A w \in Writers : WF_allVars(Connects(w))

FairSpec == Spec /\ Fairness

-----------------------------------------------------------------------------
(* Every variable has its type; a session's lock has the calls of its agent*)
(* that go on, each once, of which the first, and no other, has got it.    *)
WritersTypeOK ==
    /\ FieldTypeOK
    /\ copy \in [Agents -> Row]
    /\ queue \in [Agents -> Seq(Changes)]
    /\ call \in [Changes -> Call]
    /\ upsets \in 0 .. MaxUpsets
    /\ \A w \in Agents :
           /\ kind = "session" => {queue[w][i] : i \in DOMAIN queue[w]}
                                      = {c \in CallsOf(w) : Made(c) /\ ~Over(c)}
           /\ \A i \in DOMAIN queue[w] : call[queue[w][i]].phase = "locked" <=> i > 1

(* Whoever has a version of the field has the value that the server had    *)
(* with that version: the agents, and everyone a packet is on its way to,  *)
(* whatever was lost, repeated or overtaken.                               *)
CopiesAreHistory ==
    /\ PacketsAreHistory
    /\ \A w \in Agents : /\ copy[w].version <= Version
                         /\ copy[w].value = ValueAt(copy[w].version)

(* A change that was acknowledged is in the field, and stays there through *)
(* the writes of everyone else.                                            *)
AckedStays == \A c \in Changes : call[c].phase = "acked" => c \in ValueAt(Version)

(* Every call ends: the lock of an agent passes on to the next call, and   *)
(* conflicting writers do not keep each other from finishing.  Each change *)
(* is one call, made once, so it is the same to say that there is always a *)
(* later moment at which no call goes on.                                  *)
EveryCallEnds == []<>(\A c \in Changes : Made(c) => Over(c))
=============================================================================
