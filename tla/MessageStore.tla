---------------------------- MODULE MessageStore ----------------------------
(***************************************************************************)
(* The server side of one session's messages: the rows of SessionMessage,  *)
(* the counter Session.seq, the HTTP handler POST /v3/sessions/:id/messages*)
(* the socket handler 'message', and the fan-out of 'new-message' updates  *)
(* to the sockets in the session's rooms.                                  *)
(*                                                                         *)
(* Handlers interleave at every await.  What one database statement (or    *)
(* one transaction's commit) does is one step.  The database is Postgres   *)
(* at its default isolation: a transaction's reads see what is committed   *)
(* when they run, an UPDATE of Session holds the row until the transaction *)
(* ends, and @@unique([sessionId, localId]) makes the later of two equal   *)
(* inserts fail.  A session deleted under its writers is not modelled      *)
(* here.                                                                   *)
(***************************************************************************)
EXTENDS Naturals, Sequences, FiniteSets, Functions

CONSTANTS Ids,          \* messages; a message's localId, or its identity without one
          Batches,      \* bodies of POST requests: sequences of Ids
          SocketIds,    \* messages that senders put on the 'message' socket event
          Handlers,     \* requests the server works on at one time
          Sockets,      \* sockets that are in the session's rooms when connected
          NoSocket,     \* the sender of a request that is not a socket
          EmitCanFail,  \* may the database fail the loop that announces new rows?
          MaxSeq        \* bound: the socket handler allocates no seq beyond it

ASSUME BatchesAssumption == Batches \subseteq Seq(Ids)
ASSUME SocketIdsAssumption == SocketIds \subseteq Ids
ASSUME NoSocketAssumption == NoSocket \notin Sockets
ASSUME EmitCanFailAssumption == EmitCanFail \in BOOLEAN

VARIABLES sessionSeq,   \* Session.seq
          rows,         \* committed SessionMessage rows
          req,          \* what the handlers work on
          online,       \* sockets that are connected
          chan          \* updates sent to each socket and not yet handled by it

storeVars == <<sessionSeq, rows, req, online, chan>>

Row == [seq : Nat, id : Ids]

Free == [phase |-> "free", batch |-> <<>>, found |-> {}, todo |-> {},
         reply |-> {}, seq |-> 0, from |-> NoSocket, awaited |-> FALSE]

Request == [phase   : {"free", "post", "found", "emitting", "replied", "failed",
                       "message", "allocated"},
            batch   : Seq(Ids),
            found   : SUBSET Row,       \* rows the duplicate lookup returned
            todo    : SUBSET Row,       \* created rows whose update is not out yet
            reply   : SUBSET Row,       \* rows of the 200 response
            seq     : Nat,              \* seq allocated by the socket handler
            from    : Sockets \union {NoSocket},
            awaited : BOOLEAN]          \* a client waits for the response

IdsOf(R) == {r.id : r \in R}

(* GET /v3/sessions/:sessionId/messages?after_seq=n&limit=l: the oldest l  *)
(* rows after n, and whether there are more.                               *)
After(n) == {r \in rows : r.seq > n}

Page(n, l) == {r \in After(n) : Cardinality({q \in After(n) : q.seq < r.seq}) < l}

MutHasMore(n, l) == Cardinality(After(n)) > l + 1   \* mutant: off by one
HasMore(n, l) == Cardinality(After(n)) > l

(* A handler that has answered: the client takes the answer, or nobody     *)
(* waits for it any more.                                                  *)
MutEnded(q, phase) ==    \* mutant: the answer has neither status
    IF q.awaited THEN [q EXCEPT !.phase = "done"] ELSE Free
Ended(q, phase) == IF q.awaited THEN [q EXCEPT !.phase = phase] ELSE Free

(* After an emit comes the next user seq, or the answer.                   *)
Continue(q) == IF q.todo = {} THEN Ended(q, "replied") ELSE q

-----------------------------------------------------------------------------
(* POST /v3/sessions/:sessionId/messages                                   *)

PostArrive(h, batch, awaited) ==
    /\ req[h].phase = "free"
    /\ req' = [req EXCEPT ![h] = [Free EXCEPT !.phase = "post", !.batch = batch,
                                              !.awaited = awaited]]
    /\ UNCHANGED <<sessionSeq, rows, online, chan>>

(* tx.sessionMessage.findMany of the batch's localIds.                     *)
MutPostFind(h) ==        \* mutant: the lookup is not restricted to the localIds
    /\ req[h].phase = "post"
    /\ req' = [req EXCEPT ![h].phase = "found", ![h].found = rows]
    /\ UNCHANGED <<sessionSeq, rows, online, chan>>
PostFind(h) ==
    /\ req[h].phase = "post"
    /\ req' = [req EXCEPT ![h].phase = "found",
                          ![h].found = {r \in rows : r.id \in Range(req[h].batch)}]
    /\ UNCHANGED <<sessionSeq, rows, online, chan>>

(* The messages of the batch the lookup did not return, each once.         *)
NewIds(h) == Range(req[h].batch) \ IdsOf(req[h].found)

(* a stands before b in the deduplicated batch.                            *)
Precedes(batch, a, b) ==
    \E i \in DOMAIN batch : /\ batch[i] = a
                            /\ \A j \in 1 .. i : batch[j] # b

(* Consecutive seqs for the new messages, in the order of the batch.       *)
MutNumberings(h) ==      \* mutant: the range is counted with the messages found
    LET first == sessionSeq + Cardinality(NewIds(h)) + 1 - Cardinality(Range(req[h].batch))
    IN  {f \in [NewIds(h) -> first .. sessionSeq + Cardinality(NewIds(h))] :
            \A a, b \in NewIds(h) : /\ a # b => f[a] # f[b]
                                    /\ Precedes(req[h].batch, a, b) => f[a] <= f[b]}
Numberings(h) ==
    {f \in [NewIds(h) -> sessionSeq + 1 .. sessionSeq + Cardinality(NewIds(h))] :
        \A a, b \in NewIds(h) : /\ a # b => f[a] # f[b]
                                /\ Precedes(req[h].batch, a, b) => f[a] <= f[b]}

Numbered(f) == {[seq |-> f[id], id |-> id] : id \in DOMAIN f}

(* allocateSessionSeqBatch, the creates and the commit: from the UPDATE of *)
(* Session to the commit no other transaction can allocate, and nobody     *)
(* sees the rows before the commit.                                        *)
PostCommit(h) ==
    /\ req[h].phase = "found"
    /\ NewIds(h) \intersect IdsOf(rows) = {}
    /\ \E f \in Numberings(h) :
          /\ rows' = rows \union Numbered(f)
          /\ req' = [req EXCEPT ![h] =
                Continue([@ EXCEPT !.phase = "emitting", !.todo = Numbered(f),
                                   !.reply = req[h].found \union Numbered(f)])]
    /\ sessionSeq' = sessionSeq + Cardinality(NewIds(h))
    /\ UNCHANGED <<online, chan>>

(* A message of the batch was inserted since the lookup: the create breaks *)
(* the unique index, the transaction rolls back, the answer is a 500.      *)
PostConflict(h) ==
    /\ req[h].phase = "found"
    /\ NewIds(h) \intersect IdsOf(rows) # {}
    /\ req' = [req EXCEPT ![h] = Ended(@, "failed")]
    /\ UNCHANGED <<sessionSeq, rows, online, chan>>

(* The database fails the handler.  Before the commit nothing is stored;   *)
(* in the loop after it the rows stay and the remaining updates are lost.  *)
PostFail(h) ==
    /\ \/ req[h].phase \in {"post", "found"}
       \/ req[h].phase = "emitting" /\ req[h].from = NoSocket /\ EmitCanFail
    /\ req' = [req EXCEPT ![h] = Ended([@ EXCEPT !.todo = {}], "failed")]
    /\ UNCHANGED <<sessionSeq, rows, online, chan>>

(* eventRouter.emitUpdate to everyone in the session's rooms, except the   *)
(* socket a 'message' event came from; then the handler goes on.           *)
MutSent(h, r) ==         \* mutant: once for each room the socket is in
    [s \in Sockets |-> IF s \in online /\ s # req[h].from
                       THEN chan[s] \o <<r, r>> ELSE chan[s]]
Sent(h, r) ==
    [s \in Sockets |-> IF s \in online /\ s # req[h].from
                       THEN Append(chan[s], r) ELSE chan[s]]

Emit(h) ==
    /\ req[h].phase = "emitting"
    /\ \E r \in req[h].todo :
          /\ \A q \in req[h].todo : r.seq <= q.seq
          /\ chan' = Sent(h, r)
          /\ req' = [req EXCEPT ![h] = Continue([@ EXCEPT !.todo = req[h].todo \ {r}])]
    /\ UNCHANGED <<sessionSeq, rows, online>>

-----------------------------------------------------------------------------
(* socket.on('message'): one at a time per socket (receiveMessageLock), no *)
(* answer, and three statements that are not in a transaction.             *)

MessageArrive(h, id, s) ==
    /\ req[h].phase = "free"
    /\ s \in online
    /\ \A g \in Handlers : req[g].from # s
    /\ req' = [req EXCEPT ![h] = [Free EXCEPT !.phase = "message", !.batch = <<id>>,
                                              !.from = s]]
    /\ UNCHANGED <<sessionSeq, rows, online, chan>>

(* allocateSessionSeq                                                      *)
MutMessageAllocate(h) == \* mutant: the new count is not written back
    /\ req[h].phase = "message"
    /\ sessionSeq < MaxSeq
    /\ req' = [req EXCEPT ![h].phase = "allocated", ![h].seq = sessionSeq + 1]
    /\ UNCHANGED <<sessionSeq, rows, online, chan>>
MessageAllocate(h) ==
    /\ req[h].phase = "message"
    /\ sessionSeq < MaxSeq
    /\ sessionSeq' = sessionSeq + 1
    /\ req' = [req EXCEPT ![h].phase = "allocated", ![h].seq = sessionSeq + 1]
    /\ UNCHANGED <<rows, online, chan>>

(* The lookup of the localId and the create.  A create that loses to an    *)
(* equal insert after the lookup throws, and ends like a hit of the lookup:*)
(* nothing is stored, the seq stays unused.                                *)
MessageCreate(h) ==
    /\ req[h].phase = "allocated"
    /\ LET r == [seq |-> req[h].seq, id |-> req[h].batch[1]]
       IN  IF r.id \in IdsOf(rows)
           THEN /\ req' = [req EXCEPT ![h] = Free]
                /\ rows' = rows
           ELSE /\ rows' = rows \union {r}
                /\ req' = [req EXCEPT ![h].phase = "emitting", ![h].todo = {r}]
    /\ UNCHANGED <<sessionSeq, online, chan>>

(* The database fails the handler: the error is logged, the message lost.  *)
MessageFail(h) ==
    /\ req[h].phase \in {"message", "allocated"}
    /\ req' = [req EXCEPT ![h] = Free]
    /\ UNCHANGED <<sessionSeq, rows, online, chan>>

-----------------------------------------------------------------------------
(* The clients' ends of requests and sockets.                              *)

(* The client reads the answer.                                            *)
Answered(h) == req[h].awaited /\ req[h].phase \in {"replied", "failed"}

TakeAnswer(h) ==
    /\ Answered(h)
    /\ req' = [req EXCEPT ![h] = Free]
    /\ UNCHANGED <<sessionSeq, rows, online, chan>>

(* The client gives up (its 60 s are over, or the connection broke); the   *)
(* handler goes on.                                                        *)
Abandon(h) ==
    /\ req[h].awaited
    /\ req' = [req EXCEPT ![h] = IF Answered(h) THEN Free
                                                ELSE [@ EXCEPT !.awaited = FALSE]]
    /\ UNCHANGED <<sessionSeq, rows, online, chan>>

Connect(s) ==
    /\ s \notin online
    /\ online' = online \union {s}
    /\ UNCHANGED <<sessionSeq, rows, req, chan>>

(* What was sent to a socket and did not arrive is gone.                   *)
Disconnect(s) ==
    /\ s \in online
    /\ online' = online \ {s}
    /\ chan' = [chan EXCEPT ![s] = <<>>]
    /\ UNCHANGED <<sessionSeq, rows, req>>

Deliver(s) ==
    /\ chan[s] # <<>>
    /\ chan' = [chan EXCEPT ![s] = Tail(@)]
    /\ UNCHANGED <<sessionSeq, rows, req, online>>

(* The process dies: every handler with it, and every socket.              *)
Crash ==
    /\ req' = [h \in Handlers |-> Ended([req[h] EXCEPT !.todo = {}], "failed")]
    /\ online' = {}
    /\ chan' = [s \in Sockets |-> <<>>]
    /\ UNCHANGED <<sessionSeq, rows>>

-----------------------------------------------------------------------------
StoreInit ==
    /\ sessionSeq = 0
    /\ rows = {}
    /\ req = [h \in Handlers |-> Free]
    /\ online = {}
    /\ chan = [s \in Sockets |-> <<>>]

(* What the server does of itself.                                         *)
ServerStep(h) == \/ PostFind(h) \/ PostCommit(h) \/ PostConflict(h) \/ PostFail(h)
                 \/ Emit(h)
                 \/ MessageAllocate(h) \/ MessageCreate(h) \/ MessageFail(h)

(* Clients that send any batch and any message, at any time.               *)
ClientStep == \/ \E h \in Handlers :
                    \/ \E batch \in Batches : PostArrive(h, batch, TRUE)
                    \/ \E id \in SocketIds, s \in Sockets : MessageArrive(h, id, s)
                    \/ TakeAnswer(h)
                    \/ Abandon(h)
              \/ \E s \in Sockets : Connect(s) \/ Disconnect(s) \/ Deliver(s)

StoreNext == (\E h \in Handlers : ServerStep(h)) \/ ClientStep \/ Crash

StoreSpec == StoreInit /\ [][StoreNext]_storeVars

-----------------------------------------------------------------------------
(* Every variable has its type.                                            *)
StoreTypeOK ==
    /\ sessionSeq \in Nat
    /\ rows \subseteq Row
    /\ req \in [Handlers -> Request]
    /\ online \subseteq Sockets
    /\ chan \in [Sockets -> Seq(Row)]

(* A message is stored at most once and a seq is used at most once, however*)
(* often its request is repeated and whatever races it.                    *)
OneRowPerMessage == \A r, q \in rows : (r.id = q.id \/ r.seq = q.seq) => r = q

(* A 200 answer to a POST tells the truth: each message of the batch has   *)
(* a committed row, and the answer carries exactly those rows.             *)
ReplyIsTrue ==
    \A h \in Handlers : req[h].phase = "replied" =>
        /\ req[h].reply \subseteq rows
        /\ IdsOf(req[h].reply) = Range(req[h].batch)

(* Clients hear only of committed messages, and a socket hears of each at  *)
(* most once.                                                              *)
UpdatesAreNews ==
    \A s \in Sockets : \A i, j \in DOMAIN chan[s] :
        chan[s][i] \in rows /\ (i # j => chan[s][i] # chan[s][j])

Log == INSTANCE SessionLog WITH log <- rows

(* The store implements the abstract log of the session.                   *)
ImplementsLog == Log!Spec

(* Without the socket handler it implements the log that a cursor reader   *)
(* needs: nothing becomes visible below what is visible already.           *)
ImplementsOrderedLog == Log!OrderedSpec

=============================================================================
