---------------------------- MODULE AgentOutbox ----------------------------
(***************************************************************************)
(* The sending half of ApiSessionClient (agentrejoin-cli/src/api/          *)
(* apiSession.ts): messages are queued in pendingOutbox and flushed by the *)
(* command of sendSync, in batches, over an HTTP connection that can fail  *)
(* before the request arrives, while the server works on it, or on the way *)
(* back.  A request the client gave up may still be carried out: it then   *)
(* races its own retry on the server.                                      *)
(***************************************************************************)
EXTENDS MessageStore, SyncOps

CONSTANTS AgentIds,     \* localIds the agent enqueues
          BatchSize,    \* MAX_OUTBOX_BATCH_SIZE
          NoHandler,    \* the request has not reached the server
          MaxEnqueued   \* bound: messages enqueued in one behaviour

ASSUME BatchSizeAssumption == BatchSize \in Nat \ {0}
ASSUME AgentIdsAssumption == AgentIds \subseteq Ids

VARIABLES outbox,       \* pendingOutbox
          sendSync,     \* the InvalidateSync around flushOutbox
          post,         \* the POST flushOutbox awaits
          enqueued,     \* history: every message ever enqueued, in order
          quiet,        \* history: enqueued without an invalidation since
          crowded       \* history: more than one batch was outstanding once

outVars == <<outbox, sendSync, post, enqueued, quiet, crowded>>
outboxVars == <<storeVars, outVars>>

NoPost == [phase |-> "none", batch |-> <<>>, start |-> 0, h |-> NoHandler]

(* The newest messages first, at most BatchSize of them.                   *)
MutNewest(box) ==        \* mutant: off by one in where the batch starts
    [phase |-> "sending", batch |-> box, start |-> Len(box) - BatchSize, h |-> NoHandler]
MutNewestOnly(box) ==    \* mutant: one message at a time, the newest first
    [phase |-> "sending", batch |-> <<box[Len(box)]>>,
     start |-> Len(box) - 1, h |-> NoHandler]
Newest(box) ==
    LET n == IF Len(box) < BatchSize THEN Len(box) ELSE BatchSize
    IN  [phase |-> "sending", batch |-> SubSeq(box, Len(box) - n + 1, Len(box)),
         start |-> Len(box) - n, h |-> NoHandler]

(* pendingOutbox.splice(batchStart, batch.length)                          *)
MutSpliced(box, start, n) == SubSeq(box, n + 1, Len(box))  \* mutant: cut from the front
Spliced(box, start, n) == SubSeq(box, 1, start) \o SubSeq(box, start + n + 1, Len(box))

(* flushOutbox from the top of its loop to the next await, or to its end.  *)
FlushLoop(s, box) ==
    IF box = <<>> THEN post' = NoPost /\ sendSync' = CommandReturned(s)
                  ELSE post' = Newest(box) /\ sendSync' = s

InvalidateSend(box) ==
    IF Starts(sendSync) THEN FlushLoop(Invalidated(sendSync), box)
                        ELSE sendSync' = Invalidated(sendSync) /\ post' = post

-----------------------------------------------------------------------------
(* enqueueMessage(content)                                                 *)
Enqueue(id) ==
    /\ Len(enqueued) < MaxEnqueued
    /\ outbox' = Append(outbox, id)
    /\ enqueued' = Append(enqueued, id)
    /\ quiet' = (quiet /\ sendSync.stopped)
    /\ crowded' = (crowded \/ Len(outbox') > BatchSize)
    /\ InvalidateSend(outbox')
    /\ UNCHANGED storeVars

(* enqueueMessage(content, false): the caller enqueues more before it      *)
(* invalidates, and awaits an attachment's upload in between.              *)
EnqueueQuietly(id) ==
    /\ Len(enqueued) < MaxEnqueued
    /\ outbox' = Append(outbox, id)
    /\ enqueued' = Append(enqueued, id)
    /\ quiet' = TRUE
    /\ crowded' = (crowded \/ Len(outbox') > BatchSize)
    /\ UNCHANGED <<storeVars, sendSync, post>>

(* sendSync.invalidate() at the end of such a sequence.                    *)
InvalidateAfterQuiet ==
    /\ quiet
    /\ quiet' = FALSE
    /\ InvalidateSend(outbox)
    /\ UNCHANGED <<storeVars, outbox, enqueued, crowded>>

(* The request reaches a handler of the server.                            *)
PostReaches(h) ==
    /\ post.phase = "sending"
    /\ PostArrive(h, post.batch, TRUE)
    /\ post' = [post EXCEPT !.phase = "waiting", !.h = h]
    /\ UNCHANGED <<outbox, sendSync, enqueued, quiet, crowded>>

(* The 200 answer: the batch leaves the outbox, the loop goes on (whether  *)
(* sendSync was stopped or not).                                           *)
PostOk ==
    /\ post.phase = "waiting"
    /\ req[post.h].phase = "replied"
    /\ TakeAnswer(post.h)
    /\ outbox' = Spliced(outbox, post.start, Len(post.batch))
    /\ FlushLoop(sendSync, outbox')
    /\ UNCHANGED <<enqueued, quiet, crowded>>

(* axios throws: no connection, an error status, 60 s without an answer.   *)
PostThrows ==
    /\ \/ /\ post.phase = "sending"
          /\ UNCHANGED storeVars
       \/ /\ post.phase = "waiting"
          /\ Abandon(post.h)
    /\ post' = NoPost
    /\ sendSync' = CommandThrew(sendSync)
    /\ UNCHANGED <<outbox, enqueued, quiet, crowded>>

SendRetry ==
    /\ sendSync.phase = "backoff"
    /\ IF Retries(sendSync) THEN FlushLoop(Retried(sendSync), outbox)
                            ELSE sendSync' = Retried(sendSync) /\ post' = post
    /\ UNCHANGED <<storeVars, outbox, enqueued, quiet, crowded>>

SendSettle ==
    /\ sendSync.phase = "settling"
    /\ IF Reruns(sendSync) THEN FlushLoop(Settled(sendSync), outbox)
                           ELSE sendSync' = Settled(sendSync) /\ post' = post
    /\ UNCHANGED <<storeVars, outbox, enqueued, quiet, crowded>>

(* close()                                                                 *)
CloseSend ==
    /\ ~sendSync.stopped
    /\ sendSync' = Stopped(sendSync)
    /\ UNCHANGED <<storeVars, outbox, post, enqueued, quiet, crowded>>

-----------------------------------------------------------------------------
OutboxInit ==
    /\ outbox = <<>>
    /\ sendSync = NewSync
    /\ post = NoPost
    /\ enqueued = <<>>
    /\ quiet = FALSE
    /\ crowded = FALSE

OutboxStep ==
    \/ \E id \in AgentIds : Enqueue(id) \/ EnqueueQuietly(id)
    \/ InvalidateAfterQuiet
    \/ \E h \in Handlers : PostReaches(h)
    \/ PostOk
    \/ PostThrows
    \/ SendRetry
    \/ SendSettle

OutboxOthers == ((\E h \in Handlers : ServerStep(h)) \/ Crash) /\ UNCHANGED outVars

OutboxStart == StoreInit /\ OutboxInit

OutboxNext == OutboxStep \/ CloseSend \/ OutboxOthers

OutboxSpec == OutboxStart /\ [][OutboxNext]_outboxVars

(* One of the handlers' steps, for a client that still waits.              *)
InTime(h, Step(_)) == req[h].awaited /\ Step(h) /\ UNCHANGED outVars

PostDecide(h) == PostCommit(h) \/ PostConflict(h)

(* Timers and continuations run, a request that is not answered times out, *)
(* no handler hangs, and neither the network nor the database is for ever  *)
(* down or for ever slower than the client's patience.                     *)
SendFairness ==
    /\ WF_outboxVars(SendRetry) /\ WF_outboxVars(SendSettle)
    /\ WF_outboxVars(PostThrows)
    /\ SF_outboxVars(PostOk)
    /\ SF_outboxVars(\E h \in Handlers : PostReaches(h))
    /\ \A h \in Handlers : WF_outboxVars(ServerStep(h) /\ UNCHANGED outVars)
    /\ SF_outboxVars(\E h \in Handlers : InTime(h, PostFind))
    /\ SF_outboxVars(\E h \in Handlers : InTime(h, PostDecide))
    /\ SF_outboxVars(\E h \in Handlers : InTime(h, Emit))

OutboxLiveSpec == OutboxSpec /\ SendFairness

-----------------------------------------------------------------------------
(* Every variable of the client has its type.                              *)
OutboxTypeOK ==
    /\ outbox \in Seq(AgentIds) /\ enqueued \in Seq(AgentIds)
    /\ sendSync \in SyncState
    /\ post \in [phase : {"none", "sending", "waiting"}, batch : Seq(AgentIds),
                 start : Nat, h : Handlers \union {NoHandler}]
    /\ quiet \in BOOLEAN /\ crowded \in BOOLEAN

(* What was enqueued is still in the outbox or stored: no failed request,  *)
(* lost answer or splice of a batch drops a message.                       *)
NothingLost == Range(enqueued) \subseteq Range(outbox) \union IdsOf(rows)

(* The batch in flight is where flushOutbox will cut it out: messages that *)
(* are enqueued while the request is under way do not move it.             *)
BatchStaysInPlace ==
    post.phase # "none" =>
        post.batch = SubSeq(outbox, post.start + 1, post.start + Len(post.batch))

(* While no more than one batch is ever outstanding, messages get their    *)
(* seqs in the order in which they were first enqueued, across failures,   *)
(* retries and requests that outlive their client's patience.              *)
StoredInOrder ==
    ~crowded => \A r, q \in rows : Precedes(enqueued, r.id, q.id) => r.seq <= q.seq

(* Every message is stored in the end, unless the client is closed or      *)
(* keeps quiet about it.                                                   *)
EveryMessageIsStored ==
    \A id \in AgentIds :
        (id \in Range(enqueued)) ~> (id \in IdsOf(rows) \/ sendSync.stopped \/ quiet)

=============================================================================
