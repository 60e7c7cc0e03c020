---------------------------- MODULE AgentSession ----------------------------
(***************************************************************************)
(* ApiSessionClient as a whole: AgentOutbox and AgentInbox side by side on *)
(* one server and one socket.  The client's own messages come back to it   *)
(* as updates and in fetched pages, between those of the other writers,    *)
(* and close() ends both halves at once.                                   *)
(***************************************************************************)
EXTENDS AgentOutbox, AgentInbox

sessionVars == <<storeVars, outVars, inVars>>

(* close(): both loops stop, the socket closes.                            *)
Close ==
    /\ started
    /\ ~receiveSync.stopped
    /\ sendSync' = Stopped(sendSync)
    /\ receiveSync' = Stopped(receiveSync)
    /\ IF Cli \in online THEN Disconnect(Cli) ELSE UNCHANGED storeVars
    /\ UNCHANGED <<outbox, post, enqueued, quiet, crowded, started, lastSeq, get, routed, startSeq>>

(* A mutant in which the sender moves the receive cursor past its own      *)
(* messages, as docs/plans/cli-v3-messages-api.md planned it.              *)
MutSendStep ==
    /\ OutboxStep
    /\ lastSeq' = IF PostOk THEN Highest(lastSeq, req[post.h].reply) ELSE lastSeq
    /\ UNCHANGED <<started, receiveSync, get, routed, startSeq>>

SendStep == OutboxStep /\ UNCHANGED inVars

ReceiveStep == InboxStep /\ UNCHANGED outVars

Others == (OthersStep \/ OthersConnect \/ InboxServer) /\ UNCHANGED outVars

SessionInit == StoreInit /\ OutboxInit /\ InboxInit

SessionNext == (started /\ SendStep) \/ ReceiveStep \/ Others \/ Close

SessionSpec == SessionInit /\ [][SessionNext]_sessionVars

(* Each half on its own, for liveness: an agent that has not begun to      *)
(* listen sends into an empty session, or one that has nothing to send     *)
(* listens to others, whose requests come one at a time.                   *)
Busy == {h \in Handlers : req[h].phase # "free"}

SendsAlone == ~started /\ OutboxNext /\ UNCHANGED inVars

ListensAlone == InboxNext /\ Cardinality(Busy') <= 1 /\ UNCHANGED outVars

HalvesNext ==
    \/ enqueued = <<>> /\ ListensAlone
    \/ enqueued # <<>> /\ SendsAlone
    \/ sessionSeq = 0 /\ Busy = {} /\ SendsAlone

(* SendFairness and ReceiveFairness, where a strong condition on one half  *)
(* is joined with one on the other: only one of the two is ever enabled.   *)
Send(A) == A /\ UNCHANGED inVars
Listen(A) == A /\ UNCHANGED outVars

HalvesFairness ==
    /\ WF_outboxVars(SendRetry) /\ WF_outboxVars(SendSettle) /\ WF_outboxVars(PostThrows)
    /\ WF_inboxVars(ReceiveRetry) /\ WF_inboxVars(ReceiveSettle) /\ WF_inboxVars(CliConnect)
    /\ \A h \in Handlers : WF_sessionVars(Send(ServerStep(h)) /\ UNCHANGED outVars)
    /\ SF_sessionVars(Send(PostOk) \/ Listen(FetchContinues))
    /\ SF_sessionVars(Send(\E h \in Handlers : PostReaches(h)) \/ Listen(GetServed))
    /\ SF_sessionVars(Send(\E h \in Handlers : InTime(h, PostFind)) \/ Listen(UpdateNewMessage))
    /\ SF_sessionVars(Send(\E h \in Handlers : InTime(h, PostDecide)))
    /\ SF_sessionVars(Send(\E h \in Handlers : InTime(h, Emit)))

HalvesSpec == SessionInit /\ [][HalvesNext]_sessionVars /\ HalvesFairness

=============================================================================
