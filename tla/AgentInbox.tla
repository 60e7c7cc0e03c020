----------------------------- MODULE AgentInbox -----------------------------
(***************************************************************************)
(* The receiving half of ApiSessionClient (agentrejoin-cli/src/api/        *)
(* apiSession.ts): a cursor lastSeq, the socket's 'update' handler with    *)
(* its fast path for the next message in line, and fetchMessages, the      *)
(* command of receiveSync, which pages through everything after the cursor.*)
(* Everybody else who writes to the session does so at any time through    *)
(* the handlers of MessageStore.                                           *)
(***************************************************************************)
EXTENDS MessageStore, SyncOps

CONSTANTS Cli,          \* the agent's session-scoped socket
          PageSize      \* the limit fetchMessages asks for

ASSUME CliAssumption == Cli \in Sockets
ASSUME PageSizeAssumption == PageSize \in Nat \ {0}

VARIABLES started,      \* the ApiSessionClient exists
          lastSeq,      \* the cursor
          receiveSync,  \* the InvalidateSync around fetchMessages
          get,          \* the GET fetchMessages awaits
          routed,       \* what routeIncomingMessage was given, in order
          startSeq      \* history: the cursor the client was created with

inVars == <<started, lastSeq, receiveSync, get, routed, startSeq>>
inboxVars == <<storeVars, inVars>>

NoGet == [phase |-> "none", after |-> 0, page |-> {}, more |-> FALSE]

MutGetAfter(n) == [phase |-> "sent", after |-> n - 1, page |-> {}, more |-> FALSE]  \* mutant
GetAfter(n) == [phase |-> "sent", after |-> n, page |-> {}, more |-> FALSE]

(* fetchMessages starts: afterSeq is the cursor at this moment.            *)
FetchStarts(s) == get' = GetAfter(lastSeq) /\ receiveSync' = s

InvalidateReceive ==
    IF Starts(receiveSync) THEN FetchStarts(Invalidated(receiveSync))
                           ELSE receiveSync' = Invalidated(receiveSync) /\ get' = get

Highest(n, R) == IF R = {} THEN n ELSE CHOOSE m \in {r.seq : r \in R} :
                                          \A r \in R : r.seq <= m

(* The rows as the sequence the server answers: ORDER BY seq ASC.          *)
MutBySeq(R) == [i \in 1 .. Cardinality(R) |->     \* mutant: the newest first
    CHOOSE r \in R : Cardinality({q \in R : q.seq > r.seq}) = i - 1]
BySeq(R) == [i \in 1 .. Cardinality(R) |->
                CHOOSE r \in R : Cardinality({q \in R : q.seq < r.seq}) = i - 1]

-----------------------------------------------------------------------------
(* The session was read or created over HTTP; the client begins at its seq.*)
Start ==
    /\ ~started
    /\ started' = TRUE
    /\ lastSeq' = sessionSeq
    /\ startSeq' = sessionSeq
    /\ UNCHANGED <<storeVars, receiveSync, get, routed>>

(* socket 'connect', the first one and every reconnect.                    *)
CliConnect ==
    /\ started
    /\ Connect(Cli)
    /\ InvalidateReceive
    /\ UNCHANGED <<started, lastSeq, routed, startSeq>>

(* socket 'disconnect'; startSmartReconnect will connect again.            *)
CliDisconnect ==
    /\ Disconnect(Cli)
    /\ UNCHANGED inVars

(* Is the update the next message in line?                                 *)
NextInLine(r) == r.seq = lastSeq + 1

(* socket 'update' with a new-message: handed on at once when it is the    *)
(* next in line, otherwise a reason to fetch.                              *)
UpdateNewMessage ==
    /\ Deliver(Cli)
    /\ LET r == Head(chan[Cli])
       IN  IF NextInLine(r)
           THEN /\ routed' = Append(routed, r)
                /\ lastSeq' = r.seq
                /\ UNCHANGED <<receiveSync, get>>
           ELSE /\ InvalidateReceive
                /\ UNCHANGED <<routed, lastSeq>>
    /\ UNCHANGED <<started, startSeq>>

(* The server reads the page.                                              *)
GetServed ==
    /\ get.phase = "sent"
    /\ get' = [get EXCEPT !.phase = "answered",
                          !.page = Page(get.after, PageSize),
                          !.more = HasMore(get.after, PageSize)]
    /\ UNCHANGED <<storeVars, started, lastSeq, receiveSync, routed, startSeq>>

(* The answer arrives: every message of the page is routed, whatever the   *)
(* cursor is by now; then the next page, or the end of the command.        *)
FetchContinues ==
    /\ get.phase = "answered"
    /\ LET maxSeq == Highest(get.after, get.page)
       IN  /\ routed' = routed \o BySeq(get.page)
           /\ lastSeq' = IF maxSeq > lastSeq THEN maxSeq ELSE lastSeq
           /\ IF get.more /\ maxSeq # get.after
              THEN get' = GetAfter(maxSeq) /\ receiveSync' = receiveSync
              ELSE get' = NoGet /\ receiveSync' = CommandReturned(receiveSync)
    /\ UNCHANGED <<storeVars, started, startSeq>>

FetchThrows ==
    /\ get.phase # "none"
    /\ get' = NoGet
    /\ receiveSync' = CommandThrew(receiveSync)
    /\ UNCHANGED <<storeVars, started, lastSeq, routed, startSeq>>

ReceiveRetry ==
    /\ receiveSync.phase = "backoff"
    /\ IF Retries(receiveSync) THEN FetchStarts(Retried(receiveSync))
                               ELSE receiveSync' = Retried(receiveSync) /\ get' = get
    /\ UNCHANGED <<storeVars, started, lastSeq, routed, startSeq>>

ReceiveSettle ==
    /\ receiveSync.phase = "settling"
    /\ IF Reruns(receiveSync) THEN FetchStarts(Settled(receiveSync))
                              ELSE receiveSync' = Settled(receiveSync) /\ get' = get
    /\ UNCHANGED <<storeVars, started, lastSeq, routed, startSeq>>

(* close(): the socket closes with the loops.  Its 'disconnect' event      *)
(* starts the reconnect timer again, so CliConnect stays possible.         *)
CloseReceive ==
    /\ started
    /\ ~receiveSync.stopped
    /\ receiveSync' = Stopped(receiveSync)
    /\ IF Cli \in online THEN Disconnect(Cli) ELSE UNCHANGED storeVars
    /\ UNCHANGED <<started, lastSeq, get, routed, startSeq>>

-----------------------------------------------------------------------------
InboxInit ==
    /\ started = FALSE
    /\ lastSeq = 0
    /\ receiveSync = NewSync
    /\ get = NoGet
    /\ routed = <<>>
    /\ startSeq = 0

InboxStep ==
    \/ Start
    \/ CliConnect \/ CliDisconnect
    \/ UpdateNewMessage
    \/ GetServed \/ FetchContinues \/ FetchThrows
    \/ ReceiveRetry \/ ReceiveSettle

(* The other writers: requests whose answers nobody here waits for.        *)
OthersStep ==
    /\ \E h \in Handlers :
          \/ \E batch \in Batches : PostArrive(h, batch, FALSE)
          \/ \E id \in SocketIds, s \in Sockets \ {Cli} : MessageArrive(h, id, s)
    /\ UNCHANGED inVars

OthersConnect ==
    /\ \E s \in Sockets \ {Cli} : Connect(s) \/ Disconnect(s) \/ Deliver(s)
    /\ UNCHANGED inVars

InboxServer == ((\E h \in Handlers : ServerStep(h)) \/ Crash) /\ UNCHANGED inVars

InboxStart == StoreInit /\ InboxInit

InboxNext == InboxStep \/ CloseReceive \/ OthersStep \/ OthersConnect \/ InboxServer

InboxSpec == InboxStart /\ [][InboxNext]_inboxVars

(* The server works on what it has, the client's timers and continuations  *)
(* run, it reconnects, and requests are not lost for ever.                 *)
ReceiveFairness ==
    /\ \A h \in Handlers : WF_inboxVars(ServerStep(h) /\ UNCHANGED inVars)
    /\ WF_inboxVars(ReceiveRetry) /\ WF_inboxVars(ReceiveSettle)
    /\ WF_inboxVars(CliConnect) /\ SF_inboxVars(UpdateNewMessage)
    /\ SF_inboxVars(GetServed) /\ SF_inboxVars(FetchContinues)

InboxLiveSpec == InboxSpec /\ ReceiveFairness

-----------------------------------------------------------------------------
(* Every variable of the client has its type.                              *)
InboxTypeOK ==
    /\ started \in BOOLEAN
    /\ lastSeq \in Nat /\ startSeq \in Nat
    /\ receiveSync \in SyncState
    /\ get \in [phase : {"none", "sent", "answered"}, after : Nat,
                page : SUBSET Row, more : BOOLEAN]
    /\ routed \in Seq(Row)

(* The cursor never passes a message the client was not given: what is     *)
(* stored after the start and not beyond the cursor has been routed.       *)
NothingSkipped ==
    \A r \in rows : startSeq < r.seq /\ r.seq <= lastSeq => r \in Range(routed)

(* Messages are new to the agent in the order of their seqs: each routed   *)
(* message is either a repetition or newer than all before it.             *)
NewsInOrder ==
    \A j \in DOMAIN routed : \A i \in 1 .. j - 1 :
        routed[i].seq > routed[j].seq => \E k \in 1 .. i : routed[k] = routed[j]

(* Every stored message reaches the agent, unless its client is closed.    *)
EveryMessageArrives ==
    \A id \in Ids : (\E r \in rows : r.id = id /\ started /\ r.seq > startSeq) ~>
        (id \in IdsOf(Range(routed)) \/ receiveSync.stopped)

=============================================================================
