----------------------------- MODULE AppMessages -----------------------------
(***************************************************************************)
(* How the app reads one session's messages (agentrejoin-app, sync/sync.ts)*)
(* over the log the server keeps: the cursor sessionLastSeq that forward   *)
(* syncs, live updates and the answers to the app's own POSTs all move, the*)
(* cursor sessionOldestSeq of the history, and the per-session lock they   *)
(* share with the message queue.                                           *)
(*                                                                         *)
(* The server is the ordered log of SessionLog, which MessageStore         *)
(* implements.  How the outbox gets a POST through is AppOutbox; here it is *)
(* a request that is stored at some time and answered at a later one.      *)
(***************************************************************************)
EXTENDS SyncOps, Integers, Sequences, FiniteSets, Functions

CONSTANTS OwnIds,       \* messages the user types here
          OtherIds,     \* messages the agent and other devices write
          Hidden,       \* messages that normalise to nothing to show
          PageSize      \* limit=100 of a GET

ASSUME PageSizeAssumption == PageSize \in Nat \ {0}
ASSUME HiddenAssumption == Hidden \subseteq OtherIds

VARIABLES rows,         \* the session's log on the server
          news,         \* new-message updates that handleUpdate has not acted on
          unsent,       \* own messages whose POST the server has not carried out
          unanswered,   \* own messages whose POST is stored, its answer on the way
          msgSync,      \* InvalidateSync around fetchMessages
          fetch,        \* the fetchMessages under way
          older,        \* the loadOlderMessages under way (isLoadingOlder)
          prefetch,     \* prefetchOlderMessagesInBackground: "off" | "on" | "failed"
          lock,         \* the session's AsyncLock: its holder, then who waits
          queue,        \* sessionMessageQueue
          proc,         \* sessionQueueProcessing: "no" | "waiting" | "finishing"
          view,         \* what the store shows of the session
          lastSeq,      \* sessionLastSeq
          oldestSeq,    \* sessionOldestSeq
          jumped,       \* history: rows an own POST moved lastSeq over
          blind         \* history: the first page had nothing to show

serverVars == <<rows, news, unsent, unanswered>>
lockVars == <<lock, queue, proc>>
readVars == <<msgSync, fetch, older, prefetch, view, lastSeq, oldestSeq, jumped, blind>>
appVars == <<serverVars, lockVars, readVars>>

Undefined == -1         \* a Map without an entry for the session

Ids == OwnIds \union OtherIds
Row == [seq : Nat \ {0}, id : Ids]

IdsOf(R) == {r.id : r \in R}
Top(R, least) == IF \E r \in R : r.seq > least
                 THEN CHOOSE n \in {r.seq : r \in R} : \A r \in R : r.seq <= n
                 ELSE least
Bottom(R, most) == IF \E r \in R : r.seq < most
                   THEN CHOOSE n \in {r.seq : r \in R} : \A r \in R : n <= r.seq
                   ELSE most

(* GET .../messages: the oldest rows after a seq, the newest before one.   *)
Closest(R, Nearer(_, _)) == {r \in R : Cardinality({q \in R : Nearer(q, r)}) < PageSize}
Forward(n) == Closest({r \in rows : r.seq > n}, LAMBDA q, r : q.seq < r.seq)
Backward(R) == Closest(R, LAMBDA q, r : q.seq > r.seq)
Before(n) == {r \in rows : r.seq < n}

-----------------------------------------------------------------------------
(* The session's log on the server.                                        *)

ServerStores(id) ==
    LET r == [seq |-> Top(rows, 0) + 1, id |-> id]
    IN  rows' = rows \union {r} /\ news' = news \union {r}

OthersWrite(id) ==
    /\ id \notin IdsOf(rows)
    /\ ServerStores(id)
    /\ UNCHANGED <<unsent, unanswered, lockVars, readVars>>

(* A broken connection: what was emitted is lost, the cursors stay.        *)
Disconnect ==
    /\ news # {}
    /\ news' = {}
    /\ UNCHANGED <<rows, unsent, unanswered, lockVars, readVars>>

-----------------------------------------------------------------------------
(* The lock, the message queue and the two InvalidateSyncs.                *)

(* enqueueMessages                                                         *)
Enqueued(ids) ==
    /\ queue' = queue \union ids
    /\ proc' = IF proc = "no" THEN "waiting" ELSE proc

LockWithQueue == IF proc = "no" THEN Append(lock, "queue") ELSE lock

(* messagesSync.invalidate(), once or twice; a run starts with the lock.   *)
MessagesInvalidated(s, lk) ==
    /\ msgSync' = s
    /\ lock' = IF Starts(msgSync) THEN Append(lk, "fetch") ELSE lk

QueueDrains ==
    /\ proc = "waiting" /\ Head(lock) = "queue"
    /\ view' = [view EXCEPT !.shown = @ \union queue, !.entry = @ \/ queue # {}]
    /\ queue' = {}
    /\ proc' = "finishing"
    /\ lock' = Tail(lock)
    /\ UNCHANGED <<serverVars, msgSync, fetch, older, prefetch,
                   lastSeq, oldestSeq, jumped, blind>>

(* finally: what came in between the last look and here is not forgotten.  *)
MutQueueFinishes ==      \* mutant: finally does not look at the queue again
    /\ proc = "finishing"
    /\ proc' = "no"
    /\ UNCHANGED <<serverVars, queue, lock, readVars>>
QueueFinishes ==
    /\ proc = "finishing"
    /\ IF queue = {} THEN proc' = "no" /\ lock' = lock
                     ELSE proc' = "waiting" /\ lock' = Append(lock, "queue")
    /\ UNCHANGED <<serverVars, queue, readVars>>

-----------------------------------------------------------------------------
(* Own messages, as far as the reading side sees them.                     *)

(* sendMessage shows the message at once, and leaves it to the outbox.     *)
SendMessage(id) ==
    /\ id \notin queue \union view.shown
    /\ Enqueued({id})
    /\ lock' = LockWithQueue
    /\ unsent' = unsent \union {id}
    /\ UNCHANGED <<rows, news, unanswered, readVars>>

PostStored(id) ==
    /\ id \in unsent
    /\ ServerStores(id)
    /\ unsent' = unsent \ {id}
    /\ unanswered' = unanswered \union {id}
    /\ UNCHANGED <<lockVars, readVars>>

(* The 200 answer to flushOutbox moves lastSeq to the own row, over        *)
(* whatever lies between.                                                  *)
LastSeqOrZero == IF lastSeq = Undefined THEN 0 ELSE lastSeq

PostAnswered(id) ==
    /\ id \in unanswered
    /\ unanswered' = unanswered \ {id}
    /\ lastSeq' = Top({r \in rows : r.id = id}, LastSeqOrZero)
    /\ jumped' = jumped \union {r \in rows : LastSeqOrZero < r.seq /\ r.seq < lastSeq'}
    /\ UNCHANGED <<rows, news, unsent, lockVars, msgSync, fetch, older, prefetch, view,
                   oldestSeq, blind>>

-----------------------------------------------------------------------------
(* Reading.                                                                *)

NoFetch == [phase |-> "none", from |-> Undefined, page |-> {}, more |-> FALSE]

Apply(R) ==
    view' = [view EXCEPT !.shown = @ \union (IdsOf(R) \ Hidden),
                         !.entry = @ \/ ~(IdsOf(R) \subseteq Hidden)]

(* onSessionVisible                                                        *)
SessionVisible ==
    /\ MessagesInvalidated(Invalidated(msgSync), lock)
    /\ fetch' = fetch
    /\ UNCHANGED <<serverVars, queue, proc, older, prefetch, view,
                   lastSeq, oldestSeq, jumped, blind>>

(* handleUpdate of a new message, from the await of decryptMessage on: the *)
(* next seq goes to the queue, anything else is left to a fetch.           *)
MutIsNext(r) == lastSeq # Undefined /\ r.seq > lastSeq  \* mutant: later is good enough
IsNext(r) == lastSeq # Undefined /\ r.seq = lastSeq + 1

NewsArrives(r) ==
    /\ news' = news \ {r}
    /\ IF IsNext(r) /\ r.id \notin Hidden
       THEN /\ Enqueued({r.id})
            /\ lastSeq' = r.seq
            /\ MessagesInvalidated(Invalidated(msgSync), LockWithQueue)
       ELSE /\ MessagesInvalidated(Invalidated(Invalidated(msgSync)), lock)
            /\ UNCHANGED <<queue, proc, lastSeq>>
    /\ UNCHANGED <<rows, unsent, unanswered, fetch, older, prefetch, view,
                   oldestSeq, jumped, blind>>

Fetching == lock # <<>> /\ Head(lock) = "fetch"

(* fetchMessages has the lock: lastSeq decides what it asks for.           *)
FetchAsks ==
    /\ Fetching /\ fetch.phase = "none"
    /\ fetch' = [NoFetch EXCEPT !.phase = "asking", !.from = lastSeq]
    /\ UNCHANGED <<serverVars, lockVars, msgSync, older, prefetch, view,
                   lastSeq, oldestSeq, jumped, blind>>

FetchRead ==
    /\ fetch.phase = "asking"
    /\ LET page == IF fetch.from = Undefined THEN Backward(rows) ELSE Forward(fetch.from)
           all  == {r \in rows : r.seq > fetch.from}
       IN  fetch' = [fetch EXCEPT !.phase = "read", !.page = page, !.more = page # all]
    /\ UNCHANGED <<serverVars, lockVars, msgSync, older, prefetch, view,
                   lastSeq, oldestSeq, jumped, blind>>

(* The end of fetchMessages, which gives the lock back.                    *)
FetchEnds ==
    /\ fetch' = NoFetch
    /\ msgSync' = CommandReturned(msgSync)
    /\ lock' = Tail(lock)

(* fetchInitialLatestPage and the rest of fetchMessages: both cursors are  *)
(* set, and the history is fetched in the background.  The pagination mark *)
(* needs an entry in the store, which only a message to show has made.     *)
FetchInitialApplies ==
    /\ fetch.phase = "read" /\ fetch.from = Undefined
    /\ LET shows == ~(IdsOf(fetch.page) \subseteq Hidden) \/ view.entry
       IN  /\ view' = [view EXCEPT !.shown = @ \union (IdsOf(fetch.page) \ Hidden),
                                   !.entry = TRUE,
                                   !.more = shows /\ fetch.more]
           /\ blind' = ~shows
    /\ lastSeq' = Top(fetch.page, 0)
    /\ oldestSeq' = IF fetch.page = {} THEN oldestSeq ELSE Bottom(fetch.page, lastSeq')
    /\ prefetch' = "on"
    /\ FetchEnds
    /\ UNCHANGED <<serverVars, queue, proc, older, jumped>>

(* One page of fetchForwardSince: lastSeq becomes the page's last seq,     *)
(* even when a live update has taken it further meanwhile.                 *)
ForwardCursor == Top(fetch.page, fetch.from)

FetchForwardApplies ==
    /\ fetch.phase = "read" /\ fetch.from # Undefined
    /\ lastSeq' = ForwardCursor
    /\ IF fetch.more /\ lastSeq' # fetch.from
       THEN /\ Apply(fetch.page)
            /\ fetch' = [NoFetch EXCEPT !.phase = "asking", !.from = lastSeq']
            /\ UNCHANGED <<msgSync, lock>>
       ELSE /\ view' = [view EXCEPT !.shown = @ \union (IdsOf(fetch.page) \ Hidden),
                                    !.entry = TRUE]
            /\ FetchEnds
    /\ UNCHANGED <<serverVars, queue, proc, older, prefetch, oldestSeq,
                   jumped, blind>>

(* The request fails or the session's key is not there yet.                *)
FetchThrows ==
    /\ Fetching
    /\ fetch' = NoFetch
    /\ msgSync' = CommandThrew(msgSync)
    /\ lock' = Tail(lock)
    /\ UNCHANGED <<serverVars, queue, proc, older, prefetch, view,
                   lastSeq, oldestSeq, jumped, blind>>

FetchRetry ==
    /\ msgSync.phase = "backoff"
    /\ msgSync' = Retried(msgSync)
    /\ lock' = Append(lock, "fetch")
    /\ UNCHANGED <<serverVars, queue, proc, fetch, older, prefetch, view,
                   lastSeq, oldestSeq, jumped, blind>>

FetchSettle ==
    /\ msgSync.phase = "settling"
    /\ msgSync' = Settled(msgSync)
    /\ lock' = IF Reruns(msgSync) THEN Append(lock, "fetch") ELSE lock
    /\ UNCHANGED <<serverVars, queue, proc, fetch, older, prefetch, view,
                   lastSeq, oldestSeq, jumped, blind>>

-----------------------------------------------------------------------------
(* History.                                                                *)

NoOlder == [phase |-> "none", by |-> "user", before |-> Undefined, page |-> {},
            more |-> FALSE]

MoreToLoad == oldestSeq > 1 /\ view.more

(* loadOlderMessages, from the prefetch loop or from the user's scrolling. *)
LoadOlder(by) ==
    /\ by = "prefetch" => prefetch = "on"
    /\ MoreToLoad /\ older.phase = "none"
    /\ older' = [NoOlder EXCEPT !.phase = "locking", !.by = by]
    /\ lock' = Append(lock, "older")
    /\ UNCHANGED <<serverVars, queue, proc, msgSync, fetch, prefetch, view,
                   lastSeq, oldestSeq, jumped, blind>>

(* The cursor is read again inside the lock.                               *)
OlderAsks ==
    /\ older.phase = "locking" /\ Head(lock) = "older"
    /\ older' = [older EXCEPT !.phase = "asking", !.before = oldestSeq]
    /\ UNCHANGED <<serverVars, lockVars, msgSync, fetch, prefetch, view,
                   lastSeq, oldestSeq, jumped, blind>>

OlderRead ==
    /\ older.phase = "asking"
    /\ LET all == Before(older.before)
       IN  older' = [older EXCEPT !.phase = "read", !.page = Backward(all),
                                  !.more = Backward(all) # all]
    /\ UNCHANGED <<serverVars, lockVars, msgSync, fetch, prefetch, view,
                   lastSeq, oldestSeq, jumped, blind>>

MutOlderMore ==          \* mutant: a page with nothing to show is taken for the end
    older.more /\ ~(IdsOf(older.page) \subseteq Hidden)
OlderMore == older.more /\ older.page # {}

OlderApplies ==
    /\ older.phase = "read"
    /\ view' = [view EXCEPT !.shown = @ \union (IdsOf(older.page) \ Hidden),
                            !.more = OlderMore]
    /\ oldestSeq' = Bottom(older.page, older.before)
    /\ older' = NoOlder
    /\ lock' = Tail(lock)
    /\ UNCHANGED <<serverVars, queue, proc, msgSync, fetch, prefetch,
                   lastSeq, jumped, blind>>

(* The prefetch loop stops for good at the first error of its own call.    *)
OlderThrows ==
    /\ older.phase \in {"asking", "read"}
    /\ older' = NoOlder
    /\ lock' = Tail(lock)
    /\ prefetch' = IF older.by = "prefetch" THEN "failed" ELSE prefetch
    /\ UNCHANGED <<serverVars, queue, proc, msgSync, fetch, view,
                   lastSeq, oldestSeq, jumped, blind>>

(* The prefetch loop looks and finds nothing left.                         *)
PrefetchEnds ==
    /\ prefetch = "on" /\ ~MoreToLoad
    /\ older.by = "prefetch" => older.phase = "none"
    /\ prefetch' = "off"
    /\ UNCHANGED <<serverVars, lockVars, msgSync, fetch, older, view,
                   lastSeq, oldestSeq, jumped, blind>>

-----------------------------------------------------------------------------
AppInit ==
    /\ \E old \in {<<>>} \union {<<id>> : id \in OtherIds} \union
                  {<<a, b>> : a \in OtherIds, b \in OtherIds} :
          /\ IsInjective(old)
          /\ rows = {[seq |-> i, id |-> old[i]] : i \in DOMAIN old}
    /\ news = {} /\ unsent = {} /\ unanswered = {}
    /\ msgSync = NewSync /\ fetch = NoFetch /\ older = NoOlder /\ prefetch = "off"
    /\ lock = <<>> /\ queue = {} /\ proc = "no"
    /\ view = [shown |-> {}, entry |-> FALSE, more |-> FALSE]
    /\ lastSeq = Undefined /\ oldestSeq = Undefined
    /\ jumped = {} /\ blind = FALSE

QueueStep == QueueDrains \/ QueueFinishes
FetchStep == FetchAsks \/ FetchRead \/ FetchInitialApplies \/ FetchForwardApplies

Environment ==
    \/ \E id \in OwnIds : SendMessage(id) \/ PostStored(id) \/ PostAnswered(id)
    \/ \E id \in OtherIds : OthersWrite(id)
    \/ \E r \in news : NewsArrives(r)
    \/ Disconnect \/ SessionVisible
    \/ FetchThrows \/ OlderThrows \/ LoadOlder("user")

AppNext ==
    \/ Environment
    \/ QueueStep
    \/ FetchStep \/ FetchRetry \/ FetchSettle
    \/ OlderAsks \/ OlderRead \/ OlderApplies \/ LoadOlder("prefetch") \/ PrefetchEnds

AppSpec == AppInit /\ [][AppNext]_appVars

(* Timers and continuations run, requests end, well or badly, and an older *)
(* page that is asked for again and again comes in the end.                *)
AppFairness ==
    /\ WF_appVars(QueueDrains) /\ WF_appVars(QueueFinishes)
    /\ WF_appVars(FetchStep) /\ WF_appVars(FetchRetry) /\ WF_appVars(FetchSettle)
    /\ WF_appVars(OlderAsks) /\ SF_appVars(OlderRead) /\ SF_appVars(OlderApplies)
    /\ WF_appVars(LoadOlder("prefetch"))
    /\ WF_appVars(PrefetchEnds)

AppLiveSpec == AppSpec /\ AppFairness

-----------------------------------------------------------------------------
(* Every variable has its type, nobody waits in the lock twice, and only   *)
(* its holder is at work.                                                  *)
AppTypeOK ==
    /\ rows \subseteq Row /\ news \subseteq rows
    /\ unsent \subseteq OwnIds /\ unanswered \subseteq OwnIds
    /\ msgSync \in SyncState
    /\ fetch.phase \in {"none", "asking", "read"} /\ fetch.page \subseteq rows
    /\ older.phase \in {"none", "locking", "asking", "read"} /\ older.page \subseteq rows
    /\ prefetch \in {"off", "on", "failed"}
    /\ lock \in Seq({"fetch", "older", "queue"}) /\ IsInjective(lock)
    /\ fetch.phase # "none" => Head(lock) = "fetch"
    /\ older.phase \in {"asking", "read"} => Head(lock) = "older"
    /\ queue \subseteq Ids /\ proc \in {"no", "waiting", "finishing"}
    /\ view \in [shown : SUBSET Ids, entry : BOOLEAN, more : BOOLEAN]
    /\ lastSeq \in Nat \union {Undefined} /\ oldestSeq \in Nat \union {Undefined}
    /\ jumped \subseteq rows /\ blind \in BOOLEAN

Loaded == view.shown \union queue \union Hidden

(* Between its two cursors the app has every row, in spite of live updates *)
(* that move lastSeq while a fetch is under way and of fetches that move it*)
(* back; except rows that an own POST's answer jumped over.                *)
CursorCovers ==
    lastSeq # Undefined =>
        \A r \in rows \ jumped :
            oldestSeq <= r.seq /\ r.seq <= lastSeq => r.id \in Loaded

(* The plan of the API promises more: a reader that polls with its last    *)
(* known seq misses nothing, once it has loaded its first page.            *)
NothingSkipped ==
    oldestSeq # Undefined =>
        \A r \in rows : oldestSeq <= r.seq /\ r.seq <= lastSeq => r.id \in Loaded

(* "No more history" is true: nothing lies below the oldest row, unless    *)
(* the first page had no message to show, or own POSTs set lastSeq before  *)
(* there was a first page.                                                 *)
HistoryIsComplete ==
    (view.entry /\ ~view.more /\ ~blind) => \A r \in rows : r.seq >= oldestSeq

(* What is in the queue gets to the view: the lock comes back to the drain.*)
QueueIsDrained == (queue # {}) ~> (queue = {})

=============================================================================
