------------------------------ MODULE AppOutbox ------------------------------
(***************************************************************************)
(* How the app gets what the user types to the server (agentrejoin-app,    *)
(* sync/sync.ts): pendingOutbox, flushed by the command of sendSync, and   *)
(* the watchdog that fails the outbox when the app stays in the background *)
(* with messages to send.  One session; the server is the set of messages  *)
(* it has stored (MessageStore shows that a repeated POST stores each      *)
(* message once).  A POST the app gave up may be carried out later.        *)
(*                                                                         *)
(* pendingOutbox is a Map from sessions to arrays, and its users keep the  *)
(* array they found in it over their awaits while others take it out of    *)
(* the Map.  So arrays have an identity here: all that were ever made are  *)
(* in "arrays", the Map holds the index of one of them.                    *)
(***************************************************************************)
EXTENDS SyncOps, Naturals, Sequences, Functions

CONSTANTS OwnIds,       \* messages the user types
          FileIds,      \* attachments that were uploaded for them
          Owner,        \* the message an attachment belongs to
          Place         \* its place among the message's attachments

ASSUME FilesAssumption ==
    /\ FileIds \cap OwnIds = {}
    /\ Owner \in [FileIds -> OwnIds] /\ Place \in [FileIds -> Nat]

VARIABLES stored,       \* messages the server has
          late,         \* batches of POSTs the app gave up and the server may still do
          arrays,       \* the arrays sendMessage made for the session, the oldest first
          entry,        \* the one pendingOutbox holds, 0 for none
          held,         \* the one sendMessage holds while it pushes attachments, 0 for none
          sendSync,     \* InvalidateSync around flushOutbox
          post,         \* the POST flushOutbox awaits, with the array it holds
          background,   \* appState is not 'active'
          watch,        \* the background send watchdog
          typed,        \* history: messages and attachments the user was shown as sent
          failed,       \* history: messages dropped with an event that says so
          dropped       \* history: messages dropped without a word

serverVars == <<stored, late>>
heapVars == <<arrays, entry, held>>
outboxVars == <<serverVars, heapVars, sendSync, post, background, watch,
                typed, failed, dropped>>

Items == OwnIds \union FileIds

(* pendingOutbox.get(sessionId), no array being as good as an empty one.   *)
Outbox == IF entry = 0 THEN <<>> ELSE arrays[entry]

NoPost == [phase |-> "none", batch |-> <<>>, array |-> 0, aborted |-> FALSE]
NoWatch == [armed |-> FALSE, started |-> FALSE, failing |-> FALSE]

(* hasPendingOutboxMessages: an aborted POST has no controller any more.   *)
HasPending == Outbox # <<>> \/ (post.phase # "none" /\ ~post.aborted)

(* maybeStartBackgroundSendWatchdog and clearBackgroundSendWatchdog        *)
Watching(away, pending) == IF away /\ pending /\ ~watch.armed
                           THEN [watch EXCEPT !.armed = TRUE, !.started = TRUE]
                           ELSE watch
Cleared == [watch EXCEPT !.armed = FALSE, !.started = FALSE]

(* flushOutbox up to its first await, or to its end on an empty outbox.    *)
Flush(s, array, box, w) ==
    IF box = <<>>
    THEN /\ post' = NoPost /\ sendSync' = CommandReturned(s)
         /\ watch' = [w EXCEPT !.armed = FALSE, !.started = FALSE]
    ELSE /\ post' = [phase |-> "sending", batch |-> box, array |-> array, aborted |-> FALSE]
         /\ sendSync' = s /\ watch' = w

InvalidateSend(array, box, w) ==
    IF Starts(sendSync) THEN Flush(Invalidated(sendSync), array, box, w)
    ELSE sendSync' = Invalidated(sendSync) /\ post' = post /\ watch' = w

(* The array of the Map, made and entered when there is none.              *)
EnsuredEntry == IF entry = 0 THEN Len(arrays) + 1 ELSE entry
EnsuredArrays == IF entry = 0 THEN Append(arrays, <<>>) ELSE arrays

(* sendMessage with attachments that were uploaded: it takes the array from*)
(* the Map once, before the first attachment is encrypted.                 *)
BeginAttachments(id) ==
    /\ id \notin typed /\ held[id] = 0
    /\ \E f \in FileIds : Owner[f] = id
    /\ arrays' = EnsuredArrays /\ entry' = EnsuredEntry
    /\ held' = [held EXCEPT ![id] = EnsuredEntry]
    /\ UNCHANGED <<serverVars, sendSync, post, background, watch, typed, failed, dropped>>

(* encryptRawRecord resolved: the attachment is shown and pushed to the    *)
(* array taken before, whether or not the Map still holds it; the loop is  *)
(* not woken.                                                              *)
PushFile(f) ==
    LET array == held[Owner[f]]
    IN  /\ array # 0 /\ f \notin typed
        /\ \A e \in FileIds : Owner[e] = Owner[f] /\ Place[e] < Place[f] => e \in typed
        /\ typed' = typed \union {f}
        /\ arrays' = [arrays EXCEPT ![array] = Append(@, f)]
        /\ dropped' = IF array = entry THEN dropped ELSE dropped \union {f}
        /\ UNCHANGED <<serverVars, entry, held, sendSync, post, background, watch, failed>>

(* sendMessage from the await of the text's encryptRawRecord to its end.   *)
SendMessage(id) ==
    /\ id \notin typed
    /\ \A f \in FileIds : Owner[f] = id /\ held[id] # 0 => f \in typed
    /\ typed' = typed \union {id}
    /\ arrays' = [EnsuredArrays EXCEPT ![EnsuredEntry] = Append(@, id)]
    /\ entry' = EnsuredEntry
    /\ held' = [held EXCEPT ![id] = 0]
    /\ InvalidateSend(entry', Outbox', Watching(background, TRUE))
    /\ UNCHANGED <<serverVars, background, failed, dropped>>

PostStored ==
    /\ post.phase = "sending"
    /\ stored' = stored \union Range(post.batch)
    /\ post' = [post EXCEPT !.phase = "stored"]
    /\ UNCHANGED <<late, heapVars, sendSync, background, watch, typed, failed, dropped>>

(* The whole answer is in: controller.abort() comes too late from now on.  *)
PostAnswered ==
    /\ post.phase = "stored" /\ ~post.aborted
    /\ post' = [post EXCEPT !.phase = "answered"]
    /\ UNCHANGED <<serverVars, heapVars, sendSync, background, watch, typed, failed, dropped>>

(* A request the app gave up is carried out after all.                     *)
LateStored(batch) ==
    /\ stored' = stored \union Range(batch)
    /\ late' = late \ {batch}
    /\ UNCHANGED <<heapVars, sendSync, post, background, watch, typed, failed, dropped>>

(* pending.splice(0, batch.length): what was pushed meanwhile stays.       *)
MutUnsent(box, batch) == <<>>       \* mutant: the whole outbox, not the batch
Unsent(box, batch) == SubSeq(box, Len(batch) + 1, Len(box))

(* flushOutbox after the answer, with the array it took before the POST.   *)
(* Once that is empty it deletes the session's array from the Map, which   *)
(* need not be the same one.                                               *)
PostOk ==
    LET rest == Unsent(arrays[post.array], post.batch)
    IN  /\ post.phase = "answered"
        /\ arrays' = [arrays EXCEPT ![post.array] = rest]
        /\ entry' = IF rest = <<>> THEN 0 ELSE entry
        /\ dropped' = IF rest = <<>> /\ entry # post.array
                      THEN dropped \union Range(Outbox) ELSE dropped
        /\ post' = NoPost
        /\ sendSync' = CommandReturned(sendSync)
        /\ watch' = IF Outbox' = <<>> THEN Cleared ELSE Watching(background, TRUE)
        /\ UNCHANGED <<serverVars, held, background, typed, failed>>

(* No connection, an error status, a lost answer, or controller.abort():   *)
(* the request may still be on its way to the server.                      *)
MutPostThrows ==         \* mutant: the error is swallowed, nothing is tried again
    /\ post.phase \in {"sending", "stored"}
    /\ late' = IF post.phase = "stored" THEN late ELSE late \union {post.batch}
    /\ post' = NoPost
    /\ sendSync' = CommandReturned(sendSync)
    /\ watch' = Watching(background, HasPending)
    /\ UNCHANGED <<stored, heapVars, background, typed, failed, dropped>>
PostThrows ==
    /\ post.phase \in {"sending", "stored"}
    /\ late' = IF post.phase = "stored" THEN late ELSE late \union {post.batch}
    /\ post' = NoPost
    /\ sendSync' = CommandThrew(sendSync)
    /\ watch' = Watching(background, HasPending)
    /\ UNCHANGED <<stored, heapVars, background, typed, failed, dropped>>

SendRetry ==
    /\ sendSync.phase = "backoff"
    /\ Flush(Retried(sendSync), entry, Outbox, watch)
    /\ UNCHANGED <<serverVars, heapVars, background, typed, failed, dropped>>

SendSettle ==
    /\ sendSync.phase = "settling"
    /\ IF Reruns(sendSync) THEN Flush(Settled(sendSync), entry, Outbox, watch)
       ELSE sendSync' = Settled(sendSync) /\ UNCHANGED <<post, watch>>
    /\ UNCHANGED <<serverVars, heapVars, background, typed, failed, dropped>>

(* onReconnected invalidates every session's sendSync.                     *)
Reconnect ==
    /\ InvalidateSend(entry, Outbox, watch)
    /\ UNCHANGED <<serverVars, heapVars, background, typed, failed, dropped>>

-----------------------------------------------------------------------------
(* The background send watchdog.                                           *)

(* failPendingOutboxMessages: aborts the POST, empties the array of the    *)
(* Map, takes it out of the Map and reports it.                            *)
MutFailPending ==        \* mutant: only the batch in flight is reported
    /\ post' = IF post.phase = "none" THEN post ELSE [post EXCEPT !.aborted = TRUE]
    /\ IF Outbox = <<>> THEN UNCHANGED <<arrays, entry>>
       ELSE arrays' = [arrays EXCEPT ![entry] = <<>>] /\ entry' = 0
    /\ failed' = failed \union Range(post.batch)
FailPending ==
    /\ post' = IF post.phase = "none" THEN post ELSE [post EXCEPT !.aborted = TRUE]
    /\ IF Outbox = <<>> THEN UNCHANGED <<arrays, entry>>
       ELSE arrays' = [arrays EXCEPT ![entry] = <<>>] /\ entry' = 0
    /\ failed' = failed \union Range(Outbox)

(* 'inactive' or 'background', or the one after the other.                 *)
GoBackground ==
    /\ background' = TRUE
    /\ watch' = Watching(TRUE, HasPending)
    /\ UNCHANGED <<serverVars, heapVars, sendSync, post, typed, failed, dropped>>

(* The app comes back, before or after the 30 s are over.                  *)
GoActive ==
    /\ background
    /\ background' = FALSE
    /\ watch' = Cleared
    /\ \/ watch.started /\ HasPending /\ FailPending
       \/ UNCHANGED <<arrays, entry, post, failed>>
    /\ UNCHANGED <<serverVars, held, sendSync, typed, dropped>>

WatchdogFires ==
    /\ watch.armed
    /\ watch' = [armed |-> FALSE, started |-> watch.started /\ HasPending,
                  failing |-> watch.failing \/ HasPending]
    /\ UNCHANGED <<serverVars, heapVars, sendSync, post, background, typed, failed, dropped>>

(* After the two notifications: whatever the outbox holds by now fails.    *)
WatchdogFails ==
    /\ watch.failing
    /\ FailPending
    /\ watch' = [watch EXCEPT !.failing = FALSE, !.started = FALSE]
    /\ UNCHANGED <<serverVars, held, sendSync, background, typed, dropped>>

-----------------------------------------------------------------------------
OutboxInit ==
    /\ stored = {} /\ late = {}
    /\ arrays = <<>> /\ entry = 0 /\ held = [id \in OwnIds |-> 0]
    /\ sendSync = NewSync /\ post = NoPost /\ background = FALSE /\ watch = NoWatch
    /\ typed = {} /\ failed = {} /\ dropped = {}

OutboxNext ==
    \/ \E id \in OwnIds : SendMessage(id) \/ BeginAttachments(id)
    \/ \E f \in FileIds : PushFile(f)
    \/ \E batch \in late : LateStored(batch)
    \/ PostStored \/ PostAnswered \/ PostOk \/ PostThrows
    \/ SendRetry \/ SendSettle \/ Reconnect
    \/ GoBackground \/ GoActive \/ WatchdogFires \/ WatchdogFails

OutboxSpec == OutboxInit /\ [][OutboxNext]_outboxVars

(* A sendMessage that has begun with its attachments goes on.              *)
GoesOn(id) ==
    /\ held[id] # 0
    /\ SendMessage(id) \/ \E f \in FileIds : Owner[f] = id /\ PushFile(f)

(* Timers and continuations run, and a POST that is sent again and again   *)
(* gets through in the end.                                                *)
OutboxFairness ==
    /\ SF_outboxVars(PostStored) /\ SF_outboxVars(PostAnswered)
    /\ WF_outboxVars(PostOk) /\ WF_outboxVars(PostThrows)
    /\ WF_outboxVars(SendRetry) /\ WF_outboxVars(SendSettle)
    /\ WF_outboxVars(WatchdogFires) /\ WF_outboxVars(WatchdogFails)
    /\ WF_outboxVars(\E id \in OwnIds : GoesOn(id))

OutboxLiveSpec == OutboxSpec /\ OutboxFairness

-----------------------------------------------------------------------------
(* Attachments are pushed without waking the loop: the text does it.       *)
WaitsForText(id) == id \in FileIds /\ Owner[id] \notin typed

(* Every variable has its type, and somebody is at work on what is in the  *)
(* outbox, attachments of a text still to come excepted.                   *)
OutboxTypeOK ==
    /\ stored \subseteq Items /\ late \subseteq Seq(Items)
    /\ arrays \in Seq(Seq(Items)) /\ entry \in 0 .. Len(arrays)
    /\ held \in [OwnIds -> 0 .. Len(arrays)]
    /\ sendSync \in SyncState
    /\ post \in [phase : {"none", "sending", "stored", "answered"}, batch : Seq(Items),
                  array : 0 .. Len(arrays), aborted : BOOLEAN]
    /\ background \in BOOLEAN
    /\ watch \in [armed : BOOLEAN, started : BOOLEAN, failing : BOOLEAN]
    /\ typed \subseteq Items /\ failed \subseteq Items /\ dropped \subseteq Items
    /\ \A id \in Range(Outbox) : sendSync.phase # "idle" \/ WaitsForText(id)

(* What the user sent is in the outbox, stored, or reported as failed, with*)
(* two exceptions.  A text is dropped without a word only when a POST was  *)
(* both answered and failed by the watchdog: its end deletes the array that*)
(* later messages are in.  An attachment is also dropped when its array was*)
(* taken out of the Map while it was encrypted, by the end of a POST or by *)
(* the watchdog; then what the array held is stored or reported.           *)
TypedIsAccountedFor ==
    /\ typed \subseteq Range(Outbox) \union stored \union failed \union dropped
    /\ dropped \cap OwnIds # {} => failed \cap stored # {}
    /\ dropped # {} => failed \union stored # {}

(* Again and again everything sent so far is settled: stored, reported as  *)
(* failed, or dropped in one of the ways above.                            *)
TypedIsSettled == []<>(typed \subseteq stored \union failed \union dropped)

=============================================================================
