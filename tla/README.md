# Verification of agentrejoin

TLA+ models of agentrejoin, the relay between coding agents on a machine and the apps that
watch and steer them; TLC configurations that check the models on small instances; and
proofs, checked by TLAPS, of the safety properties for every instance.

Source paths below are relative to `src/packages/`.

- [1. The system](#1-the-system)
- [2. Inventory](#2-inventory)
- [3. Modules](#3-modules)
- [4. Runs](#4-runs)
- [5. Fairness](#5-fairness)
- [6. Proofs](#6-proofs)
- [7. Where code and documents disagree](#7-where-code-and-documents-disagree)
- [8. What is not modelled](#8-what-is-not-modelled)
- [9. Plan](#9-plan)

## 1. The system

A **server** (`agentrejoin-server`: Fastify, socket.io, Prisma on Postgres) keeps accounts,
sessions, machines and messages, whose contents are encrypted by the clients and opaque to
it. An **agent** (`agentrejoin-cli`) runs Claude, Codex or another coding agent and mirrors
it into a session. **Apps** (`agentrejoin-app`, on phones, desktops and the web) show
sessions and write to them. A small control client (`agentrejoin-agent`) does so from a
shell. `agentrejoin-wire` holds message schemas; `agentrejoin-app-logs`,
`agentrejoin-server-self-host` and `codium` are tooling around these.

What is concurrent: every server handler is an async function that interleaves with all
others at each `await`, and the only things that are atomic are single database statements
and transactions. Clients are event-driven: callbacks of a socket, HTTP requests in flight
and timers interleave at every `await` too. Connections break, requests are repeated,
answers are lost, and updates over the socket are at most once.

Three mechanisms carry most of the correctness:

1. **Messages** are rows numbered by a per-session counter. Clients write them in batches
   over HTTP with a client-chosen `localId` as idempotency key, and read them by a cursor,
   "everything after seq n". Socket updates only say sooner what the cursor would find.
2. **Versioned fields** (session metadata and agent state, machine metadata and daemon
   state, artifacts, key-value pairs) are written under optimistic concurrency.
3. **`InvalidateSync`**, a coalescing loop, drives nearly everything a client does in the
   background: at most one run at a time, repeated until it succeeds, and another run when
   something changed meanwhile.

## 2. Inventory

| Component | State | Operations | Hard parts | Makes it correct |
|---|---|---|---|---|
| `InvalidateSync` (cli and app `utils/sync.ts`) | two flags, stopped, waiting callers | invalidate, invalidateAndAwait, awaitQueue, stop, the loop | invalidations during a run or in its last microtask; stop with waiters | no invalidation lost; nobody waits for ever; who is let go has had a later run |
| Session message store (`v3SessionRoutes.ts`, `seq.ts`) | `Session.seq`, `SessionMessage` rows | POST batch, GET page | equal batches racing; commits against cursors; answers lost; failure after commit | one row per message; truthful answers; a log that grows only at its end |
| Session socket handlers (`sessionUpdateHandler.ts`) | the same rows; versioned fields | message, update-metadata, update-state, session-alive, session-end | awaits between lookup, write, numbering and broadcast | no silent overwrite |
| Fan-out (`eventRouter.ts`) | rooms | emitUpdate, emitEphemeral | sockets come and go | only committed news, each once |
| `ApiSessionClient` (cli `apiSession.ts`) | outbox, cursor, two loops, socket, copies of fields | enqueue, flush, fetch, update handler, updateMetadata, close | requests that outlive their timeout; fast path against a fetch; reconnect | nothing enqueued is lost; nothing stored is skipped |
| App metadata writers (app `ops.ts`) | a call in progress | archive, mode picks, machine names | three attempts against other writers | a success is never undone by a conflict |
| `backoff`, `AsyncLock` (cli `time.ts`, `lock.ts`) | failures, permit, queue | retry, lock, unlock | hand-over on a later tick | mutual exclusion, no lost wake-up |
| Presence (`sessionCache.ts`, `timeout.ts`) | cache entries, `active` | alive, flush, sweep, cleanup | write-behind against the sweep | a live session is not taken for dead; who runs becomes active, who is gone inactive |
| RPC routing (`rpcHandler.ts`, cli `RpcHandlerManager.ts`) | rooms per method; handlers and socket | register, call | target leaves while a call waits; dead sockets in rooms | rooms follow the handlers; each call answered, and not failed without a reason |
| Machine fields (`machineUpdateHandler.ts`, cli `apiMachine.ts`) | versioned fields; the daemon's copies | versioned writes | concurrent calls, updates adopted unseen | no silent overwrite |
| Artifacts, key-value store, friends, feed | rows with versions or pairs of rows | versioned writes, atomic batches | races, serializable retries | no silent overwrite; pairs change together |
| Session deletion (`sessionDelete.ts`) | rows | delete | against writers that looked it up | no orphans |
| App message sync (app `sync.ts`) | outbox with watchdog, two cursors, message queue and its lock, session view | send, fetch forward and back, apply | cursor moved by own sends; background; captured session views | what is typed is stored, kept or reported; nothing between the cursors is missing |
| App reducer (`reducer.ts`) | transcript | reduce | sources in any order | same transcript |
| Agent runs (`claude/`, `codex/`, `MessageQueue2.ts`, permission handlers) | launcher, queues, parked prompt, pending requests | start, switch, abort, answer | aborts at any await; answers against aborts; updates of the agent state that come later or fail | each prompt once and in order; output in order; the app shows what can be answered |
| Daemon (`daemon/`) | tracked children, lock file | spawn, stop, recover | restart with live children | one daemon; no child lost |
| Auth, accounts, push, GitHub, encryption, UI | — | single-row requests, external calls, rendering | none that a model checker reaches | — |

`PROJECT.json` lists the components with their files and, under `hazards`, each place
where one of the hard parts bites.

## 3. Modules

```
SyncOps ──────────┬── InvalidateSync ── InvalidateSync_proof
                  │
SessionLog ── MessageStore ──┬── MessageStore_proof
  (abstract)                 ├── AgentOutbox ──┐
                             └── AgentInbox ───┴── AgentSession ── AgentSession_proof
SyncOps ──┬── AppMessages ── AppMessages_proof
          └── AppOutbox ── AppOutbox_proof

VersionedField ── FieldWriters ── FieldWriters_proof
Presence ──────┬── Reachability_proof
RpcRouting ────┘
ClaudeRun ── ClaudeRun_proof
```

AgentOutbox, AgentInbox and AgentSession use SyncOps too.

In every module a step is what happens between two awaits (of the code that is modelled),
or one database statement or commit. Definitions whose name begins with `Mut` are the code
with a plausible bug in it; no specification uses them, they show that a property can fail.

**SyncOps** is the loop of `utils/sync.ts` as operators on a record: the flags
`_invalidated`, `_invalidatedDouble` and `_stopped`, and `phase`, which says where the
asynchronous `_doSync` stands. Modules that own a loop keep such a record next to their own
command. The phase `settling` is the gap between the resolution of the command and the
continuation after the `await`; an invalidation there sets the second flag and is honoured.

**InvalidateSync** is the class on its own, with callers and an abstract command. `Invalidate`,
`InvalidateAndAwait`, `AwaitQueue` (the app's copy has it) and `Stop` are the methods;
`CommandOk`, `CommandFails`, `Retry` and `Settle` are the steps of `_doSync` with its
`backoff`. History variables number the invalidations and remember which of them a run saw.

**SessionLog** is what the message store promises: a log in which each message and each
number occurs once and nothing changes (`Spec`), and, stronger, one that grows only at its
end (`OrderedSpec`), which a cursor reader needs.

**MessageStore** is the server side of one session's messages. A request is a record with
the phase its handler is in:

| Code | Action |
|---|---|
| POST arrives | `PostArrive` |
| `findMany` of the localIds, in the transaction | `PostFind` |
| counter update, creates, commit | `PostCommit`, or `PostConflict` when the unique index refuses |
| a statement fails | `PostFail` |
| the loop after the commit: user seq, `emitUpdate` | `Emit` |
| answer read, or given up | `TakeAnswer`, `Abandon` |
| socket `message`: counter, lookup and create, emit | `MessageAllocate`, `MessageCreate`, `Emit` |
| GET page | operators `Page` and `HasMore`, used by readers |

From the counter's UPDATE to the commit no other transaction gets past the row lock, so
these are one step; the lookup before them is a step of its own because it takes no lock at
Postgres' default isolation. The socket handler has no transaction, so its statements are
separate. Two equal creates, of which the second is refused by the index, end like the hit
of the lookup (nothing stored, a seq unused), which is why lookup and create are one step
there. The user seq of the message updates is not kept: nothing here depends on it.

**AgentOutbox** adds the sending half of `ApiSessionClient`: `pendingOutbox`, `sendSync` and
the POST under way. A batch remembers where it was cut, as the code does. A request the
client gave up goes on at the server and can race its retry. Quiet enqueues (transcripts
with images) are flushed by an invalidation that comes later.

**AgentInbox** adds the receiving half: the cursor `lastSeq`, the fast path for the next
message in line, `fetchMessages` with its pages, and reconnects. The first four lines of
`fetchMessages` run when the command starts, the body of its loop when an answer arrives.
The other writers are requests that nobody here waits for. A message that cannot be
decrypted counts as routed: the code logs it and goes on.

**AgentSession** is both halves on one server and one socket, with `close()`. For liveness
it also has `HalvesSpec`, in which a behaviour has only one half at work: an agent that has
not begun to listen and sends, or one that has nothing to send and listens.

**VersionedField** is one versioned field on the server, of a session (`metadata` and
`agentState`, whose handlers have the same code) or of a machine (`metadata` and
`daemonState`, likewise): the variable `kind` says which and never changes. A handler has
four steps (lookup with version check, conditional UPDATE, user seq, broadcast with answer)
and interleaves with itself. When the UPDATE matches no row a session's handler answers the
row it had read, and a machine's reads again (`FieldReread`). `history` is the sequence of
stored values, so a version is an index. A value is the set of changes merged into it: what
a property needs to tell apart is whose change is missing. The session or machine is
assumed to exist. That `machine-update-state` also sets `active` is in Presence.

**FieldWriters** adds who writes. Agents, through `updateMetadata` / `updateAgentState`: one
call at a time under an `AsyncLock`. Daemons, through `updateMachineMetadata` /
`updateDaemonState`: any number of calls at once, and an `update` is adopted whatever its
version. Both are repeated by `backoff` until an answer ends them. Apps, through
`sessionArchive`, `sessionUpdateAgentModesMetadata` and `machineUpdateMetadata`: three
attempts. An app's call starts from any version of the field, since its copy may be old;
what an app does with updates is left out for the same reason (`Listeners` are the agents).
socket.io buffers what is emitted offline and rejects an acknowledgement when the
connection is lost. A request carries the version and value of the moment it was made,
whatever is heard before it arrives.

**AppMessages** is how the app reads a session: `fetchMessages` forward,
`loadOlderMessages` with the background prefetch backward, `new-message` updates, the
message queue with its drain, and the session's lock that all of them share. `sessionLastSeq` is
moved by three parties: fetched pages, live updates that are next in line, and the answers
to the app's own POSTs, without the lock. The server is the ordered log (MessageStore
implements it), so a page is a set of rows computed when the server answers, and applied when
the answer is handled. History variables: `jumped`, the rows an own POST's answer moved
the cursor over, and `blind`, a first page with nothing to show.

| Code (`sync.ts`) | Action |
|---|---|
| `fetchMessages`: request, answer read, page applied, failure | `FetchAsks`, `FetchRead`, `FetchInitialApplies` / `FetchForwardApplies`, `FetchThrows` |
| `loadOlderMessages`, `prefetchOlderMessagesInBackground` | `LoadOlder`, `OlderAsks`, `OlderRead`, `OlderApplies`, `OlderThrows`, `PrefetchEnds` |
| `handleUpdate` of `new-message` | `NewsArrives` |
| `enqueueMessages`, the drain | `QueueDrains`, `QueueFinishes` |
| `sendMessage`, the POST and its answer in `flushOutbox` | `SendMessage`, `PostStored`, `PostAnswered` |

**AppOutbox** is how the app sends: `pendingOutbox`, `flushOutbox` under its `InvalidateSync`,
and the watchdog that, when the app stays in the background with something to send, aborts
the POST and reports the outbox as failed. `pendingOutbox` is a Map to arrays, and
`sendMessage` and `flushOutbox` keep the array they found there over their awaits while others
take it out of the Map; so `arrays` has every array that was made, `entry` is the one in the
Map, and `post.array` and `held` are those that are kept. `dropped` is what goes down with an
array nobody looks at. A POST is being sent, stored, or answered, and `post.aborted` says that
`controller.abort()` was called: it makes the request throw unless the answer is in. A POST
that was given up may be carried out later (`late`). `stored` is a set, since the store keeps
one row per message.

| Code (`sync.ts`) | Action |
|---|---|
| `sendMessage` with attachments: the array taken, one attachment encrypted and pushed | `BeginAttachments`, `PushFile` |
| `sendMessage`, the text | `SendMessage` |
| `flushOutbox`: POST at the server, answer read, success, failure | `PostStored`, `PostAnswered`, `PostOk`, `PostThrows` |
| the app's state, the watchdog's timer and its end | `GoBackground`, `GoActive`, `WatchdogFires`, `WatchdogFails` |

**Presence** is the write-behind cache of `sessionCache.ts` with validation, batched flush,
cleanup and shutdown, the sweep of `timeout.ts` and the writes that go past the cache
(`session-end`, archive, `machine-update-state`). One session or one machine; rows share
nothing. Instants are ages in ticks, capped where they stop to matter, so time needs no
bound. A tick has at least one heartbeat of a running agent and one batch timer in it. A
heartbeat's handler awaits the database and is two steps; a flush collects and
then writes; the sweep finds and then marks. `TimesAssumption` says how the times stand to one
another: an entry outlives a batch timer, and the sweep's ten minutes are longer than the
threshold and two delays of a heartbeat. `MaxDelay` is how late a heartbeat's time may be when
it arrives; the server accepts up to ten minutes, so that it is small is an assumption on the
network and the clocks, not on the code.

**RpcRouting** is a remote call. `RpcHandlerManager` registers its handlers when a
connection opens and when they change; the server keeps a room per method. A connection
breaks at one moment, and either side notices at its own: until the server does, a dead
socket stays in its rooms, perhaps beside the live one. A call looks the room up (with
retries and, when it is empty, the grace period), sends the request to the first socket
found, and races the acknowledgement, its timeout and the presence poll that gives up after
two misses. The durations are not counted: each timer may fire at any time.

**ClaudeRun** is one run of Claude: the loop over the local and the remote launcher; the
remote launcher's launches with `nextMessage` over `MessageQueue2`, the parked prompt
(`pending`), abort, switch and exit at any await; Claude's tool calls, their delayed release by
`OutgoingMessageQueue`, and the permission requests with answers, aborts of all or of one, and
resets. What the app shows is the agent state, and `updateAgentState` only enqueues: an update
(`writes`) is carried out once those before it are (`WriteDone`), or is lost when the server
answers 'error' (`WriteIgnored`). Prompts are numbered in the order they come in. History
variables say which were given to a query, cleared, or lost with a switch or a dead query.

## 4. Runs

| Run | Question | Bounds |
|---|---|---|
| `invalidate_sync` | does coalescing lose an invalidation or a caller? | 2 callers, 4 invalidations |
| `message_store` | is the store the abstract log under races, failures, crashes? | 3 messages, two batches that share one, one with a repetition; 2 handlers, 2 sockets of which either may send a message of the batches |
| `agent_outbox` | is a message lost between enqueue and row? are they numbered in order? is the store the ordered log? | 3 messages, batches of 2, 2 handlers |
| `agent_session` | does the cursor pass anything unseen, do the halves disturb each other? | 1 own message, 2 of others in one batch, pages of 2, 2 handlers |
| `agent_halves` | is everything stored in the end? does everything arrive? | 2 messages, batches and pages of 1, 2 handlers (the listener's writers use one at a time) |
| `field_writers` | is a change overwritten, a call stuck? | 3 changes, an agent or daemon with two calls and an app, 2 handlers, 1 lost connection, restart or failing statement |
| `app_messages` | is something missing between the app's cursors? is "no more history" true? does the queue drain? | 1 own message, 2 of others of which one shows nothing, pages of 1 |
| `app_outbox` | is something typed neither stored, kept nor reported, and when? is it settled in the end? | 2 messages, one of them with 2 attachments |
| `presence` | is a live agent swept? does one that runs become active, one that is gone inactive? | cache and threshold of 2 ticks, sweep after 7, 2 heartbeat handlers, 1 archive request or restart |
| `rpc_routing` | do rooms follow handlers? does a call fail without a reason, or hang? | 1 call, 2 methods, 2 connections, 2 changes of handlers, 2 failed lookups |
| `claude_run` | are prompts in order and served, is output in order, can the requests the app is shown be answered? | 3 prompts of 2 modes, plain or `/clear`, 2 tool calls of which one asks for permission |

The bounds are the smallest at which the interesting things happen together: a batch that
is not the whole outbox, a page that is not all there is and one that is exactly full, two
equal requests at once, a retry next to its abandoned first attempt, a lock with a waiting
call next to a conflicting writer, one crash between any two steps, a connection that is
dead for one side only, a sweep longer than cache, threshold and batch timer together.
Bounds that appear in guards are `MaxAsked`, `MaxEnqueued`, `MaxSeq` (seqs the socket handler
may allocate), `MaxUpsets`, `MaxConns`, `MaxChanges`, `MaxFails`, `MaxCalls`, `MaxAsks` and
`MaxPrompts`;
where a run sets `MaxSeq` to 0 the socket event is not in use. Deadlock is checked in
`presence`, where time always goes on. In the others it is not: with all calls made, all
messages sent and everything delivered the systems rest.

One more run, `agent_inbox_socket_writer`, ends in a violation; section 7 is about it.

Properties that say more than they seem to:

- `NothingSkipped` is the reason for the fast path's condition and for `Math.max` in
  `fetchMessages`: a fetched page and updates move one cursor, in any order.
- `StoredInOrder` holds while what is outstanding always fitted into one batch (history
  variable `crowded`). With more, the code sends the newest batch first, on purpose.
- `AckedStays` is what optimistic concurrency is for: no acknowledged change disappears,
  although acknowledgements are lost and calls are repeated, copies step back, and a daemon
  writes from calls that overlap. The reason is `CopiesAreHistory`, that versions determine
  values. What does not hold, and no document promises: an agent's copy is monotonic.
- `CursorCovers` compares the app's two cursors with the server's log at every moment; the
  rows it excepts are those of item 5 of section 7.
- `SweepSparesTheLive` counts ticks with a heartbeat (`streak`) and says that threshold,
  cache, batch timer, a replaced entry and a cleanup never add up to the sweep's ten minutes;
  the agent needs a streak of `Patience`, that is Threshold + MaxDelay + 4 ticks, for that.
- `CalmCallsAreAnswered` says which circumstances excuse a failed call (history field `calm`);
  without any of them the code's lookup, grace period and poll must not fail it.
- `RequestsAreAnswerable` relates what the app will show once the updates of the agent state
  that are under way are done, what the handler can still answer, and where the launch is. Its
  hazard is the order of updates: a request, its answer and a reset wait in one line while
  turns, aborts and launches go on. With one call that asks the run sees these orders for one
  request; that requests do not disturb one another is what the proof shows. It excepts
  `excused`, two ways in which the code does leave the app with the wrong request (section 7).
- `TypedIsAccountedFor` says when the code may drop something without a word: it does, and
  section 7 says how. A text needs a POST that was answered and failed by the watchdog.
- `TypedIsSettled` and `PromptIsServed` are of the form `[]<>`: what is settled once remains so,
  so that all is settled again and again is that each is settled. `PromptIsServed` also stops
  where a turn waits for a permission whose request was refused on its way to the app.

`AppTypeOK`, `PresenceTypeOK`, `RunTypeOK`, `CopiesAreHistory` and `BatchStaysInPlace` are
checked by no run; they are proved (section 6).

## 5. Fairness

- Timers fire and continuations run: weak fairness of `Retry`, `Settle`, `SendRetry`,
  `AgentSends` and the like. The event loop guarantees it.
- A handler that was started goes on: weak fairness of the server's steps, which may fail.
- A request that is not answered times out (60 s): weak fairness of `PostThrows`.
- A command that is tried again and again succeeds in the end, and a request reaches the
  server and is answered in time if it is repeated for ever: strong fairness of `CommandOk`,
  `PostReaches`, `PostOk`, `GetServed`, `FetchContinues`, and of a handler's steps while its
  client waits. This is the assumption that the network and the database are not down, nor
  slower than the client's patience, for ever. Without it no retry loop promises anything.
- The client reconnects (`CliConnect`, `Connects`): `startSmartReconnect` tries every three
  seconds. No fairness is assumed of failures, crashes, closing, or new calls.

- FieldWriters: timers, arrivals and the server's steps are weakly fair; failing statements,
  lost connections and new calls need not happen. For a daemon, `Connects` assumes that the
  machine is awake and on the network again at some time (`shouldReconnect`).
- AppMessages: requests end, well or badly (weak), and an older page that is asked for again
  and again comes in the end (strong).
- AppOutbox: a POST that is sent again and again gets through and is answered (strong fairness
  of `PostStored` and `PostAnswered`), the watchdog's timer fires, and a `sendMessage` that has
  begun with its attachments goes on (`GoesOn`). Nothing makes the user come back to the app.
- Presence: time passes and timers fire; the database does not fail for ever (strong fairness
  of the validation and of the flush's write).
- RpcRouting: the server's timers fire and a lookup returns or fails. Nothing is assumed of
  the agent, of its handlers or of the network.
- ClaudeRun: a stopped Claude exits, cleanups, turns and tools end, and the user answers the
  requests the app shows; updates of the agent state are done or refused (`WriteDone`, which a
  refusal disables). Nothing is assumed of aborts, switches or timers of the queue.
- AgentSession's `HalvesSpec` joins a strong condition on the sender with one on the
  listener, as only one of the two halves is at work in a behaviour; a strong condition on
  a disjunction of which one disjunct is never enabled is the condition on the other.

`agent_halves` sets `EmitCanFail` to FALSE: when the loop that announces committed rows
fails, nobody is told of the rest, and a receiver learns of it at the next update or
reconnect only. The safety runs leave it on.

## 6. Proofs

TLAPS checks the following for all values of the constants that satisfy the ASSUMEs of the
modules (any callers, handlers, sockets, messages and batches).

**InvalidateSync_proof.** `TypeCorrect`, `CallersAreServed`, `IdleIsUpToDate`,
`NobodyIsStranded`. The inductive invariant `IInv` adds to these properties how the two
flags and the phase go together (`_invalidated` is set exactly while a run is under way or
the instance was stopped in one; the second flag is set whenever a run has not seen the
last invalidation), that a caller's ticket is never newer than the last invalidation, and
that waiters are queued.

**MessageStore_proof.** `StoreTypeCorrect`, `MessagesAreUnique`, `RepliesAreTrue`,
`UpdatesAreTrue`; that the store implements the abstract log (`StoreImplementsLog`), and the
ordered log when there is no writer on the socket event (`PostsImplementOrderedLog`).
None of them is inductive alone. `IInv` adds:

- `RequestsSound`: what each request holds is right for its phase: found rows are committed
  and belong to the batch, rows still to be announced are committed, an allocated seq is
  within the counter and not in a row;
- `RequestsApart`: two requests never hold the same allocated seq or announce the same row;
- `SeqsAllocated`: no row has a seq beyond the counter;
- `TodoIsNew`: what is still to be announced is in no socket's channel.

`PostCommit` is where it all meets: the new rows' ids are not stored because the unique
index is checked in the same step, their seqs are new because they are beyond the counter.
The request part is a constant-level predicate on (request, rows, counter) with a
monotonicity lemma, so every step of one handler preserves it for the others. For the
ordered log, new seqs are beyond the counter and rows are not.

**AgentSession_proof** is about `ApiSessionClient` on the store, in three invariants, each on
top of MessageStore's `IInv`.

- `BInv`, for `EnqueuedIsNeverLost` and `BatchIsCutWhereItStands` of the sending half: the
  batch of the POST still stands in the outbox where it will be cut out (`PostIsPlaced`), the
  request the client waits for holds that batch (`PostIsServed`), and no handler with a
  waiting client is free. `NothingLost` alone does not say that the answer is about the rows
  that are cut out.
- `OInv`, for `OwnOrderIsKept` and `OutboxImplementsOrderedLog`, while no more than a batch
  was ever outstanding: the outbox is the tail of what was enqueued, with everything before it
  stored, and every batch the server may still carry out, abandoned ones too, is a stretch of
  it with all before it stored (`BatchesInLine`); so is the set of rows (`StoredIsClosed`).
- `SInv`, for `InboxTypeCorrect`, `CursorSkipsNothing`, `NewsComesInOrder` and
  `SessionLosesNothing` of both halves together with `close()`: the cursor stays within the
  numbers given out and only moves forward, what was routed is stored and not beyond it, and
  an answered page has every row between the cursor it was asked after and its last row
  (`PageIsWhole`), those stored since included, as there are none. These hold under
  `SocketIds = {}`, that nobody writes through the socket event: with such a writer they do
  not hold, which is item 1 of section 7. `SessionImplementsOrderedLog` says under the same
  condition that the store keeps its promise of an ordered log with all of them at work.

That a page is whole comes from its definition, the rows with the fewest rows below them, by
cardinalities of finite sets; no recursive definition is involved.

**FieldWriters_proof.** `WritersTypeCorrect`, `AckedIsNeverLost`, `NothingIsOverwritten` (an
action property) and `CopiesAreAlwaysHistory`, for sessions and machines alike. The heart of
the invariant is that what is proposed contains the value at its expected version: for calls
that were sent (`AsksAreGrounded`), for requests in each phase of the handler
(`RequestsAreGrounded`), and answers carry the change they acknowledge (`PacketsAreDue`). The
version check then makes the history grow (`HistoryGrows`). The rest is bookkeeping that the
first needs: a request or an answer belongs to one waiting call (`OneAnswerEach`), the
`AsyncLock` is a line of the calls that are made and not over (`LocksAreLines`,
`LocksAreHeld`), and copies are past values (`CopiesArePast`).

**AppMessages_proof.** `AppTypeCorrect`, `CursorsCoverTheLog`, `NoHistoryIsHidden`, for any
messages, any of which may show nothing, and any page size from 1. The invariant: everybody who waits for
the session's lock stands in its line once, and only the first is at work (`LockLine`); the
cursors are not beyond the log (`CursorsInLog`); a page that has been read is whole from its
cursor to its last row, forward (`FetchIsWhole`) and backward (`OlderIsWhole`), the backward
one up to a cursor that nobody moves meanwhile, which is what the lock is for.
The log starts with two messages at most (`AppInit`).

**AppOutbox_proof.** `OutboxTypeCorrect`, `TypedIsNeverJustDropped`, `BatchIsAlwaysFront`. The
loop runs while a POST is under way, and the POST is aborted exactly when its array is not the
Map's any more (`LoopAndPost`). One that was not aborted carries the front of the outbox
(`BatchIsFront`), which is what makes cutting its length off right. What a POST carries is
stored once it is answered and reported as failed once it is aborted (`BatchIsSettled`): so
when `flushOutbox` deletes an array that is not its own, something is both. What a run does not
carry has asked for another run (`RestIsAskedFor`), which keeps the second flag of
`InvalidateSync` in step with the outbox; and an array that `sendMessage` holds is the Map's,
or something was stored or reported when it was taken out (`HeldIsMapped`).

**Reachability_proof** has RpcRouting and Presence.

- `RoomsAgree`: `RegistrationsAgree` says nothing while a registration is on the wire, so it is
  not inductive. `LastWord` says that the last word on the wire about a method is the agent's,
  and the room has it where there is none. `FailsForAReason`: what nothing has disturbed
  (`calm`) has somebody in the room, and the call's end is an answer (`CallOK`).
  `Methods` is finite.
- `PresenceTypeCorrect`, `LiveAreSpared`, for all times within `TimesAssumption`. What an entry
  of the cache believes was written is nearly true of the row or ages with the streak of
  heartbeats (`SentIsNear`; `ReadIsNear` for a handler between its two steps). Then, over four
  ticks from a streak of Threshold + MaxDelay + 1: a heartbeat leaves an update
  (`BeatLeavesUpdate`), the update is safe or its entry expires (`UpdateIsSafe`), which can
  happen once, it is written (`UpdateComes`), and from there on the row is fresh
  (`RowIsFresh`), so no sweep finds it.

The patience and `TTL >= 2` are needed: TLC finds a live agent swept with a patience of
Threshold + 3 (for TTL, Threshold, Timeout, MaxDelay of 4, 2, 7, 0) and with entries that live
no longer than one batch (1, 2, 7, 0). The condition on `Timeout` is what the argument takes and
not the least one. The times of the code satisfy it: 6, 6 and 120 ticks of 5 s for a session,
whose heartbeat comes every 2 s, with any `MaxDelay` up to 54 ticks; and 2, 1 and 30 ticks of
20 s for a machine, whose heartbeat comes every 20 s, with any up to 12. These are four and a
half and four minutes.

**ClaudeRun_proof.** `RunTypeCorrect`, `PromptsComeInOrder`, `OutputGoesInOrder`,
`ShownCanBeAnswered`. Prompts: what was given, then what is parked, then what is queued are
one line in the order of the pushes (`PromptsInLine`), whatever aborts, switches and failed
launches do, and nobody waits for a prompt in a launch that ends (`WaitingPhases`). Output:
each message that went through the queue has as its number the count of those before it
(`Sound`), and what waits continues it (`Continues`). Requests (`RInv`): an update that is
appended decides about its own request and leaves what will be shown of the others, the first
update done changes nothing of what will be shown, one that is refused only what is excused,
and after a reset nothing will be shown. A reset that finds no request to take back is left
out, which is why it matters that an update with a request may still be waiting.

Together these are all safety invariants and action properties of the passing runs, and the
refinements `ImplementsLog` and `ImplementsOrderedLog`. Most of the strengthened invariants
were checked by TLC on the runs' instances before they were proved; all of them are proved
for any number of actors, messages, failures and steps that the modules' assumptions allow.
The bounds in guards (`MaxSeq`, `MaxUpsets`, `MaxChanges`, ...) are constants of the
theorems and can be any number.

With TLC only: the liveness properties (`EveryInvalidationHonoured`, `EveryCallerReturns`,
`EveryMessageIsStored`, `EveryMessageArrives`, `EveryCallEnds`, `QueueIsDrained`,
`TypedIsSettled`, `RunningBecomesActive`, `GoneBecomesInactive`, `EveryCallIsAnswered`,
`PromptIsServed`): they rest on fairness and ENABLED, which are out of the prover's reach.
No module here uses RECURSIVE operators.

## 7. Where code and documents disagree

1. **A message on the socket event can be skipped for ever** (`agent_inbox_socket_writer`).
   `sessionUpdateHandler.ts:212` allocates the seq before the lookup and the insert, outside
   a transaction. A POST that commits in between gets the next seq; a client that sees it
   passes the lower number, which then appears below its cursor.
   `docs/plans/reliable-http-messages-api.md:8`: "no messages lost; client can always catch
   up by polling with last known `seq`". `agentrejoin-agent` still writes this way.
2. **The cursor does not follow the client's own messages** (no run of its own).
   `docs/plans/cli-v3-messages-api.md:79` has `flushOutbox` move `lastSeq`; the code does
   not, and must not: the plan's step would pass over others' messages (it is the mutant
   `MutSendStep`, which breaks `NothingSkipped`). The document is what is wrong.
3. **A mismatch answer can be stale** (no run of its own; `MismatchTellsCurrent` of
   VersionedField is violated with two changes and no failure). `docs/protocol.md:199`
   promises the current version and data; when the conditional UPDATE matches no row,
   `sessionUpdateHandler.ts:47` answers the row read before. The writers survive it (they
   try again, `EveryCallEnds`), at the price of one attempt of an app's three. The machine
   handlers read the row again.
4. **Update seqs are not in the order of versions** (no run of its own;
   `SeqOrderIsVersionOrder` is violated with two changes and no failure).
   `docs/protocol.md:16`: "apply updates in order and you are consistent". The user seq is
   allocated after the write (`sessionUpdateHandler.ts:53`). The agent is safe because it
   compares versions, not seqs; the daemon because its next call is told of its mistake.
5. **The app passes over messages of others** (no run of its own; `NothingSkipped` of
   AppMessages is violated). The answer to an own POST sets `sessionLastSeq` to its highest
   seq (`sync.ts:1887`), also when rows below it have not been seen; the next forward fetch
   starts after them. The sentence of `reliable-http-messages-api.md:8` quoted above holds
   for the log, not for this reader. `CursorCovers` says that nothing else is missing.
6. **An ended session can become active again** (no run of its own; `EndedIsInactive` of
   Presence is violated). `docs/protocol.md:145`: "Marks session inactive and emits
   `ephemeral` activity." A heartbeat that waits in the cache is flushed after
   `session-end` (`sessionCache.ts:197`) and sets `active`; the sweep repairs it ten minutes
   later, which is `GoneBecomesInactive`.
7. **A switch of models need not take effect** (no run of its own; `ModeTakesEffect` of
   ClaudeRun is violated). A parked prompt that starts a query returns without setting
   `modeHash` (`claudeRemoteLauncher.ts:325-330`), so a prompt of another mode that comes
   next is taken for the first of its launch and runs in the old mode.
   `docs/experimental/product.md:135`: "- the model change takes effect".

What the models show besides, against no document:

- A message is dropped without a word. The app goes to the background while the answer to a
  POST is read and comes back when the 30 s are over: `failPendingOutboxMessages` aborts too
  late, reports the message as failed although it is stored, and takes the array out of the
  Map. What the user types next is in a new array; then `flushOutbox` goes on with the old one,
  finds it empty, and deletes the session's entry, the new array with it
  (`sync.ts:1896-1898`). This is `dropped` in AppOutbox; a comparison of the arrays before the
  `delete` would close it.
- An attachment is dropped when its array leaves the Map while it is encrypted
  (`sync.ts:643-690`): `sendMessage` took the array before, and the end of an earlier message's
  POST is enough to delete it. The text that follows is sent without it.
- A request stays in the app with nobody to answer it when Claude withdraws that one request
  (`permissionHandler.ts:223-226` leaves the agent state), or when the update that takes it
  back is answered 'error', which `updateAgentState` ignores (`apiSession.ts:950-953`); the
  next reset takes it back. When the update that shows a request is refused, the app never has
  it and the turn waits until it is aborted.
- A parked prompt is lost when the user switches or exits before the relaunch
  (`claudeRemoteLauncher.ts:290`), and a `nextMessage()` of a dead query takes a prompt that
  is pushed while the cleanup awaits. `PromptIsServed` excepts these (`lost`).
- Results of interrupted tool calls (`claudeRemoteLauncher.ts:466-472`) go past the outgoing
  queue and can precede their call; `OutputInOrder` is about the others.
- The comment at `storage.ts:859-861` on the pagination of older messages is not true of an
  empty or hidden first page (`blind` in AppMessages).
- `docs/multi-process.md:25-28` gives RPC times (10 s grace, about 1 s to abort, 500 ms per
  lookup) that are not those of `rpcHandler.ts` (15 s; two polls of 2 s; 2 to 8 s). A dead
  socket that is still in a room next to the live one may be the one that is used, and the
  call then fails when the poll or the timeout says so.

## 8. What is not modelled

Contents and encryption of messages; the wording of errors; metrics; authentication;
delays as durations; several server processes behind one Redis adapter (sockets of all of
them are one set here, which is what the adapter provides while it works); deletion of a
session under its writers; a call of an RPC to its own socket. In AppMessages a live message
that cannot be decrypted invalidates once and not twice; in ClaudeRun a second result of a
query that is idle is left out, and so are sub-agents, the transcript scanner and usage
reports. In AppOutbox encryption does not fail, and the deletion of a session, which drops
its outbox (`sync.ts:2299-2300`), is left out, as is the web, which has no watchdog. Code that
is not listed as modelled in `PROJECT.json` is either planned below or, for
authentication, push, GitHub, encryption and user interface, free of state that several
actors share.

## 9. Plan

Done: SyncOps, SessionLog, MessageStore, AgentOutbox, AgentInbox, AgentSession,
VersionedField and FieldWriters with sessions and machines, AppMessages, AppOutbox, Presence,
RpcRouting, ClaudeRun.

Models, in this order:

1. `AppSessionView`: the app's session record under updates captured before awaits
   (`sync.ts:2335`); the archive signal with its suppression.
2. Serializable transactions with retries and callbacks after the commit, and on them the
   key-value store and friends; artifacts, two versioned parts in one row.
3. Session deletion under writers that have looked the session up.
4. The Codex client's turns; `AsyncLock` with mutual exclusion and hand-over.
5. The daemon's life and recovery; the app's reducer against a replay in another order.

Proofs: every safety property of the runs is proved. Next:

1. Abstract specifications of a reader that hands on each message of an ordered log once, which
   AgentInbox should implement, and of a register that is only written by compare-and-set,
   which VersionedField should.
2. The planned models, each with its proof.
