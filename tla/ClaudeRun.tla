------------------------------ MODULE ClaudeRun ------------------------------
(***************************************************************************)
(* One run of Claude under the agent (agentrejoin-cli, claude/loop.ts):    *)
(* prompts from the app wait in a MessageQueue2; the local launcher, whose *)
(* Claude the user drives at the terminal, gives way as soon as one comes; *)
(* the remote launcher feeds them to a query, one launch after another,    *)
(* parks a prompt that needs a launch of its own, and can be aborted or    *)
(* switched at every await.  What Claude says goes out through an          *)
(* OutgoingMessageQueue, and tool calls ask for permission.                *)
(*                                                                         *)
(* Prompts are numbered in the order they are pushed.  A push and the      *)
(* microtasks of the nextMessage() it wakes are one step.  An operation of *)
(* the outgoing queue takes effect when it is called: its lock is first    *)
(* come, first served.  What the user types at the terminal is not shown.  *)
(***************************************************************************)
EXTENDS Naturals, Sequences, FiniteSets, SequencesExt

CONSTANTS Modes,        \* mode hashes of prompts
          Kinds,        \* subset of {"plain", "isolated", "compact", "clear"}
          MaxCalls,     \* bound: tool calls that Claude makes
          MaxAsks,      \* bound: calls that it asks permission for
          MaxPrompts    \* bound: prompts pushed

ASSUME KindsAssumption == Kinds \subseteq {"plain", "isolated", "compact", "clear"}
ASSUME BoundsAssumption == MaxPrompts \in Nat /\ MaxCalls \in Nat /\ MaxAsks \in Nat

VARIABLES loop,         \* loop(): "local" | "remote" | "over"
          phase,        \* where that launcher is
          exitReason,   \* "none" | "switch" | "exit"
          queue,        \* MessageQueue2.queue
          waiting,      \* MessageQueue2.waiter is set
          parked,       \* the batch in `pending`, or none
          modeHash,     \* modeHash of the launch, or none
          query,        \* mode that the query was started with, or none
          pushed,       \* history: how many prompts were pushed
          given,        \* history: prompts that a query was given, in order
          dropped,      \* history: prompts cleared by /clear, /compact or abort
          lost          \* history: prompts that a switch or a dead query took along

promptVars == <<queue, waiting, parked, modeHash, query, pushed, given, dropped, lost>>

VARIABLES called,       \* tool calls Claude has made
          ongoing,      \* ongoingToolCalls
          asked,        \* calls that canCallTool was asked about
          pending,      \* permissionHandler.pendingRequests
          shown,        \* requests of the agent state, which the app shows
          writes,       \* updates of the agent state that wait for agentStateLock
          denied,       \* responses that were not approved
          out,          \* OutgoingMessageQueue.queue
          sent,         \* history: what went to the session, in order
          excused       \* history: calls whose request was withdrawn by Claude, or whose
                        \* update of the agent state the server refused

requestVars == <<asked, pending, shown, writes, denied, excused>>
toolVars == <<called, ongoing, requestVars, out, sent>>
runVars == <<loop, phase, exitReason, promptVars, toolVars>>

NoMode == "none"
NumbersOf(batch) == {batch[i].n : i \in DOMAIN batch}

-----------------------------------------------------------------------------
(* MessageQueue2                                                           *)

Alone(prompt) == prompt.kind # "plain"

(* collectBatch: one isolated prompt, or all of one mode up to the next    *)
(* change.                                                                 *)
BatchLength(q) ==
    IF Alone(q[1]) THEN 1
    ELSE CHOOSE n \in 1 .. Len(q) :
            /\ \A i \in 1 .. n : ~Alone(q[i]) /\ q[i].mode = q[1].mode
            /\ n < Len(q) => Alone(q[n + 1]) \/ q[n + 1].mode # q[1].mode
Batch(q) == SubSeq(q, 1, BatchLength(q))
Rest(q) == SubSeq(q, BatchLength(q) + 1, Len(q))

(* push, pushIsolated and pushIsolateAndClear, which empties the queue.    *)
Clears(kind) == kind \in {"compact", "clear"}
QueueWith(prompt) == IF Clears(prompt.kind) THEN <<prompt>> ELSE Append(queue, prompt)

-----------------------------------------------------------------------------
(* nextMessage() of the remote launcher.                                   *)

(* A batch goes to the query; a launch begins a query with its first one.  *)
(* /clear ends the launch instead.                                         *)
Give(batch, first) ==
    /\ query' = IF first THEN batch[1].mode ELSE query
    /\ given' = given \o [i \in DOMAIN batch |->
                            [n |-> batch[i].n, mode |-> batch[i].mode, ran |-> query']]
    /\ phase' = IF batch[1].kind = "clear" THEN "leaving" ELSE "turn"

(* The launch's hash is not set by a batch that was parked.                *)
Hash(first) == IF first THEN NoMode ELSE modeHash

NeedsLaunch(batch, hash) == (hash # NoMode /\ batch[1].mode # hash) \/ Alone(batch[1])

(* waitForMessagesAndGetAsString has a batch for the launch.               *)
Takes(q, first) ==
    /\ queue' = Rest(q)
    /\ waiting' = FALSE
    /\ IF NeedsLaunch(Batch(q), Hash(first))
       THEN /\ parked' = Batch(q)
            /\ phase' = IF first THEN "leaving" ELSE "ending"
            /\ modeHash' = Hash(first)
            /\ UNCHANGED <<query, given>>
       ELSE /\ modeHash' = Batch(q)[1].mode
            /\ Give(Batch(q), first)
            /\ UNCHANGED parked

Asks(first) ==
    IF queue # <<>> THEN Takes(queue, first)
    ELSE /\ waiting' = TRUE
         /\ phase' = IF first THEN "asking" ELSE "idle"
         /\ modeHash' = Hash(first)
         /\ UNCHANGED <<queue, parked, query, given>>

(* A launch, up to the await of its first nextMessage().                   *)
MutLaunches ==           \* mutant: the queue goes before the parked prompt
    IF parked # <<>> /\ queue = <<>>
    THEN /\ Give(parked, TRUE)
         /\ parked' = <<>> /\ modeHash' = NoMode
         /\ UNCHANGED <<queue, waiting>>
    ELSE Asks(TRUE)
Launches ==
    IF parked # <<>>
    THEN /\ Give(parked, TRUE)
         /\ parked' = <<>> /\ modeHash' = NoMode
         /\ UNCHANGED <<queue, waiting>>
    ELSE Asks(TRUE)

-----------------------------------------------------------------------------
(* The requests of the agent state.                                        *)

(* updateAgentState only enqueues: the update is computed and sent once    *)
(* those before it are through.                                            *)
Adding(t) == [op |-> "add", call |-> t]
Removing(t) == [op |-> "remove", call |-> t]
Resetting == [op |-> "reset", call |-> 0]

Applied(write, requests) ==
    CASE write.op = "add" -> requests \union {write.call}
      [] write.op = "remove" -> requests \ {write.call}
      [] write.op = "reset" -> {}

(* reset(): nothing is pending and no response is known any more.  An      *)
(* update that finds no request to take back is left out.                  *)
NothingToReset ==
    \/ shown = {} /\ \A i \in DOMAIN writes : writes[i].op # "add"
    \/ writes # <<>> /\ Last(writes) = Resetting

MutResetRequests ==      \* mutant: the agent state is not updated
    /\ pending' = {} /\ denied' = {}
    /\ UNCHANGED <<asked, shown, writes, excused>>
ResetRequests ==
    /\ pending' = {} /\ denied' = {}
    /\ writes' = IF NothingToReset THEN writes ELSE Append(writes, Resetting)
    /\ UNCHANGED <<asked, shown, excused>>

(* Success; after a version mismatch backoff() tries again.                *)
WriteDone ==
    /\ writes # <<>>
    /\ shown' = Applied(Head(writes), shown)
    /\ writes' = Tail(writes)
    /\ UNCHANGED <<loop, phase, exitReason, promptVars, called, ongoing, asked, pending,
                   denied, out, sent, excused>>

(* The answer 'error' is ignored: the update is lost, the next one follows.*)
WriteIgnored ==
    /\ writes # <<>>
    /\ LET after == Applied(Head(writes), shown)
       IN  excused' = excused \union (after \ shown) \union (shown \ after)
    /\ writes' = Tail(writes)
    /\ UNCHANGED <<loop, phase, exitReason, promptVars, called, ongoing, asked, pending,
                   shown, denied, out, sent>>

-----------------------------------------------------------------------------
(* Prompts arrive.                                                         *)

(* In local mode a prompt stops the local Claude; in remote mode it wakes  *)
(* nextMessage().  While a launch cleans up, its old nextMessage() takes   *)
(* the prompt and has no query to give it to, but it may park it.          *)
Push(mode, kind) ==
    LET prompt == [n |-> pushed + 1, mode |-> mode, kind |-> kind]
        q      == QueueWith(prompt)
    IN  /\ loop # "over" /\ pushed < MaxPrompts
        /\ pushed' = pushed + 1
        /\ dropped' = dropped \union (NumbersOf(queue) \ NumbersOf(q))
        /\ CASE waiting /\ phase # "leaving" ->
                    Takes(q, phase = "asking") /\ UNCHANGED lost
             [] waiting /\ phase = "leaving" ->
                    /\ waiting' = FALSE
                    /\ queue' = <<>>
                    /\ IF NeedsLaunch(<<prompt>>, modeHash)
                       THEN parked' = <<prompt>> /\ lost' = lost
                       ELSE lost' = lost \union {prompt.n} /\ UNCHANGED parked
                    /\ UNCHANGED <<phase, modeHash, query, given>>
             [] OTHER ->
                    /\ queue' = q
                    /\ phase' = IF loop = "local" /\ phase = "running"
                                THEN "stopping" ELSE phase
                    /\ UNCHANGED <<waiting, parked, modeHash, query, given, lost>>
        /\ UNCHANGED <<loop, exitReason, toolVars>>

-----------------------------------------------------------------------------
(* The local launcher.                                                     *)

(* Its handlers are in place after the await of createSessionScanner.      *)
MutLocalStarts ==        \* mutant: does not look at the queue
    /\ loop = "local" /\ phase = "entering"
    /\ phase' = "running"
    /\ exitReason' = exitReason
    /\ UNCHANGED <<loop, promptVars, toolVars>>
LocalStarts ==
    /\ loop = "local" /\ phase = "entering"
    /\ IF queue # <<>> THEN phase' = "leaving" /\ exitReason' = "switch"
                       ELSE phase' = "running" /\ exitReason' = exitReason
    /\ UNCHANGED <<loop, promptVars, toolVars>>

LocalSwitch ==
    /\ loop = "local" /\ phase = "running"
    /\ phase' = "stopping"
    /\ UNCHANGED <<loop, exitReason, promptVars, toolVars>>

(* doAbort, with MessageQueue2.reset                                       *)
LocalAbort ==
    /\ loop = "local" /\ phase \in {"running", "stopping"}
    /\ phase' = "stopping"
    /\ exitReason' = "switch"
    /\ dropped' = dropped \union NumbersOf(queue)
    /\ queue' = <<>> /\ waiting' = FALSE
    /\ UNCHANGED <<loop, parked, modeHash, query, pushed, given, lost, toolVars>>

(* claudeLocal returns, or throws an ExitCodeError.  After any other error *)
(* it is launched again.  phase is "stopping" once a switch is requested.  *)
LocalEnds ==
    /\ loop = "local" /\ phase \in {"running", "stopping"}
    /\ phase' = "leaving"
    /\ exitReason' = IF exitReason = "switch" \/ phase = "stopping" \/ queue # <<>>
                     THEN "switch" ELSE "exit"
    /\ UNCHANGED <<loop, promptVars, toolVars>>

(* After the awaits of its cleanup.                                        *)
LocalReturns ==
    /\ loop = "local" /\ phase = "leaving"
    /\ loop' = IF exitReason = "exit" THEN "over" ELSE "remote"
    /\ IF exitReason = "exit"
       THEN /\ phase' = "over"
            /\ UNCHANGED <<exitReason, promptVars, toolVars>>
       ELSE /\ exitReason' = "none"
            /\ Launches
            /\ ResetRequests
            /\ UNCHANGED <<pushed, dropped, lost, called, ongoing, out, sent>>

-----------------------------------------------------------------------------
(* The remote launcher's launches.                                         *)

(* Interrupted tool results are sent at once, past the outgoing queue.     *)
Interrupted(calls) == SetToSeq({[what |-> "result", call |-> t, id |-> 0] : t \in calls})

Interrupts ==
    /\ sent' = sent \o Interrupted(ongoing)
    /\ ongoing' = {}

(* claudeRemote returns or throws; the finally runs up to its await.       *)
LaunchEnds ==
    /\ loop = "remote" /\ phase \in {"turn", "idle", "ending"}
    /\ phase' = "leaving"
    /\ Interrupts
    /\ UNCHANGED <<loop, exitReason, promptVars, called, requestVars, out>>

(* The rest of the finally: everything goes out, permissions are reset;    *)
(* then the next launch, or the end of the launcher.                       *)
Message(item) == [what |-> item.what, call |-> item.call, id |-> item.id]
Messages(items) == [i \in DOMAIN items |-> Message(items[i])]
Flushed == sent \o Messages(out)

LaunchCleanedUp ==
    /\ loop = "remote" /\ phase = "leaving"
    /\ out' = <<>> /\ sent' = Flushed
    /\ ResetRequests
    /\ IF exitReason = "none"
       THEN Launches /\ UNCHANGED <<loop, exitReason, lost>>
       ELSE /\ loop' = IF exitReason = "exit" THEN "over" ELSE "local"
            /\ phase' = IF exitReason = "exit" THEN "over" ELSE "entering"
            /\ exitReason' = "none"
            /\ lost' = lost \union NumbersOf(parked)
            /\ parked' = <<>> /\ modeHash' = NoMode /\ query' = NoMode
            /\ UNCHANGED <<queue, waiting, given>>
    /\ UNCHANGED <<pushed, dropped, called, ongoing>>

(* doAbort, doSwitch and onExit: nextMessage() returns null, the query is  *)
(* aborted, and with it the permission requests it waits for.              *)
RemoteAbort(reason) ==
    /\ loop = "remote"
    /\ exitReason' = IF exitReason = "none" THEN reason ELSE exitReason
    /\ waiting' = FALSE
    /\ phase' = IF phase \in {"asking", "leaving"} THEN "leaving" ELSE "ending"
    /\ pending' = {}
    /\ UNCHANGED <<loop, queue, parked, modeHash, query, pushed, given, dropped, lost,
                   called, ongoing, asked, shown, writes, denied, out, sent, excused>>

(* 'result': the turn is over, and the next prompt is asked for.           *)
TurnEnds ==
    /\ loop = "remote" /\ phase = "turn"
    /\ ongoing = {} /\ pending = {}
    /\ Asks(FALSE)
    /\ UNCHANGED <<loop, exitReason, pushed, dropped, lost, toolVars>>

-----------------------------------------------------------------------------
(* Tool calls, permissions and the outgoing queue.                         *)

InTurn == loop = "remote" /\ phase = "turn"

Released(t) == [i \in DOMAIN out |-> [out[i] EXCEPT !.released = @ \/ out[i].call = t]]

(* An assistant message with a tool call is held back for 250 ms.  Ids     *)
(* number what was enqueued; calls are numbered as Claude makes them.      *)
Ordered(i) == Cardinality({j \in 1 .. i : sent[j].id # 0})

Item(what, t, released) ==
    [what |-> what, call |-> t, released |-> released,
     id |-> Len(out) + Ordered(Len(sent)) + 1]

ToolUse(t) ==
    /\ InTurn /\ t = Cardinality(called) + 1
    /\ called' = called \union {t}
    /\ ongoing' = ongoing \union {t}
    /\ out' = Append(out, Item("use", t, FALSE))
    /\ UNCHANGED <<loop, phase, exitReason, promptVars, requestVars, sent>>

(* canCallTool, before or after the message with the call was handled.     *)
AskPermission(t) ==
    /\ InTurn /\ t \notin asked /\ (t \in called => t \in ongoing)
    /\ Cardinality(asked) < MaxAsks
    /\ asked' = asked \union {t}
    /\ pending' = pending \union {t}
    /\ writes' = Append(writes, Adding(t))
    /\ out' = Released(t)
    /\ UNCHANGED <<loop, phase, exitReason, promptVars, called, ongoing, shown, denied, sent,
                   excused>>

(* The answer to a request that the app shows; one that comes too late     *)
(* finds no pending request.                                               *)
AnswerPermission(t, approved) ==
    /\ t \in pending \cap shown
    /\ pending' = pending \ {t}
    /\ writes' = Append(writes, Removing(t))
    /\ denied' = IF approved THEN denied ELSE denied \union {t}
    /\ UNCHANGED <<loop, phase, exitReason, promptVars, called, ongoing, asked, shown, out,
                   sent, excused>>

(* Claude withdraws one request: its signal is aborted, which leaves the   *)
(* agent state as it is.                                                   *)
AbortRequest(t) ==
    /\ InTurn /\ t \in pending
    /\ pending' = pending \ {t}
    /\ excused' = excused \union {t}
    /\ UNCHANGED <<loop, phase, exitReason, promptVars, called, ongoing, asked, shown, writes,
                   denied, out, sent>>

(* A tool result; one of a call that was denied ends the launch.           *)
ToolResult(t) ==
    /\ InTurn /\ t \in ongoing \ pending
    /\ out' = Append(Released(t), Item("result", t, TRUE))
    /\ IF t \in denied
       THEN /\ phase' = "leaving"
            /\ sent' = sent \o Interrupted(ongoing \ {t})
            /\ ongoing' = {}
       ELSE /\ ongoing' = ongoing \ {t}
            /\ UNCHANGED <<phase, sent>>
    /\ UNCHANGED <<loop, exitReason, promptVars, called, requestVars>>

DelayEnds(t) ==
    /\ \E i \in DOMAIN out : out[i].call = t /\ ~out[i].released
    /\ out' = Released(t)
    /\ UNCHANGED <<loop, phase, exitReason, promptVars, called, ongoing, requestVars, sent>>

(* processQueueInternal: what is released, up to the first that is not.    *)
MutProcessOut ==         \* mutant: goes on behind it
    /\ \E i \in DOMAIN out :
          /\ out[i].released
          /\ sent' = Append(sent, Message(out[i]))
          /\ out' = RemoveAt(out, i)
    /\ UNCHANGED <<loop, phase, exitReason, promptVars, called, ongoing, requestVars>>

Ready(k) ==
    /\ \A i \in 1 .. k : out[i].released
    /\ k < Len(out) => ~out[k + 1].released

ProcessOut ==
    /\ \E k \in DOMAIN out :
          /\ Ready(k)
          /\ sent' = sent \o Messages(SubSeq(out, 1, k))
          /\ out' = SubSeq(out, k + 1, Len(out))
    /\ UNCHANGED <<loop, phase, exitReason, promptVars, called, ongoing, requestVars>>

-----------------------------------------------------------------------------
RunInit ==
    /\ loop \in {"local", "remote"}
    /\ phase = IF loop = "local" THEN "entering" ELSE "asking"
    /\ exitReason = "none"
    /\ queue = <<>> /\ waiting = (loop = "remote") /\ parked = <<>>
    /\ modeHash = NoMode /\ query = NoMode
    /\ pushed = 0 /\ given = <<>> /\ dropped = {} /\ lost = {}
    /\ called = {} /\ ongoing = {} /\ out = <<>> /\ sent = <<>>
    /\ asked = {} /\ pending = {} /\ shown = {} /\ denied = {} /\ excused = {}
    /\ writes = <<>>

Answers == \E t \in 1 .. MaxCalls, approved \in BOOLEAN : AnswerPermission(t, approved)
Results == \E t \in 1 .. MaxCalls : ToolResult(t)
Delays == \E t \in 1 .. MaxCalls : DelayEnds(t)

RunNext ==
    \/ \E mode \in Modes, kind \in Kinds : Push(mode, kind)
    \/ LocalStarts \/ LocalSwitch \/ LocalAbort \/ LocalEnds \/ LocalReturns
    \/ LaunchEnds \/ LaunchCleanedUp \/ TurnEnds
    \/ \E reason \in {"none", "switch", "exit"} : RemoteAbort(reason)
    \/ \E t \in 1 .. MaxCalls : ToolUse(t) \/ AskPermission(t) \/ AbortRequest(t)
    \/ Answers \/ Results \/ Delays \/ ProcessOut \/ WriteDone \/ WriteIgnored

RunSpec == RunInit /\ [][RunNext]_runVars

(* The cleanups end, a stopped Claude exits, tools and turns come to an    *)
(* end, updates of the agent state get through or are refused, and the user*)
(* answers the requests the app shows.                                     *)
RunFairness ==
    /\ WF_runVars(LocalStarts) /\ WF_runVars(LocalReturns)
    /\ WF_runVars(phase = "stopping" /\ LocalEnds)
    /\ WF_runVars(phase = "ending" /\ LaunchEnds) /\ WF_runVars(LaunchCleanedUp)
    /\ WF_runVars(TurnEnds) /\ WF_runVars(Results) /\ WF_runVars(Answers)
    /\ WF_runVars(WriteDone)

RunLiveSpec == RunSpec /\ RunFairness

-----------------------------------------------------------------------------
(* Every variable has its type, and nobody waits without a remote launch.  *)
RunTypeOK ==
    LET prompts == [n : 1 .. MaxPrompts, mode : Modes, kind : Kinds]
    IN  /\ loop \in {"local", "remote", "over"}
        /\ phase \in CASE loop = "local" -> {"entering", "running", "stopping", "leaving"}
                       [] loop = "remote" -> {"asking", "turn", "idle", "ending", "leaving"}
                       [] loop = "over" -> {"over"}
        /\ exitReason \in {"none", "switch", "exit"}
        /\ queue \in Seq(prompts) /\ parked \in Seq(prompts)
        /\ waiting \in BOOLEAN /\ (waiting => loop = "remote" /\ queue = <<>> /\ parked = <<>>)
        /\ modeHash \in Modes \union {NoMode}
        /\ query \in Modes \union {NoMode}
        /\ pushed \in 0 .. MaxPrompts
        /\ (dropped \union lost) \subseteq 1 .. pushed
        /\ UNION {called, ongoing, asked, pending, shown, denied, excused}
               \subseteq 1 .. MaxCalls
        /\ writes \in Seq([op : {"add", "remove", "reset"}, call : 0 .. MaxCalls])
        /\ out \in Seq([what : {"use", "result"}, call : 1 .. MaxCalls,
                       released : BOOLEAN, id : Nat \ {0}])
        /\ sent \in Seq([what : {"use", "result"}, call : 1 .. MaxCalls, id : Nat])

GivenNumbers == {given[i].n : i \in DOMAIN given}

(* Claude gets the prompts in the order they were sent, and none twice:    *)
(* a parked prompt is not overtaken, and no launch repeats one.            *)
PromptsInOrder ==
    \A i, j \in DOMAIN given : i < j => given[i].n < given[j].n

(* What docs/experimental/product.md expects of a switch of models: "the   *)
(* model change takes effect".  It does not in a query that was started by *)
(* a parked prompt, whose mode is not remembered.                          *)
ModeTakesEffect == \A i \in DOMAIN given : given[i].ran = given[i].mode

(* What Claude says reaches the session in the order it said it, and once, *)
(* whatever delays, permissions, aborts and flushes do to the queue; apart *)
(* from interrupted results, which go past it.                             *)
OutputInOrder ==
    \A i \in DOMAIN sent : sent[i].id # 0 => sent[i].id = Ordered(i)

(* Will the app show the request of t once the updates under way are done? *)
Concerns(write, t) == write.op = "reset" \/ write.call = t
WillShow(t) ==
    \/ t \in shown /\ \A i \in DOMAIN writes : ~Concerns(writes[i], t)
    \/ \E i \in DOMAIN writes :
          /\ writes[i] = Adding(t)
          /\ \A j \in DOMAIN writes : j > i => ~Concerns(writes[j], t)

(* What the app shows once the updates under way are done is what can be   *)
(* answered, whatever turns, answers, aborts and resets came while they    *)
(* waited; or the launch is about to end and to take it back.  Excused are *)
(* the requests Claude withdrew and those whose update was refused.        *)
RequestsAreAnswerable ==
    \A t \in 1 .. MaxCalls \ excused :
        /\ t \in pending => WillShow(t)
        /\ WillShow(t) => \/ t \in pending
                          \/ loop = "remote" /\ phase \in {"ending", "leaving"}

(* Every prompt gets to Claude in the end, whatever is aborted, switched   *)
(* or fails meanwhile, unless it was cleared or lost or the run is over, or*)
(* the turn waits for good for a permission that the app was never shown,  *)
(* the update with the request having been refused.  (What is given,       *)
(* cleared or lost remains so: settled again and again is settled.)        *)
PromptIsServed ==
    []<>(\/ 1 .. pushed \subseteq GivenNumbers \union dropped \union lost
         \/ loop = "over"
         \/ pending \cap excused # {})

=============================================================================
