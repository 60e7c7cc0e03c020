--------------------------- MODULE InvalidateSync ---------------------------
(***************************************************************************)
(* class InvalidateSync (agentrejoin-cli and agentrejoin-app,              *)
(* utils/sync.ts): many invalidations, one command at a time, and callers  *)
(* that wait until their invalidation has been honoured.                   *)
(*                                                                         *)
(* The command itself is abstract: it reads its inputs when it starts, and *)
(* returns or throws some time later.  The counters asked / seen / done    *)
(* are history variables: they number the invalidations, and remember      *)
(* which of them had happened when the current run and the last successful *)
(* run read their inputs.                                                  *)
(***************************************************************************)
EXTENDS SyncOps, Naturals

CONSTANTS Callers,      \* concurrent async functions that wait on the instance
          MaxAsked      \* bound: invalidations in one behaviour

ASSUME MaxAskedAssumption == MaxAsked \in Nat

VARIABLES sync,         \* the instance's flags and the phase of its _doSync
          pendings,     \* _pendings: the callers whose resolve function is queued
          caller,       \* "out" | "waiting" | "served" | "released" (by stop)
          asked,        \* history: number of invalidations so far
          seen,         \* history: value of asked when the current run started
          done,         \* history: value of seen of the last run that succeeded
          ticket        \* history: the invalidation each caller waits for

vars == <<sync, pendings, caller, asked, seen, done, ticket>>

Init == /\ sync = NewSync
        /\ pendings = {}
        /\ caller = [c \in Callers |-> "out"]
        /\ asked = 0 /\ seen = 0 /\ done = 0
        /\ ticket = [c \in Callers |-> 0]

(* The effect of invalidate() on the instance, with the history it writes. *)
DoInvalidate ==
    /\ sync' = Invalidated(sync)
    /\ asked' = IF sync.stopped THEN asked ELSE asked + 1
    /\ seen' = IF Starts(sync) THEN asked' ELSE seen

Invalidate ==
    /\ asked < MaxAsked
    /\ DoInvalidate
    /\ UNCHANGED <<pendings, caller, done, ticket>>

InvalidateAndAwait(c) ==
    /\ asked < MaxAsked
    /\ caller[c] # "waiting"
    /\ DoInvalidate
    /\ IF sync.stopped
       THEN /\ caller' = [caller EXCEPT ![c] = "released"]
            /\ UNCHANGED <<pendings, ticket>>
       ELSE /\ pendings' = pendings \union {c}
            /\ caller' = [caller EXCEPT ![c] = "waiting"]
            /\ ticket' = [ticket EXCEPT ![c] = asked']
    /\ UNCHANGED done

(* awaitQueue has nothing to wait for.                                     *)
MutNothingQueued == sync.stopped
NothingQueued == sync.stopped \/ (~sync.invalidated /\ pendings = {})

(* The app's copy of the class only: wait without invalidating.            *)
AwaitQueue(c) ==
    /\ caller[c] # "waiting"
    /\ IF NothingQueued
       THEN /\ caller' = [caller EXCEPT ![c] = IF sync.stopped THEN "released" ELSE "served"]
            /\ pendings' = pendings
       ELSE /\ caller' = [caller EXCEPT ![c] = "waiting"]
            /\ pendings' = pendings \union {c}
    /\ ticket' = [ticket EXCEPT ![c] = asked]
    /\ UNCHANGED <<sync, asked, seen, done>>

(* _notifyPendings: resolves every queued caller.                          *)
NotifyPendings(how) ==
    /\ caller' = [c \in Callers |-> IF c \in pendings THEN how ELSE caller[c]]
    /\ pendings' = {}

Stop ==
    /\ ~sync.stopped
    /\ NotifyPendings("released")
    /\ sync' = Stopped(sync)
    /\ UNCHANGED <<asked, seen, done, ticket>>

CommandOk ==
    /\ sync.phase = "running"
    /\ sync' = CommandReturned(sync)
    /\ done' = seen
    /\ UNCHANGED <<pendings, caller, asked, seen, ticket>>

CommandFails ==
    /\ sync.phase = "running"
    /\ sync' = CommandThrew(sync)
    /\ UNCHANGED <<pendings, caller, asked, seen, done, ticket>>

(* The delay in backoff() is over; the retry reads the inputs afresh.      *)
Retry ==
    /\ sync.phase = "backoff"
    /\ sync' = Retried(sync)
    /\ seen' = IF Retries(sync) THEN asked ELSE seen
    /\ UNCHANGED <<pendings, caller, asked, done, ticket>>

(* The continuation of _doSync after its await.                            *)
Settle ==
    /\ sync.phase = "settling"
    /\ sync' = Settled(sync)
    /\ seen' = IF Reruns(sync) THEN asked ELSE seen
    /\ IF Reruns(sync) THEN UNCHANGED <<pendings, caller>>
                       ELSE NotifyPendings(IF sync.stopped THEN "released" ELSE "served")
    /\ UNCHANGED <<asked, done, ticket>>

Next == \/ Invalidate
        \/ \E c \in Callers : InvalidateAndAwait(c)
        \/ \E c \in Callers : AwaitQueue(c)
        \/ Stop
        \/ CommandOk
        \/ CommandFails
        \/ Retry
        \/ Settle

Spec == Init /\ [][Next]_vars

(* Timers fire and continuations run; a command that is retried again and  *)
(* again succeeds in the end.                                              *)
Fairness == WF_vars(Retry) /\ WF_vars(Settle) /\ SF_vars(CommandOk)

LiveSpec == Spec /\ Fairness

-----------------------------------------------------------------------------
(* Every variable has its type.                                            *)
TypeOK == /\ sync \in SyncState
          /\ pendings \in SUBSET Callers
          /\ caller \in [Callers -> {"out", "waiting", "served", "released"}]
          /\ asked \in Nat /\ seen \in Nat /\ done \in Nat
          /\ ticket \in [Callers -> Nat]

(* A caller that invalidateAndAwait (or awaitQueue) lets go on has had a   *)
(* complete successful run of the command that started after its call;     *)
(* only stop() lets a caller go without one.                               *)
ServedMeansDone == \A c \in Callers : caller[c] = "served" => done >= ticket[c]

(* The loop never goes idle while an invalidation has not been followed by *)
(* a run: coalescing loses no invalidation.                                *)
IdleMeansUpToDate == (sync.phase = "idle" /\ ~sync.stopped) => done = asked

(* No caller is stranded: whoever waits is queued, and somebody is at work *)
(* who will resolve the queue.                                             *)
NobodyStranded == \A c \in Callers :
    caller[c] = "waiting" => c \in pendings /\ sync.phase # "idle"

(* Every invalidation is followed by a successful run that read its inputs *)
(* later than the invalidation, unless the instance is stopped.            *)
EveryInvalidationHonoured ==
    \A n \in 1 .. MaxAsked : (asked = n) ~> (done >= n \/ sync.stopped)

(* Every caller that waits is let go.                                      *)
EveryCallerReturns ==
    \A c \in Callers : (caller[c] = "waiting") ~> (caller[c] # "waiting")

=============================================================================
