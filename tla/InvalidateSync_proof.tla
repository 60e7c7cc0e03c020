------------------------ MODULE InvalidateSync_proof ------------------------
(***************************************************************************)
(* InvalidateSync keeps its promise to its callers, for any set of callers *)
(* and any bound on the number of invalidations.                           *)
(***************************************************************************)
EXTENDS InvalidateSync, TLAPS

(* The flags and the phase agree: the instance is idle exactly when it is  *)
(* not invalidated, until stop() freezes the flags.                        *)
FlagsAgree ==
    /\ ~sync.invalidated => (sync.phase = "idle" /\ ~sync.double)
    /\ (sync.phase = "idle" /\ ~sync.stopped) => ~sync.invalidated

(* What the runs have seen: without a second flag the current (or the last *)
(* attempted) run has seen every invalidation; once backoff resolved, the  *)
(* run it stands for was the last one.                                     *)
RunsHaveSeen ==
    /\ done <= seen /\ seen <= asked
    /\ (~sync.stopped /\ ~sync.double) => seen = asked
    /\ (~sync.stopped /\ sync.phase \in {"settling", "idle"}) => done = seen

(* Who is queued, and why that is enough.                                  *)
QueueSound ==
    /\ \A c \in Callers : caller[c] = "waiting" <=> c \in pendings
    /\ sync.phase = "idle" => pendings = {}
    /\ sync.stopped => pendings = {}
    /\ \A c \in Callers : ticket[c] <= asked

IInv == TypeOK /\ FlagsAgree /\ RunsHaveSeen /\ QueueSound /\ ServedMeansDone

-----------------------------------------------------------------------------
(* What the operators of SyncOps do to the four fields.                    *)
LEMMA InvalidatedFields ==
  ASSUME NEW s \in SyncState
  PROVE  /\ Invalidated(s) \in SyncState
         /\ Invalidated(s).stopped = s.stopped
         /\ s.stopped => Invalidated(s) = s
         /\ ~s.stopped => Invalidated(s).invalidated
         /\ Starts(s) => Invalidated(s).phase = "running" /\ ~Invalidated(s).double
         /\ (~s.stopped /\ ~Starts(s)) =>
                Invalidated(s).phase = s.phase /\ Invalidated(s).double
  BY DEF SyncState, Invalidated, Starts

LEMMA SettledFields ==
  ASSUME NEW s \in SyncState
  PROVE  /\ Settled(s) \in SyncState
         /\ Settled(s).stopped = s.stopped
         /\ s.stopped => /\ Settled(s).phase = "idle"
                         /\ Settled(s).invalidated = s.invalidated
                         /\ Settled(s).double = s.double
         /\ Reruns(s) => /\ Settled(s).phase = "running"
                         /\ Settled(s).invalidated = s.invalidated
                         /\ ~Settled(s).double
         /\ (~s.stopped /\ ~Reruns(s)) =>
                Settled(s).phase = "idle" /\ ~Settled(s).invalidated /\ ~Settled(s).double
  BY DEF SyncState, Settled, Reruns

LEMMA OtherFields ==
  ASSUME NEW s \in SyncState, NEW t,
         t \in {CommandReturned(s), CommandThrew(s), Retried(s), Stopped(s)}
  PROVE  /\ t \in SyncState
         /\ t.invalidated = s.invalidated /\ t.double = s.double
         /\ t = CommandReturned(s) => t.phase = "settling" /\ t.stopped = s.stopped
         /\ t = CommandThrew(s) => t.phase = "backoff" /\ t.stopped = s.stopped
         /\ t = Retried(s) => /\ t.stopped = s.stopped
                              /\ t.phase = IF s.stopped THEN "settling" ELSE "running"
         /\ t = Stopped(s) => t.stopped /\ t.phase = s.phase
<1>1. CASE t = CommandReturned(s)  BY <1>1 DEF SyncState, CommandReturned, CommandThrew, Retried, Stopped
<1>2. CASE t = CommandThrew(s)     BY <1>2 DEF SyncState, CommandReturned, CommandThrew, Retried, Stopped
<1>3. CASE t = Retried(s)          BY <1>3 DEF SyncState, CommandReturned, CommandThrew, Retried, Stopped
<1>4. CASE t = Stopped(s)          BY <1>4 DEF SyncState, CommandReturned, CommandThrew, Retried, Stopped
<1> QED BY <1>1, <1>2, <1>3, <1>4

-----------------------------------------------------------------------------
LEMMA InitIInv == Init => IInv
  BY DEF Init, IInv, TypeOK, FlagsAgree, RunsHaveSeen, QueueSound,
         ServedMeansDone, NewSync, SyncState

(* What invalidate() does to the parts that do not speak of the callers.   *)
LEMMA DoInvalidateKeeps ==
  ASSUME IInv, DoInvalidate, UNCHANGED done
  PROVE  /\ FlagsAgree' /\ RunsHaveSeen'
         /\ sync' \in SyncState /\ asked' \in Nat /\ seen' \in Nat
         /\ asked <= asked'
         /\ sync'.stopped = sync.stopped
         /\ (~sync.stopped) => (sync'.phase # "idle")
         /\ sync.stopped => (sync' = sync)
<1>1. CASE sync.stopped
  <2>1. sync' = sync /\ asked' = asked /\ seen' = seen
    BY <1>1, InvalidatedFields DEF Starts, DoInvalidate, IInv, TypeOK
  <2>2. FlagsAgree'
    BY <2>1 DEF IInv, FlagsAgree
  <2>3. RunsHaveSeen'
    BY <2>1 DEF IInv, RunsHaveSeen
  <2>4. sync' \in SyncState /\ asked' \in Nat /\ seen' \in Nat
    BY <2>1 DEF IInv, TypeOK
  <2>5. asked <= asked'
    BY <2>1 DEF IInv, TypeOK
  <2>6. (sync').stopped = sync.stopped
    BY <2>1
  <2>7. ~sync.stopped => sync'.phase # "idle"
    BY <1>1
  <2> QED BY <2>1, <2>2, <2>3, <2>4, <2>5, <2>6, <2>7
<1>2. CASE Starts(sync)
  BY <1>2, InvalidatedFields DEF Starts, DoInvalidate, IInv, TypeOK, FlagsAgree, RunsHaveSeen
<1>3. CASE ~sync.stopped /\ ~Starts(sync)
  BY <1>3, InvalidatedFields DEF Starts, DoInvalidate, IInv, TypeOK, FlagsAgree, RunsHaveSeen
<1> QED BY <1>1, <1>2, <1>3

LEMMA InvalidateIInv == IInv /\ Invalidate => IInv'
<1> SUFFICES ASSUME IInv, Invalidate PROVE IInv'
  OBVIOUS
<1>1. FlagsAgree' /\ RunsHaveSeen' /\ TypeOK'
  BY DoInvalidateKeeps DEF Invalidate, IInv, TypeOK
<1>2. QueueSound'
  BY DoInvalidateKeeps DEF Invalidate, IInv, TypeOK, QueueSound
<1>3. ServedMeansDone'
  BY DEF Invalidate, IInv, ServedMeansDone
<1> QED BY <1>1, <1>2, <1>3 DEF IInv

LEMMA InvalidateAndAwaitIInv ==
  ASSUME IInv, NEW c \in Callers, InvalidateAndAwait(c) PROVE IInv'
<1> USE DoInvalidateKeeps DEF InvalidateAndAwait
<1>1. FlagsAgree' /\ RunsHaveSeen' /\ TypeOK'
  BY DEF IInv, TypeOK
<1>2. QueueSound'
  BY DEF IInv, TypeOK, QueueSound
<1>3. ServedMeansDone'
  BY DEF IInv, TypeOK, ServedMeansDone, DoInvalidate, QueueSound
<1> QED BY <1>1, <1>2, <1>3 DEF IInv

LEMMA AwaitQueueIInv ==
  ASSUME IInv, NEW c \in Callers, AwaitQueue(c) PROVE IInv'
<1> USE DEF AwaitQueue, NothingQueued
<1>1. FlagsAgree' /\ RunsHaveSeen' /\ TypeOK'
  BY DEF IInv, TypeOK, FlagsAgree, RunsHaveSeen
<1>2. QueueSound'
  BY DEF IInv, TypeOK, QueueSound, FlagsAgree
<1>3. ServedMeansDone'
  BY DEF IInv, TypeOK, ServedMeansDone, FlagsAgree, RunsHaveSeen
<1> QED BY <1>1, <1>2, <1>3 DEF IInv

LEMMA StopIInv == IInv /\ Stop => IInv'
<1> SUFFICES ASSUME IInv, Stop PROVE IInv'
  OBVIOUS
<1> USE OtherFields DEF Stop, NotifyPendings
<1>1. FlagsAgree' /\ RunsHaveSeen' /\ TypeOK'
  BY DEF IInv, TypeOK, FlagsAgree, RunsHaveSeen
<1>2. QueueSound'
  BY DEF IInv, TypeOK, QueueSound
<1>3. ServedMeansDone'
  BY DEF IInv, TypeOK, ServedMeansDone
<1> QED BY <1>1, <1>2, <1>3 DEF IInv

LEMMA CommandIInv == IInv /\ (CommandOk \/ CommandFails) => IInv'
<1> SUFFICES ASSUME IInv, CommandOk \/ CommandFails PROVE IInv'
  OBVIOUS
<1> USE OtherFields DEF CommandOk, CommandFails
<1>1. FlagsAgree' /\ RunsHaveSeen' /\ TypeOK'
  BY DEF IInv, TypeOK, FlagsAgree, RunsHaveSeen
<1>2. QueueSound'
  BY DEF IInv, TypeOK, QueueSound
<1>3. ServedMeansDone'
  BY DEF IInv, TypeOK, ServedMeansDone, RunsHaveSeen
<1> QED BY <1>1, <1>2, <1>3 DEF IInv

LEMMA RetryIInv == IInv /\ Retry => IInv'
<1> SUFFICES ASSUME IInv, Retry PROVE IInv'
  OBVIOUS
<1> USE OtherFields DEF Retry, Retries
<1>1. FlagsAgree' /\ RunsHaveSeen' /\ TypeOK'
  BY DEF IInv, TypeOK, FlagsAgree, RunsHaveSeen
<1>2. QueueSound'
  BY DEF IInv, TypeOK, QueueSound
<1>3. ServedMeansDone'
  BY DEF IInv, TypeOK, ServedMeansDone
<1> QED BY <1>1, <1>2, <1>3 DEF IInv

LEMMA SettleIInv == IInv /\ Settle => IInv'
<1> SUFFICES ASSUME IInv, Settle PROVE IInv'
  OBVIOUS
<1> USE SettledFields DEF Settle, NotifyPendings, Reruns
<1>1. FlagsAgree' /\ RunsHaveSeen' /\ TypeOK'
  BY DEF IInv, TypeOK, FlagsAgree, RunsHaveSeen
<1>2. QueueSound'
  BY DEF IInv, TypeOK, QueueSound, FlagsAgree
<1>3. ServedMeansDone'
  <2>1. CASE Reruns(sync)
    BY <2>1 DEF IInv, ServedMeansDone
  <2>2. CASE sync.stopped
    BY <2>2 DEF IInv, TypeOK, ServedMeansDone, QueueSound
  <2>3. CASE ~sync.stopped /\ ~Reruns(sync)
    <3>1. done = asked
      BY <2>3 DEF IInv, RunsHaveSeen
    <3> QED BY <2>3, <3>1 DEF IInv, TypeOK, ServedMeansDone, QueueSound
  <2> QED BY <2>1, <2>2, <2>3
<1> QED BY <1>1, <1>2, <1>3 DEF IInv

LEMMA StutterIInv == IInv /\ UNCHANGED vars => IInv'
  BY DEF vars, IInv, TypeOK, FlagsAgree, RunsHaveSeen, QueueSound, ServedMeansDone

(* The inductive invariant holds of every reachable state.                 *)
THEOREM Inductive == Spec => []IInv
<1>1. IInv /\ [Next]_vars => IInv'
  BY InvalidateIInv, InvalidateAndAwaitIInv, AwaitQueueIInv, StopIInv,
     CommandIInv, RetryIInv, SettleIInv, StutterIInv DEF Next
<1> QED BY InitIInv, <1>1, PTL DEF Spec

(* Every variable keeps its type.                                          *)
THEOREM TypeCorrect == Spec => []TypeOK
<1>1. IInv => TypeOK
  BY DEF IInv
<1> QED BY Inductive, <1>1, PTL

(* A caller is let go only after a successful run of the command that      *)
(* started after its call (or by stop).                                    *)
THEOREM CallersAreServed == Spec => []ServedMeansDone
<1>1. IInv => ServedMeansDone
  BY DEF IInv
<1> QED BY Inductive, <1>1, PTL

(* Coalescing loses no invalidation: an idle instance has run its command  *)
(* since the last one.                                                     *)
THEOREM IdleIsUpToDate == Spec => []IdleMeansUpToDate
<1>1. IInv => IdleMeansUpToDate
  BY DEF IInv, TypeOK, SyncState, FlagsAgree, RunsHaveSeen, IdleMeansUpToDate
<1> QED BY Inductive, <1>1, PTL

(* Every waiting caller is queued with an active loop.                     *)
THEOREM NobodyIsStranded == Spec => []NobodyStranded
<1>1. IInv => NobodyStranded
  BY DEF IInv, QueueSound, NobodyStranded
<1> QED BY Inductive, <1>1, PTL

=============================================================================
