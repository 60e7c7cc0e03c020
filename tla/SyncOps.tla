------------------------------ MODULE SyncOps ------------------------------
(***************************************************************************)
(* The coalescing loop of utils/sync.ts (class InvalidateSync) as          *)
(* operators on a record, so that the modules whose component owns one     *)
(* (the message outbox, the receive cursor, ...) can run it next to their  *)
(* own command.                                                            *)
(*                                                                         *)
(* phase says where the one asynchronous _doSync of the instance stands:   *)
(*   "idle"      none is active (or it ended after stop())                 *)
(*   "running"   the command was started and has not returned              *)
(*   "backoff"   the command threw; backoff() sleeps before the next try   *)
(*   "settling"  backoff() resolved; the code after the await has not run  *)
(***************************************************************************)
SyncState == [invalidated : BOOLEAN,
              double      : BOOLEAN,
              stopped     : BOOLEAN,
              phase       : {"idle", "running", "backoff", "settling"}]

NewSync == [invalidated |-> FALSE, double |-> FALSE, stopped |-> FALSE, phase |-> "idle"]

(* Does invalidate() start the command itself?  _doSync runs synchronously *)
(* up to the first await of the command.                                   *)
Starts(s) == ~s.stopped /\ ~s.invalidated

MutInvalidated(s) ==     \* mutant: an invalidation during a run is dropped
    IF s.stopped \/ ~Starts(s) THEN s
    ELSE [s EXCEPT !.invalidated = TRUE, !.double = FALSE, !.phase = "running"]
Invalidated(s) ==
    IF s.stopped THEN s
    ELSE IF Starts(s)
         THEN [s EXCEPT !.invalidated = TRUE, !.double = FALSE, !.phase = "running"]
         ELSE [s EXCEPT !.double = TRUE]

MutCommandReturned(s) == [s EXCEPT !.phase = "done"]    \* mutant: unknown phase
CommandReturned(s) == [s EXCEPT !.phase = "settling"]

CommandThrew(s) == [s EXCEPT !.phase = "backoff"]

(* The backoff delay is over: a stopped loop returns without the command.  *)
MutRetries(s) == FALSE   \* mutant: a command that threw is not tried again
Retries(s) == ~s.stopped

Retried(s) == [s EXCEPT !.phase = IF s.stopped THEN "settling" ELSE "running"]

(* The code after the await: another run when an invalidation came in      *)
(* meanwhile, otherwise idle again.  A stopped loop ends with invalidated  *)
(* still set.                                                              *)
MutReruns(s) == FALSE    \* mutant: the second flag is not looked at
Reruns(s) == ~s.stopped /\ s.double

Settled(s) ==
    IF s.stopped THEN [s EXCEPT !.phase = "idle"]
    ELSE IF Reruns(s)
         THEN [s EXCEPT !.double = FALSE, !.phase = "running"]
         ELSE [s EXCEPT !.invalidated = FALSE, !.phase = "idle"]

Stopped(s) == [s EXCEPT !.stopped = TRUE]

=============================================================================
