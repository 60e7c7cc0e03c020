----------------------------- MODULE SessionLog -----------------------------
(***************************************************************************)
(* What a session's message store promises, whatever happens to the        *)
(* requests that fill it: a log of numbered messages that is only ever     *)
(* appended to and holds every message once.  This is what                 *)
(* @@unique([sessionId, localId]), the atomic counter Session.seq and the  *)
(* transaction around a batch are for.                                     *)
(*                                                                         *)
(* OrderedSpec is the stronger promise that a reader needs who asks for    *)
(* "everything after the last seq I have seen" and never looks back.       *)
(***************************************************************************)
EXTENDS Naturals

VARIABLE log            \* the visible entries, [seq, id]

Init == log = {}

(* Some new entries become visible together.                               *)
Append ==
    LET new == log' \ log
    IN  /\ log \subseteq log'
        /\ new # {}
        /\ \A e \in new : \A o \in log' \ {e} : o.id # e.id /\ o.seq # e.seq

(* ... and come after everything that was visible before.                  *)
AppendAtEnd == Append /\ \A e \in log' \ log : \A o \in log : o.seq < e.seq

Spec == Init /\ [][Append]_log

OrderedSpec == Init /\ [][AppendAtEnd]_log

=============================================================================
