--------------------------- MODULE VersionedField ---------------------------
(***************************************************************************)
(* One versioned field on the server: metadata or agentState of a session, *)
(* metadata or daemonState of a machine.  The socket handlers of           *)
(* sessionUpdateHandler.ts and machineUpdateHandler.ts write it under      *)
(* optimistic concurrency control and broadcast the new value to the       *)
(* sockets of the session or the machine.                                  *)
(*                                                                         *)
(* A handler is four steps, with an await between any two: the lookup with *)
(* the version check, the conditional UPDATE, the allocation of a user seq,*)
(* and the broadcast with the acknowledgement.  A value is the set of the  *)
(* changes that writers have merged into it; each change is one call of a  *)
(* writer.  The session or machine exists.                                 *)
(***************************************************************************)
EXTENDS Naturals, Sequences, FiniteSets

CONSTANTS Changes,      \* what writers merge into the field
          Writers,      \* sockets that hear of the field, all of which may write
          Listeners,    \* those whose handling of updates is modelled
          NoWriter,     \* the socket a request came from is gone
          NoCall,       \* a packet that answers no call
          Handlers      \* requests the server works on at one time

ASSUME ListenersAssumption == Listeners \subseteq Writers
ASSUME NoWriterAssumption == NoWriter \notin Writers
ASSUME NoCallAssumption == NoCall \notin Changes

VARIABLES kind,         \* whose field it is: never changes
          history,      \* the field's values, version 0 first; the last is stored
          userSeq,      \* Account.seq, as far as this field's updates move it
          req,          \* what the handlers work on
          online,       \* writers that are connected
          inbox         \* packets sent to each writer and not yet handled

fieldVars == <<kind, history, userSeq, req, online, inbox>>

Value == SUBSET Changes

(* A packet to a writer: the broadcast update, marked with its user seq,   *)
(* or the answer to a call's request, marked with the version it expected. *)
Packet == [type    : {"update", "success", "mismatch", "error"},
           call    : Changes \union {NoCall},
           version : Nat,
           value   : Value,
           mark    : Nat]

Request == [phase    : {"free", "asked", "matched", "lost", "written", "numbered"},
            from     : Writers \union {NoWriter},
            call     : Changes \union {NoCall},
            expected : Nat,
            proposed : Value,
            seq      : Nat]

Free == [phase |-> "free", from |-> NoWriter, call |-> NoCall, expected |-> 0,
         proposed |-> {}, seq |-> 0]

Version == Len(history) - 1

ValueAt(v) == history[v + 1]

(* The callback of the request: it reaches the socket that asked, if it is *)
(* still connected.                                                        *)
Answer(h, type, version, value) ==
    inbox' = IF req[h].from = NoWriter THEN inbox
             ELSE [inbox EXCEPT ![req[h].from] =
                      Append(@, [type |-> type, call |-> req[h].call, version |-> version,
                                 value |-> value, mark |-> req[h].expected])]

-----------------------------------------------------------------------------
FieldArrive(h, w, c, expected, proposed) ==
    /\ req[h].phase = "free"
    /\ w \in online
    /\ req' = [req EXCEPT ![h] = [phase |-> "asked", from |-> w, call |-> c,
                                  expected |-> expected, proposed |-> proposed, seq |-> 0]]
    /\ UNCHANGED <<kind, history, userSeq, online, inbox>>

(* findUnique, and the check of the version that was read.                 *)
FieldCheck(h) ==
    /\ req[h].phase = "asked"
    /\ IF req[h].expected = Version
       THEN /\ req' = [req EXCEPT ![h].phase = "matched"]
            /\ inbox' = inbox
       ELSE /\ req' = [req EXCEPT ![h] = Free]
            /\ Answer(h, "mismatch", Version, ValueAt(Version))
    /\ UNCHANGED <<kind, history, userSeq, online>>

(* updateMany WHERE version = expectedVersion.  When it matches no row, a  *)
(* session's handler answers with the row that the lookup had read, and a  *)
(* machine's reads the row again.                                          *)
MutFieldWrite(h) ==      \* mutant: the UPDATE is not conditional
    /\ req[h].phase = "matched"
    /\ history' = Append(history, req[h].proposed)
    /\ req' = [req EXCEPT ![h].phase = "written"]
    /\ UNCHANGED <<kind, userSeq, online, inbox>>
FieldWrite(h) ==
    /\ req[h].phase = "matched"
    /\ \/ /\ req[h].expected = Version
          /\ history' = Append(history, req[h].proposed)
          /\ req' = [req EXCEPT ![h].phase = "written"]
          /\ inbox' = inbox
       \/ /\ req[h].expected # Version /\ kind = "session"
          /\ req' = [req EXCEPT ![h] = Free]
          /\ Answer(h, "mismatch", req[h].expected, ValueAt(req[h].expected))
          /\ history' = history
       \/ /\ req[h].expected # Version /\ kind = "machine"
          /\ req' = [req EXCEPT ![h].phase = "lost"]
          /\ UNCHANGED <<kind, history, inbox>>
    /\ UNCHANGED <<kind, userSeq, online>>

(* The second lookup of a machine's handler.                               *)
FieldReread(h) ==
    /\ req[h].phase = "lost"
    /\ Answer(h, "mismatch", Version, ValueAt(Version))
    /\ req' = [req EXCEPT ![h] = Free]
    /\ UNCHANGED <<kind, history, userSeq, online>>

(* allocateUserSeq                                                         *)
FieldNumber(h) ==
    /\ req[h].phase = "written"
    /\ userSeq' = userSeq + 1
    /\ req' = [req EXCEPT ![h].phase = "numbered", ![h].seq = userSeq + 1]
    /\ UNCHANGED <<kind, history, online, inbox>>

(* emitUpdate to the sockets concerned, then the success callback.         *)
FieldAnnounce(h) ==
    /\ req[h].phase = "numbered"
    /\ LET news(type, c, mark) == [type |-> type, call |-> c, version |-> req[h].expected + 1,
                                   value |-> req[h].proposed, mark |-> mark]
           update(w) == IF w \in online \intersect Listeners
                        THEN <<news("update", NoCall, req[h].seq)>> ELSE <<>>
           answer(w) == IF w = req[h].from
                        THEN <<news("success", req[h].call, req[h].expected)>> ELSE <<>>
       IN  inbox' = [w \in Writers |-> inbox[w] \o update(w) \o answer(w)]
    /\ req' = [req EXCEPT ![h] = Free]
    /\ UNCHANGED <<kind, history, userSeq, online>>

(* A statement throws: the answer is 'error', also when the field has been *)
(* written and only the user seq could not be had.                         *)
FieldFail(h) ==
    /\ req[h].phase \in {"asked", "matched", "lost", "written"}
    /\ Answer(h, "error", 0, {})
    /\ req' = [req EXCEPT ![h] = Free]
    /\ UNCHANGED <<kind, history, userSeq, online>>

-----------------------------------------------------------------------------
FieldConnect(w) ==
    /\ w \notin online
    /\ online' = online \union {w}
    /\ UNCHANGED <<kind, history, userSeq, req, inbox>>

(* The handlers go on, and answer nobody.                                  *)
FieldDisconnect(w) ==
    /\ w \in online
    /\ online' = online \ {w}
    /\ inbox' = [inbox EXCEPT ![w] = <<>>]
    /\ req' = [h \in Handlers |-> IF req[h].from = w THEN [req[h] EXCEPT !.from = NoWriter]
                                                     ELSE req[h]]
    /\ UNCHANGED <<kind, history, userSeq>>

FieldHear(w) ==
    /\ inbox[w] # <<>>
    /\ inbox' = [inbox EXCEPT ![w] = Tail(@)]
    /\ UNCHANGED <<kind, history, userSeq, req, online>>

-----------------------------------------------------------------------------
FieldInit ==
    /\ kind \in {"session", "machine"}
    /\ history = <<{}>>
    /\ userSeq = 0
    /\ req = [h \in Handlers |-> Free]
    /\ online = {}
    /\ inbox = [w \in Writers |-> <<>>]

FieldServer(h) == \/ FieldCheck(h) \/ FieldWrite(h) \/ FieldReread(h)
                  \/ FieldNumber(h) \/ FieldAnnounce(h)

-----------------------------------------------------------------------------
(* Every variable of the server has its type.                              *)
FieldTypeOK ==
    /\ kind \in {"session", "machine"}
    /\ history \in Seq(Value) /\ history # <<>>
    /\ userSeq \in Nat
    /\ req \in [Handlers -> Request]
    /\ online \subseteq Writers
    /\ inbox \in [Writers -> Seq(Packet)]

(* No silent overwrite: a write leaves every change in place that was      *)
(* merged before, whoever wrote it, and makes the version one higher       *)
(* (docs/protocol.md: "prevents silent overwrites").                       *)
NoSilentOverwrite ==
    [][history' # history =>
          \E value \in Value : /\ history' = Append(history, value)
                               /\ ValueAt(Version) \subseteq value]_history

(* What writers are told is what the field was at that version.            *)
PacketsAreHistory ==
    \A w \in Writers : \A i \in DOMAIN inbox[w] :
        LET p == inbox[w][i]
        IN  p.type # "error" => p.version <= Version /\ p.value = ValueAt(p.version)

(* docs/protocol.md: a version-mismatch answer has the current version and *)
(* data, which is not the version the request expected.                    *)
MismatchTellsCurrent ==
    \A w \in Writers : \A i \in DOMAIN inbox[w] :
        inbox[w][i].type = "mismatch" => inbox[w][i].version # inbox[w][i].mark

(* docs/protocol.md: who applies updates in the order of their seqs is     *)
(* consistent: a later seq means a later version.                          *)
SeqOrderIsVersionOrder ==
    \A w \in Writers : \A i, j \in DOMAIN inbox[w] :
        LET p == inbox[w][i]
            q == inbox[w][j]
        IN  (p.type = "update" /\ q.type = "update" /\ p.mark < q.mark)
                => p.version < q.version

=============================================================================
