------------------------- MODULE FieldWriters_proof -------------------------
(***************************************************************************)
(* The versioned fields and their writers, for any agents, apps, changes,  *)
(* handlers and number of failures: an acknowledged change stays, nobody's *)
(* write is overwritten unseen, and every copy is a value the field had.   *)
(***************************************************************************)
EXTENDS FieldWriters, SequenceTheorems, TLAPS

(* A call that was sent, a request and a packet each rest on a value the   *)
(* field had: what they would write has that value and the change in it.   *)
AsksAreGrounded ==
    \A c \in Changes : call[c].phase = "sent" =>
        /\ call[c].ask.version <= Version
        /\ c \in call[c].ask.value
        /\ ValueAt(call[c].ask.version) \subseteq call[c].ask.value

RequestsAreGrounded ==
    \A h \in Handlers : req[h].phase # "free" =>
        /\ req[h].call \in Changes /\ req[h].call \in req[h].proposed
        /\ req[h].expected <= Version
        /\ ValueAt(req[h].expected) \subseteq req[h].proposed
        /\ req[h].phase \in {"written", "numbered"} =>
               /\ req[h].expected < Version
               /\ ValueAt(req[h].expected + 1) = req[h].proposed

PacketsAreDue ==
    \A w \in Writers : \A i \in 1 .. Len(inbox[w]) :
        /\ inbox[w][i].type = "success" => inbox[w][i].call \in inbox[w][i].value
        /\ inbox[w][i].type = "update" => w \in Agents

(* The field only grows.                                                   *)
HistoryGrows == \A v \in 0 .. Version : \A u \in 0 .. v : ValueAt(u) \subseteq ValueAt(v)

(* A request whose socket is there, and an answer on its way, are those of *)
(* a call that waits; and there is one of them for each.                   *)
OneAnswerEach ==
    /\ \A h \in Handlers : req[h].from \in Writers =>
           /\ req[h].phase # "free"
           /\ call[req[h].call].phase = "waiting" /\ ChangeOf[req[h].call] = req[h].from
    /\ \A g, h \in Handlers :
           req[g].from \in Writers /\ req[h].from \in Writers /\ g # h
               => req[g].call # req[h].call
    /\ \A w \in Writers : \A i \in 1 .. Len(inbox[w]) : inbox[w][i].type # "update" =>
           /\ inbox[w][i].call \in Changes
           /\ call[inbox[w][i].call].phase = "waiting" /\ ChangeOf[inbox[w][i].call] = w
           /\ \A h \in Handlers : req[h].from = w => req[h].call # inbox[w][i].call
           /\ \A j \in 1 .. Len(inbox[w]) :
                  inbox[w][j].type # "update" /\ i # j => inbox[w][i].call # inbox[w][j].call

(* A lock has each call once, and a daemon has none.                       *)
LocksAreLines ==
    \A w \in Agents :
        /\ kind = "machine" => queue[w] = <<>>
        /\ \A i, j \in 1 .. Len(queue[w]) : queue[w][i] = queue[w][j] => i = j

(* The parts of WritersTypeOK.                                             *)
WriterTypes ==
    /\ copy \in [Agents -> Row]
    /\ queue \in [Agents -> Seq(Changes)]
    /\ call \in [Changes -> Call]
    /\ upsets \in 0 .. MaxUpsets

LocksAreHeld ==
    \A w \in Agents :
        /\ kind = "session" => {queue[w][i] : i \in DOMAIN queue[w]}
                                   = {c \in CallsOf(w) : Made(c) /\ ~Over(c)}
        /\ \A i \in DOMAIN queue[w] : call[queue[w][i]].phase = "locked" <=> i > 1

(* The part of CopiesAreHistory that is about the agents' copies.          *)
CopiesArePast ==
    \A w \in Agents : /\ copy[w].version <= Version
                      /\ copy[w].value = ValueAt(copy[w].version)

IInv == /\ FieldTypeOK /\ WriterTypes
        /\ LocksAreHeld /\ LocksAreLines /\ OneAnswerEach
        /\ PacketsAreHistory /\ PacketsAreDue /\ CopiesArePast
        /\ AsksAreGrounded /\ RequestsAreGrounded /\ HistoryGrows /\ AckedStays

-----------------------------------------------------------------------------
(* Facts about the state.                                                  *)

LEMMA AtFacts ==
  /\ NoRow \in Row
  /\ \A phase \in {"none", "locked", "next", "sent", "waiting", "backoff", "acked", "dropped"} :
         At(phase) \in Call /\ At(phase).phase = phase
  BY DEF At, NoRow, Row, Value, Call, MaxAttempts

LEMMA FreeFacts == Free \in Request /\ Free.phase = "free" /\ Free.from \notin Writers
  BY NoWriterAssumption DEF Free, Request, Value

LEMMA HistoryFacts ==
  ASSUME FieldTypeOK
  PROVE  /\ Version \in Nat /\ Len(history) = Version + 1
         /\ \A v \in 0 .. Version : ValueAt(v) \in Value
<1>1. history \in Seq(Value) /\ Len(history) \in Nat \ {0}
  BY EmptySeq DEF FieldTypeOK
<1>2. Version \in Nat /\ Len(history) = Version + 1
  BY <1>1 DEF Version
<1>3. ASSUME NEW v \in 0 .. Version  PROVE ValueAt(v) \in Value
  BY <1>1, <1>2, <1>3, ElementOfSeq DEF ValueAt
<1> QED BY <1>2, <1>3

(* Both sockets' packets and the agents' copies lie in the history.        *)
LEMMA InboxFacts ==
  ASSUME FieldTypeOK, NEW w \in Writers
  PROVE  /\ inbox[w] \in Seq(Packet) /\ Len(inbox[w]) \in Nat
         /\ DOMAIN inbox[w] = 1 .. Len(inbox[w])
         /\ \A i \in 1 .. Len(inbox[w]) : inbox[w][i] \in Packet
<1>1. inbox[w] \in Seq(Packet)
  BY DEF FieldTypeOK
<1> QED BY <1>1, LenProperties, ElementOfSeq

(* A write makes the field one version longer and changes no earlier one.  *)
LEMMA WriteFacts ==
  ASSUME FieldTypeOK, NEW value \in Value, history' = Append(history, value)
  PROVE  /\ history' \in Seq(Value) /\ history' # <<>>
         /\ Version' = Version + 1
         /\ ValueAt(Version)' = value
         /\ \A v \in 0 .. Version : ValueAt(v)' = ValueAt(v)
<1>1. /\ history \in Seq(Value) /\ Version \in Nat /\ Len(history) = Version + 1
  BY HistoryFacts DEF FieldTypeOK
<1>2. /\ history' \in Seq(Value) /\ history' # <<>>
      /\ Len(history') = Len(history) + 1
      /\ \A i \in 1 .. Len(history) : history'[i] = history[i]
      /\ history'[Len(history) + 1] = value
  BY <1>1, AppendProperties
<1>3. Version' = Version + 1
  BY <1>1, <1>2 DEF Version
<1> HIDE DEF Version
<1>4. history'[Version + 2] = value
  BY <1>1, <1>2
<1>5. \A v \in 0 .. Version : history'[v + 1] = history[v + 1]
  BY <1>1, <1>2
<1> QED BY <1>1, <1>2, <1>3, <1>4, <1>5 DEF ValueAt

-----------------------------------------------------------------------------
(* What a handler does.                                                    *)

LEMMA AnswerFacts ==
  ASSUME FieldTypeOK, NEW h \in Handlers, NEW STATE p, p \in Packet,
         inbox' = IF req[h].from = NoWriter THEN inbox
                  ELSE [inbox EXCEPT ![req[h].from] = Append(@, p)]
  PROVE  /\ inbox' \in [Writers -> Seq(Packet)]
         /\ \A w \in Writers :
                /\ req[h].from # w => inbox'[w] = inbox[w]
                /\ req[h].from = w =>
                       /\ Len(inbox'[w]) = Len(inbox[w]) + 1
                       /\ \A i \in 1 .. Len(inbox[w]) : inbox'[w][i] = inbox[w][i]
                       /\ inbox'[w][Len(inbox[w]) + 1] = p
<1>1. req[h] \in Request /\ inbox \in [Writers -> Seq(Packet)]
  BY DEF FieldTypeOK
<1>2. CASE req[h].from = NoWriter
  BY <1>1, <1>2, NoWriterAssumption
<1>3. CASE req[h].from # NoWriter
  <2>1. req[h].from \in Writers
    BY <1>1, <1>3 DEF Request
  <2>2. inbox' = [inbox EXCEPT ![req[h].from] = Append(inbox[req[h].from], p)]
    BY <1>3
  <2>3. ASSUME NEW w \in Writers
        PROVE  /\ Append(inbox[w], p) \in Seq(Packet)
               /\ Len(Append(inbox[w], p)) = Len(inbox[w]) + 1
               /\ \A i \in 1 .. Len(inbox[w]) : Append(inbox[w], p)[i] = inbox[w][i]
               /\ Append(inbox[w], p)[Len(inbox[w]) + 1] = p
    BY <1>1, AppendProperties
  <2>4. inbox' \in [Writers -> Seq(Packet)]
    BY <1>1, <2>1, <2>2, <2>3
  <2>5. ASSUME NEW w \in Writers
        PROVE  /\ req[h].from # w => inbox'[w] = inbox[w]
               /\ req[h].from = w => inbox'[w] = Append(inbox[w], p)
    BY <1>1, <2>1, <2>2
  <2> QED BY <2>3, <2>4, <2>5
<1> QED BY <1>2, <1>3

(* A mismatch or an error ends the request and goes to the socket that     *)
(* asked, which is still owed an answer.                                   *)
LEMMA AnswerKeeps ==
  ASSUME IInv, NEW h \in Handlers, req[h].phase # "free",
         NEW STATE type, type \in {"mismatch", "error"},
         NEW STATE version, version \in Nat, NEW STATE value, value \in Value,
         type = "mismatch" => version <= Version /\ value = ValueAt(version),
         Answer(h, type, version, value), req' = [req EXCEPT ![h] = Free],
         UNCHANGED <<kind, history, userSeq, online, call>>
  PROVE  /\ FieldTypeOK' /\ PacketsAreHistory' /\ PacketsAreDue'
         /\ RequestsAreGrounded' /\ OneAnswerEach'
<1> DEFINE p == [type |-> type, call |-> req[h].call, version |-> version,
                 value |-> value, mark |-> req[h].expected]
<1>1. FieldTypeOK
  BY DEF IInv
<1>2. p \in Packet /\ inbox' = IF req[h].from = NoWriter THEN inbox
                               ELSE [inbox EXCEPT ![req[h].from] = Append(@, p)]
  BY <1>1 DEF FieldTypeOK, Request, Packet, Answer
<1>3. p.type = type /\ p.version = version /\ p.value = value /\ p.call = req[h].call
  OBVIOUS
<1> HIDE DEF p
<1>4. /\ inbox' \in [Writers -> Seq(Packet)]
       /\ \A w \in Writers :
              /\ req[h].from # w => inbox'[w] = inbox[w]
              /\ req[h].from = w =>
                     /\ Len(inbox'[w]) = Len(inbox[w]) + 1
                     /\ \A i \in 1 .. Len(inbox[w]) : inbox'[w][i] = inbox[w][i]
                     /\ inbox'[w][Len(inbox[w]) + 1] = p
  BY <1>1, <1>2, AnswerFacts
<1>5. Free \in Request /\ Free.phase = "free" /\ Free.from \notin Writers
  BY FreeFacts
<1>6. /\ req' \in [Handlers -> Request]
      /\ req'[h] = Free /\ \A g \in Handlers \ {h} : req'[g] = req[g]
  BY <1>1, <1>5 DEF FieldTypeOK
<1>7. FieldTypeOK'
  BY <1>1, <1>4, <1>6 DEF FieldTypeOK
<1>8. ASSUME NEW w \in Writers, NEW i \in 1 .. Len(inbox'[w])
      PROVE  \/ i \in 1 .. Len(inbox[w]) /\ inbox'[w][i] = inbox[w][i]
             \/ i = Len(inbox[w]) + 1 /\ w = req[h].from /\ inbox'[w][i] = p
  BY <1>1, <1>4, InboxFacts
<1>9. \A w \in Writers : DOMAIN inbox'[w] = 1 .. Len(inbox'[w])
  BY <1>4, LenProperties
<1>10. PacketsAreHistory' /\ PacketsAreDue'
  <2> SUFFICES ASSUME NEW w \in Writers, NEW i \in 1 .. Len(inbox'[w])
               PROVE  /\ inbox'[w][i].type # "error" =>
                            /\ inbox'[w][i].version <= Version
                            /\ inbox'[w][i].value = ValueAt(inbox'[w][i].version)
                      /\ inbox'[w][i].type = "success" =>
                            inbox'[w][i].call \in inbox'[w][i].value
                      /\ inbox'[w][i].type = "update" => w \in Agents
    BY <1>9 DEF PacketsAreHistory, PacketsAreDue, Version, ValueAt
  <2>1. CASE i \in 1 .. Len(inbox[w]) /\ inbox'[w][i] = inbox[w][i]
    BY <1>1, <2>1, InboxFacts
       DEF IInv, PacketsAreHistory, PacketsAreDue
  <2>2. CASE inbox'[w][i] = p
    BY <1>3, <2>2
  <2> QED BY <1>8, <2>1, <2>2
<1>11. RequestsAreGrounded'
  BY <1>5, <1>6 DEF IInv, RequestsAreGrounded, Version, ValueAt
<1>12. OneAnswerEach'
  <2>1. ASSUME NEW w \in Writers, NEW i \in 1 .. Len(inbox'[w]), inbox'[w][i].type # "update"
        PROVE  /\ inbox'[w][i].call \in Changes
               /\ call[inbox'[w][i].call].phase = "waiting"
               /\ ChangeOf[inbox'[w][i].call] = w
               /\ \A g \in Handlers : req'[g].from = w => req'[g].call # inbox'[w][i].call
               /\ \A j \in 1 .. Len(inbox'[w]) :
                      inbox'[w][j].type # "update" /\ i # j
                          => inbox'[w][i].call # inbox'[w][j].call
    <3>1. CASE i \in 1 .. Len(inbox[w]) /\ inbox'[w][i] = inbox[w][i]
      BY <1>3, <1>5, <1>6, <1>8, <2>1, <3>1 DEF IInv, OneAnswerEach
    <3>2. CASE i = Len(inbox[w]) + 1 /\ w = req[h].from /\ inbox'[w][i] = p
      <4>1. req[h].call \in Changes
        BY DEF IInv, RequestsAreGrounded
      <4>2. /\ req[h].from \in Writers /\ inbox'[w][i].call = req[h].call
            /\ call[req[h].call].phase = "waiting" /\ ChangeOf[req[h].call] = w
        BY <1>3, <2>1, <3>2 DEF IInv, OneAnswerEach
      <4>3. ASSUME NEW g \in Handlers, req'[g].from = w
            PROVE  req'[g].call # inbox'[w][i].call
        <5>1. g # h /\ req'[g] = req[g]
          BY <1>5, <1>6, <4>3
        <5> QED BY <3>2, <4>2, <4>3, <5>1 DEF IInv, OneAnswerEach
      <4>4. ASSUME NEW j \in 1 .. Len(inbox'[w]), inbox'[w][j].type # "update", i # j
            PROVE  inbox'[w][i].call # inbox'[w][j].call
        <5>1. j \in 1 .. Len(inbox[w]) /\ inbox'[w][j] = inbox[w][j]
          BY <1>8, <3>2, <4>4
        <5> QED BY <3>2, <4>2, <4>4, <5>1 DEF IInv, OneAnswerEach
      <4> QED BY <4>1, <4>2, <4>3, <4>4
    <3> QED BY <1>8, <3>1, <3>2
  <2>2. ASSUME NEW g \in Handlers, req'[g].from \in Writers
        PROVE  /\ req'[g].phase # "free"
               /\ call[req'[g].call].phase = "waiting"
               /\ ChangeOf[req'[g].call] = req'[g].from
               /\ \A k \in Handlers : req'[k].from \in Writers /\ g # k
                      => req'[g].call # req'[k].call
    BY <1>5, <1>6, <2>2 DEF IInv, OneAnswerEach
  <2> QED BY <2>1, <2>2 DEF OneAnswerEach
<1> QED BY <1>7, <1>10, <1>11, <1>12

-----------------------------------------------------------------------------
(* What a writer hears.                                                    *)

LEMMA HearKeeps ==
  ASSUME IInv, NEW w \in Writers, FieldHear(w)
  PROVE  /\ Head(inbox[w]) = inbox[w][1] /\ inbox[w][1] \in Packet
         /\ FieldTypeOK' /\ PacketsAreHistory' /\ PacketsAreDue'
         /\ RequestsAreGrounded' /\ HistoryGrows'
         /\ inbox[w][1].type # "error" =>
                /\ inbox[w][1].version <= Version
                /\ inbox[w][1].value = ValueAt(inbox[w][1].version)
         /\ inbox[w][1].type # "update" =>
                /\ inbox[w][1].call \in Changes
                /\ call[inbox[w][1].call].phase = "waiting"
                /\ ChangeOf[inbox[w][1].call] = w
         /\ inbox[w][1].type = "success" => inbox[w][1].call \in inbox[w][1].value
         /\ inbox[w][1].type = "update" => w \in Agents
         /\ (\A c \in Changes :
                 call[c].phase = "waiting" /\ (inbox[w][1].type = "update" \/ c # inbox[w][1].call)
                     => call'[c].phase = "waiting") => OneAnswerEach'
<1>1. FieldTypeOK /\ inbox[w] # <<>> /\ inbox \in [Writers -> Seq(Packet)]
      /\ inbox' = [inbox EXCEPT ![w] = Tail(inbox[w])]
      /\ UNCHANGED <<kind, history, userSeq, req, online>>
  BY DEF IInv, FieldHear, FieldTypeOK
<1>2. /\ inbox[w] \in Seq(Packet) /\ Len(inbox[w]) \in Nat \ {0}
      /\ Head(inbox[w]) = inbox[w][1] /\ inbox[w][1] \in Packet
      /\ 1 \in 1 .. Len(inbox[w])
  BY <1>1, InboxFacts, EmptySeq
<1>3. /\ inbox' \in [Writers -> Seq(Packet)]
      /\ Len(inbox'[w]) = Len(inbox[w]) - 1
      /\ \A i \in 1 .. Len(inbox'[w]) : inbox'[w][i] = inbox[w][i + 1]
      /\ \A x \in Writers \ {w} : inbox'[x] = inbox[x]
  BY <1>1, <1>2, HeadTailProperties
<1>4. ASSUME NEW x \in Writers, NEW i \in 1 .. Len(inbox'[x])
      PROVE  \E k \in 1 .. Len(inbox[x]) :
                 /\ k = (IF x = w THEN i + 1 ELSE i)
                 /\ inbox'[x][i] = inbox[x][k]
  BY <1>1, <1>2, <1>3, InboxFacts
<1>5. \A x \in Writers : DOMAIN inbox'[x] = 1 .. Len(inbox'[x]) /\ Len(inbox'[x]) \in Nat
  BY <1>3, LenProperties
<1>6. FieldTypeOK'
  BY <1>1, <1>3 DEF FieldTypeOK
<1>7. PacketsAreHistory' /\ PacketsAreDue'
  <2> SUFFICES ASSUME NEW x \in Writers, NEW i \in 1 .. Len(inbox'[x])
               PROVE  /\ inbox'[x][i].type # "error" =>
                            /\ inbox'[x][i].version <= Version
                            /\ inbox'[x][i].value = ValueAt(inbox'[x][i].version)
                      /\ inbox'[x][i].type = "success" =>
                            inbox'[x][i].call \in inbox'[x][i].value
                      /\ inbox'[x][i].type = "update" => x \in Agents
    <3>1. \A x \in Writers : DOMAIN inbox'[x] = 1 .. Len(inbox'[x])
      BY <1>5
    <3>2. history' = history
      BY <1>1
    <3> QED BY <3>1, <3>2, SMTT(30) DEF PacketsAreHistory, PacketsAreDue, Version, ValueAt
  <2>1. PICK k \in 1 .. Len(inbox[x]) : inbox'[x][i] = inbox[x][k]
    BY <1>4
  <2> QED BY <1>1, <2>1, InboxFacts
          DEF IInv, PacketsAreHistory, PacketsAreDue
<1>8. RequestsAreGrounded' /\ HistoryGrows'
  BY <1>1 DEF IInv, RequestsAreGrounded, HistoryGrows, Version, ValueAt
<1>9. /\ inbox[w][1].type # "error" =>
                /\ inbox[w][1].version <= Version
                /\ inbox[w][1].value = ValueAt(inbox[w][1].version)
      /\ inbox[w][1].type # "update" =>
                /\ inbox[w][1].call \in Changes
                /\ call[inbox[w][1].call].phase = "waiting"
                /\ ChangeOf[inbox[w][1].call] = w
      /\ inbox[w][1].type = "success" => inbox[w][1].call \in inbox[w][1].value
      /\ inbox[w][1].type = "update" => w \in Agents
  BY <1>1, <1>2, InboxFacts
     DEF IInv, PacketsAreHistory, PacketsAreDue, OneAnswerEach
<1>10. ASSUME \A c \in Changes :
                 call[c].phase = "waiting" /\ (inbox[w][1].type = "update" \/ c # inbox[w][1].call)
                     => call'[c].phase = "waiting"
       PROVE  OneAnswerEach'
  <2>1. ASSUME NEW x \in Writers, NEW i \in 1 .. Len(inbox'[x]), inbox'[x][i].type # "update"
        PROVE  /\ inbox'[x][i].call \in Changes
               /\ call'[inbox'[x][i].call].phase = "waiting"
               /\ ChangeOf[inbox'[x][i].call] = x
               /\ \A g \in Handlers : req'[g].from = x => req'[g].call # inbox'[x][i].call
    <3>1. PICK k \in 1 .. Len(inbox[x]) : /\ inbox'[x][i] = inbox[x][k]
                                          /\ x = w => k # 1
      BY <1>4
    <3>2. /\ inbox[x][k].call \in Changes /\ ChangeOf[inbox[x][k].call] = x
          /\ call[inbox[x][k].call].phase = "waiting"
          /\ \A g \in Handlers : req[g].from = x => req[g].call # inbox[x][k].call
      BY <2>1, <3>1 DEF IInv, OneAnswerEach
    <3>3. inbox[w][1].type = "update" \/ inbox[x][k].call # inbox[w][1].call
      BY <1>2, <1>9, <2>1, <3>1, <3>2 DEF IInv, OneAnswerEach
    <3> QED BY <1>1, <1>10, <3>1, <3>2, <3>3
  <2>2. ASSUME NEW x \in Writers, NEW i \in 1 .. Len(inbox'[x]), inbox'[x][i].type # "update",
               NEW j \in 1 .. Len(inbox'[x]), inbox'[x][j].type # "update", i # j
        PROVE  inbox'[x][i].call # inbox'[x][j].call
    <3>1. PICK k \in 1 .. Len(inbox[x]) : /\ k = (IF x = w THEN i + 1 ELSE i)
                                          /\ inbox'[x][i] = inbox[x][k]
      BY <1>4
    <3>2. PICK l \in 1 .. Len(inbox[x]) : /\ l = (IF x = w THEN j + 1 ELSE j)
                                          /\ inbox'[x][j] = inbox[x][l]
      BY <1>4
    <3>3. k # l
      BY <1>5, <2>2, <3>1, <3>2
    <3> QED BY <2>2, <3>1, <3>2, <3>3 DEF IInv, OneAnswerEach
  <2>3. ASSUME NEW g \in Handlers, req'[g].from \in Writers
        PROVE  /\ req'[g].phase # "free"
               /\ call'[req'[g].call].phase = "waiting"
               /\ ChangeOf[req'[g].call] = req'[g].from
               /\ \A k \in Handlers : req'[k].from \in Writers /\ g # k
                      => req'[g].call # req'[k].call
    <3>1. /\ req[g].phase # "free" /\ call[req[g].call].phase = "waiting"
          /\ ChangeOf[req[g].call] = req[g].from
          /\ \A k \in Handlers : req[k].from \in Writers /\ g # k => req[g].call # req[k].call
      BY <1>1, <2>3 DEF IInv, OneAnswerEach
    <3>2. req[g].call \in Changes
      BY <3>1 DEF IInv, RequestsAreGrounded
    <3>3. inbox[w][1].type = "update" \/ req[g].call # inbox[w][1].call
      <4>1. CASE req[g].from = w
        BY <1>2, <4>1 DEF IInv, OneAnswerEach
      <4>2. CASE req[g].from # w
        BY <1>9, <3>1, <4>2
      <4> QED BY <4>1, <4>2
    <3> QED BY <1>1, <1>10, <3>1, <3>2, <3>3
  <2> QED BY <2>1, <2>2, <2>3 DEF OneAnswerEach
<1> QED BY <1>2, <1>6, <1>7, <1>8, <1>9, <1>10

(* Requests and packets are as they were, and no call stops waiting.       *)
LEMMA WaitersKept ==
  ASSUME IInv, UNCHANGED <<req, inbox>>,
         \A c \in Changes : call[c].phase = "waiting" => call'[c].phase = "waiting"
  PROVE  OneAnswerEach'
<1>1. \A h \in Handlers : req[h].from \in Writers => req[h].call \in Changes
  BY DEF IInv, OneAnswerEach, RequestsAreGrounded
<1> QED BY <1>1 DEF IInv, OneAnswerEach

-----------------------------------------------------------------------------
(* The locks.                                                              *)

LEMMA QueueFacts ==
  ASSUME IInv, NEW w \in Agents
  PROVE  /\ queue[w] \in Seq(Changes) /\ Len(queue[w]) \in Nat
         /\ DOMAIN queue[w] = 1 .. Len(queue[w])
         /\ \A i \in 1 .. Len(queue[w]) :
                /\ queue[w][i] \in Changes /\ ChangeOf[queue[w][i]] = w
                /\ Made(queue[w][i]) /\ ~Over(queue[w][i])
                /\ call[queue[w][i]].phase = "locked" <=> i > 1
<1>1. queue[w] \in Seq(Changes)
  BY DEF IInv, WriterTypes
<1>2. /\ Len(queue[w]) \in Nat /\ DOMAIN queue[w] = 1 .. Len(queue[w])
      /\ \A i \in 1 .. Len(queue[w]) : queue[w][i] \in Changes
  BY <1>1, LenProperties, ElementOfSeq
<1>3. CASE kind = "machine"
  BY <1>1, <1>2, <1>3, EmptySeq DEF IInv, LocksAreLines
<1>4. CASE kind = "session"
  <2>1. \A i \in 1 .. Len(queue[w]) :
            queue[w][i] \in {c \in CallsOf(w) : Made(c) /\ ~Over(c)}
    BY <1>2, <1>4 DEF IInv, LocksAreHeld
  <2> QED BY <1>1, <1>2, <2>1 DEF IInv, LocksAreHeld, CallsOf
<1> QED BY <1>3, <1>4 DEF IInv, FieldTypeOK

(* No call of an agent begins, ends, or comes to wait for its lock.        *)
LEMMA LocksKept ==
  ASSUME IInv, UNCHANGED <<kind, queue>>,
         \A c \in Changes : ChangeOf[c] \in Agents =>
             /\ Made(c)' <=> Made(c)
             /\ Over(c)' <=> Over(c)
             /\ call'[c].phase = "locked" <=> call[c].phase = "locked"
  PROVE  LocksAreHeld' /\ LocksAreLines'
<1>1. LocksAreLines'
  BY DEF IInv, LocksAreLines
<1>2. ASSUME NEW w \in Agents
      PROVE  /\ kind = "session" => {queue[w][i] : i \in DOMAIN queue[w]}
                                   = {c \in CallsOf(w) : Made(c)' /\ ~Over(c)'}
             /\ \A i \in DOMAIN queue[w] : call'[queue[w][i]].phase = "locked" <=> i > 1
  <2>1. {c \in CallsOf(w) : Made(c)' /\ ~Over(c)'} = {c \in CallsOf(w) : Made(c) /\ ~Over(c)}
    BY DEF CallsOf
  <2>2. \A i \in DOMAIN queue[w] : call'[queue[w][i]].phase = "locked" <=> i > 1
    BY QueueFacts
  <2> QED BY <2>1, <2>2 DEF IInv, LocksAreHeld
<1>3. LocksAreHeld'
  BY <1>2 DEF LocksAreHeld, Made, Over, CallsOf
<1> QED BY <1>1, <1>3

(* A call that had the lock ends, and the next in line gets it.            *)
LEMMA LocksPass ==
  ASSUME IInv, NEW w \in Agents, NEW c \in Changes, ChangeOf[c] = w,
         call[c].phase = "waiting", NEW end \in {"acked", "dropped"},
         CallEnds(w, c, end), kind' = kind
  PROVE  /\ queue' \in [Agents -> Seq(Changes)] /\ call' \in [Changes -> Call]
         /\ call'[c] = At(end)
         /\ \A d \in Changes \ {c} :
                call'[d] = call[d] \/ (call[d].phase = "locked" /\ call'[d] = At("next"))
         /\ LocksAreHeld' /\ LocksAreLines'
<1> DEFINE q == queue[w]
           woken == IF Len(q) > 1 THEN {q[2]} ELSE {}
<1>1. /\ queue \in [Agents -> Seq(Changes)] /\ call \in [Changes -> Call]
      /\ kind \in {"session", "machine"}
  BY DEF IInv, WriterTypes, FieldTypeOK
<1>2. /\ q \in Seq(Changes) /\ Len(q) \in Nat /\ DOMAIN q = 1 .. Len(q)
      /\ \A i \in 1 .. Len(q) :
             /\ q[i] \in Changes /\ ChangeOf[q[i]] = w
             /\ Made(q[i]) /\ ~Over(q[i])
             /\ call[q[i]].phase = "locked" <=> i > 1
      /\ \A i, j \in 1 .. Len(q) : q[i] = q[j] => i = j
  BY QueueFacts DEF IInv, LocksAreLines
<1>3. /\ call' = [d \in Changes |-> IF d \in woken THEN At("next")
                                    ELSE IF d = c THEN At(end) ELSE call[d]]
      /\ queue' = [queue EXCEPT ![w] = IF q = <<>> THEN q ELSE Tail(q)]
  BY <1>1 DEF CallEnds
<1>4. \A d \in woken : d \in Changes /\ d # c /\ ChangeOf[d] = w /\ call[d].phase = "locked"
  BY <1>2
<1>5. kind = "session" => q # <<>> /\ q[1] = c
  <2> SUFFICES ASSUME kind = "session"  PROVE q # <<>> /\ q[1] = c
    OBVIOUS
  <2>1. c \in {d \in CallsOf(w) : Made(d) /\ ~Over(d)}
    BY DEF CallsOf, Made, Over
  <2>2. PICK i \in 1 .. Len(q) : q[i] = c
    BY <1>2, <2>1 DEF IInv, LocksAreHeld
  <2> QED BY <1>2, <2>2, EmptySeq
<1>6. q = <<>> \/ Len(q) \in Nat \ {0}
  BY <1>2, EmptySeq
<1>7. q # <<>> => /\ Tail(q) \in Seq(Changes) /\ Len(Tail(q)) = Len(q) - 1
                  /\ \A i \in 1 .. Len(Tail(q)) : Tail(q)[i] = q[i + 1]
  BY <1>2, HeadTailProperties
<1> HIDE DEF q
<1>8. queue' \in [Agents -> Seq(Changes)]
  BY <1>1, <1>2, <1>3, <1>7
<1>9. /\ call' \in [Changes -> Call] /\ call'[c] = At(end)
      /\ \A d \in Changes \ {c} :
             call'[d] = call[d] \/ (call[d].phase = "locked" /\ call'[d] = At("next"))
  BY <1>1, <1>3, <1>4, AtFacts
<1>10. \A d \in Changes \ {c} : /\ Made(d)' <=> Made(d)
                                /\ Over(d)' <=> Over(d)
  BY <1>9, AtFacts DEF Made, Over
<1>11. Made(c)' /\ Over(c)'
  BY <1>9, AtFacts DEF Made, Over
<1>12. \A x \in Agents \ {w} : queue'[x] = queue[x]
  BY <1>1, <1>3
<1>13. \A d \in Changes : ChangeOf[d] # w => call'[d] = call[d]
  BY <1>3, <1>4
<1>14. ASSUME NEW x \in Agents, x # w
       PROVE  /\ kind = "session" => {queue'[x][i] : i \in DOMAIN queue'[x]}
                                         = {d \in CallsOf(x) : Made(d)' /\ ~Over(d)'}
              /\ \A i \in DOMAIN queue'[x] : call'[queue'[x][i]].phase = "locked" <=> i > 1
              /\ kind = "machine" => queue'[x] = <<>>
              /\ \A i, j \in 1 .. Len(queue'[x]) : queue'[x][i] = queue'[x][j] => i = j
  <2>1. {d \in CallsOf(x) : Made(d)' /\ ~Over(d)'} = {d \in CallsOf(x) : Made(d) /\ ~Over(d)}
    BY <1>10, <1>14 DEF CallsOf
  <2>2. \A i \in DOMAIN queue[x] : call'[queue[x][i]].phase = "locked" <=> i > 1
    BY <1>13, <1>14, QueueFacts
  <2> QED BY <1>12, <1>14, <2>1, <2>2 DEF IInv, LocksAreHeld, LocksAreLines
<1>15. /\ kind = "session" => {queue'[w][i] : i \in DOMAIN queue'[w]}
                                  = {d \in CallsOf(w) : Made(d)' /\ ~Over(d)'}
       /\ \A i \in DOMAIN queue'[w] : call'[queue'[w][i]].phase = "locked" <=> i > 1
       /\ kind = "machine" => queue'[w] = <<>>
       /\ \A i, j \in 1 .. Len(queue'[w]) : queue'[w][i] = queue'[w][j] => i = j
  <2>1. CASE kind = "machine"
    <3>1. q = <<>> /\ queue'[w] = <<>>
      BY <1>1, <1>3, <2>1 DEF IInv, LocksAreLines, q
    <3> QED BY <2>1, <3>1, EmptySeq
  <2>2. CASE kind = "session"
    <3>1. /\ queue'[w] = Tail(q) /\ DOMAIN Tail(q) = 1 .. Len(q) - 1
          /\ \A i \in 1 .. Len(q) - 1 : Tail(q)[i] = q[i + 1]
          /\ Len(q) \in Nat \ {0} /\ Len(Tail(q)) = Len(q) - 1
      BY <1>1, <1>3, <1>5, <1>6, <1>7, <2>2, LenProperties
    <3>2. {q[i] : i \in 1 .. Len(q)} = {d \in CallsOf(w) : Made(d) /\ ~Over(d)}
      BY <1>2, <2>2 DEF IInv, LocksAreHeld, q
    <3>3. {Tail(q)[i] : i \in 1 .. Len(q) - 1} = {q[i] : i \in 1 .. Len(q)} \ {c}
      <4>1. ASSUME NEW i \in 1 .. Len(q) - 1
            PROVE  Tail(q)[i] \in {q[k] : k \in 1 .. Len(q)} \ {c}
        BY <1>2, <1>5, <2>2, <3>1
      <4>2. ASSUME NEW i \in 1 .. Len(q), q[i] # c
            PROVE  q[i] \in {Tail(q)[k] : k \in 1 .. Len(q) - 1}
        <5>1. i # 1
          BY <1>5, <2>2, <4>2
        <5>2. i - 1 \in 1 .. Len(q) - 1 /\ Tail(q)[i - 1] = q[i]
          BY <3>1, <5>1
        <5> QED BY <5>2
      <4> QED BY <4>1, <4>2
    <3>4. {d \in CallsOf(w) : Made(d)' /\ ~Over(d)'}
              = {d \in CallsOf(w) : Made(d) /\ ~Over(d)} \ {c}
      BY <1>10, <1>11 DEF CallsOf
    <3>5. ASSUME NEW i \in 1 .. Len(q) - 1
          PROVE  call'[Tail(q)[i]].phase = "locked" <=> i > 1
      <4>1. Tail(q)[i] = q[i + 1] /\ i + 1 \in 1 .. Len(q) /\ q[i + 1] # c
        BY <1>2, <1>5, <2>2, <3>1
      <4>2. CASE i = 1
        BY <1>2, <1>3, <4>1, <4>2, AtFacts
      <4>3. CASE i > 1
        BY <1>2, <1>3, <4>1, <4>3
      <4> QED BY <4>2, <4>3
    <3>6. \A i, j \in 1 .. Len(q) - 1 : Tail(q)[i] = Tail(q)[j] => i = j
      BY <1>2, <3>1
    <3>7. {queue'[w][i] : i \in DOMAIN queue'[w]} = {d \in CallsOf(w) : Made(d)' /\ ~Over(d)'}
      <4>1. {queue'[w][i] : i \in DOMAIN queue'[w]} = {Tail(q)[i] : i \in 1 .. Len(q) - 1}
        BY <3>1
      <4>2. @ = {d \in CallsOf(w) : Made(d) /\ ~Over(d)} \ {c}
        BY <3>2, <3>3
      <4>3. @ = {d \in CallsOf(w) : Made(d)' /\ ~Over(d)'}
        BY <3>4
      <4> QED BY <4>1, <4>2, <4>3
    <3>8. /\ \A i \in DOMAIN queue'[w] : call'[queue'[w][i]].phase = "locked" <=> i > 1
          /\ \A i, j \in 1 .. Len(queue'[w]) : queue'[w][i] = queue'[w][j] => i = j
      <4>1. DOMAIN queue'[w] = 1 .. Len(q) - 1 /\ Len(queue'[w]) = Len(q) - 1
        BY <3>1
      <4>2. \A i \in 1 .. Len(q) - 1 : call'[Tail(q)[i]].phase = "locked" <=> i > 1
        BY <3>5
      <4>3. queue'[w] = Tail(q)
        BY <3>1
      <4>4. ASSUME NEW i \in DOMAIN queue'[w]
            PROVE  call'[queue'[w][i]].phase = "locked" <=> i > 1
        <5>1. i \in 1 .. Len(q) - 1 /\ queue'[w][i] = Tail(q)[i]
          BY <4>1, <4>3
        <5> QED BY <4>2, <5>1
      <4>5. ASSUME NEW i \in 1 .. Len(queue'[w]), NEW j \in 1 .. Len(queue'[w]),
                   queue'[w][i] = queue'[w][j]
            PROVE  i = j
        <5>1. i \in 1 .. Len(q) - 1 /\ j \in 1 .. Len(q) - 1 /\ Tail(q)[i] = Tail(q)[j]
          BY <4>1, <4>3, <4>5
        <5> QED BY <3>6, <5>1
      <4> QED BY <4>4, <4>5
    <3>9. kind # "machine"
      BY <2>2
    <3> QED BY <3>7, <3>8, <3>9, Zenon
  <2> QED BY <1>1, <2>1, <2>2
<1>16. LocksAreHeld'
  BY <1>14, <1>15 DEF LocksAreHeld, Made, Over, CallsOf
<1>17. LocksAreLines'
  BY <1>14, <1>15 DEF LocksAreLines
<1> QED BY <1>8, <1>9, <1>16, <1>17

(* A call joins the line of its lock.                                      *)
LEMMA LocksJoin ==
  ASSUME IInv, NEW w \in Agents, NEW c \in Changes, AgentCalls(w, c)
  PROVE  queue' \in [Agents -> Seq(Changes)] /\ LocksAreHeld' /\ LocksAreLines'
<1> DEFINE q == queue[w]
<1>1. /\ queue \in [Agents -> Seq(Changes)] /\ call \in [Changes -> Call]
      /\ kind \in {"session", "machine"}
  BY DEF IInv, WriterTypes, FieldTypeOK
<1>2. /\ call[c].phase = "none" /\ ChangeOf[c] = w /\ kind' = kind
      /\ call' = IF q = <<>> THEN Sends(c, copy[w]) ELSE [call EXCEPT ![c] = At("locked")]
      /\ queue' = IF kind = "session" THEN [queue EXCEPT ![w] = Append(q, c)] ELSE queue
  BY DEF AgentCalls, fieldVars
<1>3. \A x \in Agents :
          /\ queue[x] \in Seq(Changes) /\ Len(queue[x]) \in Nat
          /\ DOMAIN queue[x] = 1 .. Len(queue[x])
          /\ \A i \in 1 .. Len(queue[x]) :
                 /\ queue[x][i] \in Changes /\ ChangeOf[queue[x][i]] = x
                 /\ queue[x][i] # c
                 /\ call[queue[x][i]].phase = "locked" <=> i > 1
  BY <1>2, QueueFacts DEF Made
<1>4. /\ call'[c].phase = IF q = <<>> THEN "sent" ELSE "locked"
      /\ \A d \in Changes \ {c} : call'[d] = call[d]
  BY <1>1, <1>2, AtFacts DEF Sends, Call
<1>5. /\ \A d \in Changes \ {c} : /\ Made(d)' <=> Made(d)
                                  /\ Over(d)' <=> Over(d)
      /\ Made(c)' /\ ~Over(c)' /\ ~Made(c)
  BY <1>2, <1>4 DEF Made, Over
<1>6. /\ Append(q, c) \in Seq(Changes) /\ Len(Append(q, c)) = Len(q) + 1
      /\ DOMAIN Append(q, c) = 1 .. Len(q) + 1
      /\ \A i \in 1 .. Len(q) : Append(q, c)[i] = q[i]
      /\ Append(q, c)[Len(q) + 1] = c
  BY <1>3, AppendProperties, LenProperties
<1>7. queue' \in [Agents -> Seq(Changes)]
  BY <1>1, <1>2, <1>6
<1>8. ASSUME NEW x \in Agents, queue'[x] = queue[x], kind = "session" => x # w
      PROVE  /\ kind = "session" => {queue'[x][i] : i \in DOMAIN queue'[x]}
                                        = {d \in CallsOf(x) : Made(d)' /\ ~Over(d)'}
             /\ \A i \in DOMAIN queue'[x] : call'[queue'[x][i]].phase = "locked" <=> i > 1
             /\ kind = "machine" => queue'[x] = <<>>
             /\ \A i, j \in 1 .. Len(queue'[x]) : queue'[x][i] = queue'[x][j] => i = j
  <2>1. kind = "session" => {d \in CallsOf(x) : Made(d)' /\ ~Over(d)'}
                                = {d \in CallsOf(x) : Made(d) /\ ~Over(d)}
    BY <1>2, <1>5, <1>8 DEF CallsOf
  <2>2. \A i \in DOMAIN queue[x] : call'[queue[x][i]].phase = "locked" <=> i > 1
    BY <1>3, <1>4
  <2> QED BY <1>8, <2>1, <2>2 DEF IInv, LocksAreHeld, LocksAreLines
<1>9. CASE kind = "machine"
  <2>1. \A x \in Agents : queue'[x] = queue[x]
    BY <1>2, <1>9
  <2> QED BY <1>2, <1>7, <1>8, <1>9, <2>1 DEF LocksAreHeld, LocksAreLines, Made, Over, CallsOf
<1>10. CASE kind = "session"
  <2>1. queue'[w] = Append(q, c) /\ \A x \in Agents \ {w} : queue'[x] = queue[x]
    BY <1>1, <1>2, <1>10
  <2>2. {queue'[w][i] : i \in DOMAIN queue'[w]} = {q[i] : i \in DOMAIN q} \union {c}
    <3>1. DOMAIN queue'[w] = DOMAIN q \union {Len(q) + 1}
      BY <1>3, <1>6, <2>1
    <3>2. \A i \in DOMAIN q : queue'[w][i] = q[i]
      BY <1>3, <1>6, <2>1
    <3>3. queue'[w][Len(q) + 1] = c
      BY <1>6, <2>1
    <3> HIDE DEF q
    <3> QED BY <3>1, <3>2, <3>3
  <2>3. {d \in CallsOf(w) : Made(d)' /\ ~Over(d)'}
            = {d \in CallsOf(w) : Made(d) /\ ~Over(d)} \union {c}
    BY <1>2, <1>5 DEF CallsOf
  <2>4. {q[i] : i \in DOMAIN q} = {d \in CallsOf(w) : Made(d) /\ ~Over(d)}
    BY <1>10 DEF IInv, LocksAreHeld
  <2>5. ASSUME NEW i \in DOMAIN queue'[w]
        PROVE  call'[queue'[w][i]].phase = "locked" <=> i > 1
    <3>1. CASE i \in 1 .. Len(q)
      BY <1>3, <1>4, <1>6, <2>1, <3>1
    <3>2. CASE i = Len(q) + 1
      BY <1>3, <1>4, <1>6, <2>1, <3>2, EmptySeq
    <3> QED BY <1>3, <1>6, <2>1, <3>1, <3>2
  <2>6. \A i, j \in 1 .. Len(queue'[w]) : queue'[w][i] = queue'[w][j] => i = j
    BY <1>3, <1>6, <2>1 DEF IInv, LocksAreLines
  <2>7. {queue'[w][i] : i \in DOMAIN queue'[w]} = {d \in CallsOf(w) : Made(d)' /\ ~Over(d)'}
    BY <2>2, <2>3, <2>4
  <2>8. LocksAreHeld'
    BY <1>2, <1>8, <1>10, <2>1, <2>5, <2>7, SMTT(30) DEF LocksAreHeld, Made, Over, CallsOf
  <2>9. LocksAreLines'
    BY <1>2, <1>8, <1>10, <2>1, <2>6, SMTT(30) DEF LocksAreLines
  <2> QED BY <1>7, <2>8, <2>9
<1> QED BY <1>1, <1>9, <1>10

-----------------------------------------------------------------------------
(* The writers' steps.                                                     *)

LEMMA FieldKept ==
  ASSUME IInv, UNCHANGED fieldVars
  PROVE  /\ FieldTypeOK' /\ PacketsAreHistory' /\ PacketsAreDue'
         /\ RequestsAreGrounded' /\ HistoryGrows'
  BY DEF IInv, fieldVars, FieldTypeOK, PacketsAreHistory, PacketsAreDue,
         RequestsAreGrounded, HistoryGrows, Version, ValueAt

(* A call is sent from a row that the field had.                           *)
LEMMA SendFacts ==
  ASSUME IInv, NEW c \in Changes, NEW STATE row, row \in Row,
         row.version <= Version, row.value = ValueAt(row.version),
         call'[c].phase = "sent", call'[c].attempt \in 0 .. MaxAttempts - 1,
         call'[c].ask = [row EXCEPT !.value = @ \union {c}],
         DOMAIN call'[c] = {"phase", "attempt", "ask"}, history' = history,
         \A d \in Changes \ {c} : call'[d] = call[d]
  PROVE  /\ call'[c].ask \in Row
         /\ AsksAreGrounded' /\ AckedStays'
<1>1. /\ row.version \in Nat /\ row.value \in Value
      /\ call'[c].ask = [version |-> row.version, value |-> row.value \union {c}]
  BY DEF Row
<1>2. call'[c].ask \in Row
  BY <1>1 DEF Row, Value
<1>3. ASSUME NEW d \in Changes, call'[d].phase = "sent"
      PROVE  /\ call'[d].ask.version <= Version
             /\ d \in call'[d].ask.value
             /\ ValueAt(call'[d].ask.version) \subseteq call'[d].ask.value
  <2>1. CASE d = c
    BY <1>1, <2>1
  <2>2. CASE d # c
    BY <1>3, <2>2 DEF IInv, AsksAreGrounded
  <2> QED BY <2>1, <2>2
<1>4. AsksAreGrounded'
  BY <1>3 DEF AsksAreGrounded, Version, ValueAt
<1>5. AckedStays'
  BY DEF IInv, AckedStays, Version, ValueAt
<1> QED BY <1>2, <1>4, <1>5

(* Sends does that, and keeps the number of attempts.                      *)
LEMMA SendsFacts ==
  ASSUME call \in [Changes -> Call], NEW c \in Changes, NEW STATE row, row \in Row
  PROVE  LET sent == Sends(c, row)
         IN  /\ sent[c] = [phase |-> "sent", attempt |-> call[c].attempt,
                           ask |-> [row EXCEPT !.value = @ \union {c}]]
             /\ sent \in [Changes -> Call]
             /\ \A d \in Changes \ {c} : sent[d] = call[d]
<1> DEFINE ask == [row EXCEPT !.value = @ \union {c}]
           sent == Sends(c, row)
<1>1. call[c] \in Call /\ ask \in Row
  BY DEF Row, Value
<1> HIDE DEF ask
<1>2. sent = [call EXCEPT ![c] = [[call[c] EXCEPT !.phase = "sent"] EXCEPT !.ask = ask]]
  BY DEF Sends, ask
<1>3. [[call[c] EXCEPT !.phase = "sent"] EXCEPT !.ask = ask]
          = [phase |-> "sent", attempt |-> call[c].attempt, ask |-> ask]
  <2>1. call[c] = [phase |-> call[c].phase, attempt |-> call[c].attempt, ask |-> call[c].ask]
    BY <1>1 DEF Call
  <2>2. [call[c] EXCEPT !.phase = "sent"]
            = [phase |-> "sent", attempt |-> call[c].attempt, ask |-> call[c].ask]
    BY <2>1
  <2>3. [[phase |-> "sent", attempt |-> call[c].attempt, ask |-> call[c].ask] EXCEPT !.ask = ask]
            = [phase |-> "sent", attempt |-> call[c].attempt, ask |-> ask]
    OBVIOUS
  <2> QED BY <2>2, <2>3
<1>4. [phase |-> "sent", attempt |-> call[c].attempt, ask |-> ask] \in Call
  BY <1>1 DEF Call
<1> HIDE DEF sent
<1>5. /\ sent[c] = [phase |-> "sent", attempt |-> call[c].attempt, ask |-> ask]
      /\ sent \in [Changes -> Call]
      /\ \A d \in Changes \ {c} : sent[d] = call[d]
  BY <1>2, <1>3, <1>4
<1> QED BY <1>5 DEF ask, sent

LEMMA CopyFacts ==
  ASSUME IInv, NEW w \in Agents
  PROVE  /\ copy[w] \in Row /\ copy[w].version <= Version
         /\ copy[w].value = ValueAt(copy[w].version)
  BY DEF IInv, WriterTypes, CopiesArePast

LEMMA AgentCallsKeeps ==
  ASSUME IInv, NEW w \in Agents, NEW c \in Changes, AgentCalls(w, c)
  PROVE  IInv'
<1>1. /\ call \in [Changes -> Call] /\ copy \in [Agents -> Row] /\ upsets \in 0 .. MaxUpsets
  BY DEF IInv, WriterTypes
<1>2. /\ call[c].phase = "none" /\ ChangeOf[c] = w
      /\ UNCHANGED <<fieldVars, copy, upsets>> /\ history' = history
      /\ UNCHANGED <<req, inbox>>
      /\ call' = Sends(c, copy[w]) \/ call' = [call EXCEPT ![c] = At("locked")]
  BY DEF AgentCalls, fieldVars
<1>3. /\ call' \in [Changes -> Call] /\ \A d \in Changes \ {c} : call'[d] = call[d]
      /\ call'[c].phase \in {"sent", "locked"}
  <2>1. CASE call' = Sends(c, copy[w])
    <3>1. /\ call' \in [Changes -> Call] /\ \A d \in Changes \ {c} : call'[d] = call[d]
          /\ call'[c] = [phase |-> "sent", attempt |-> call[c].attempt,
                         ask |-> [copy[w] EXCEPT !.value = @ \union {c}]]
      BY <1>1, <2>1, CopyFacts, SendsFacts
    <3> QED BY <3>1
  <2>2. CASE call' = [call EXCEPT ![c] = At("locked")]
    <3>1. At("locked") \in Call /\ At("locked").phase = "locked"
      BY AtFacts
    <3> QED BY <1>1, <2>2, <3>1
  <2> QED BY <1>2, <2>1, <2>2
<1>4. AsksAreGrounded' /\ AckedStays'
  <2>1. CASE call' = Sends(c, copy[w])
    <3>1. call'[c] = [phase |-> "sent", attempt |-> call[c].attempt,
                      ask |-> [copy[w] EXCEPT !.value = @ \union {c}]]
      BY <1>1, <2>1, CopyFacts, SendsFacts
    <3>2. call[c].attempt \in 0 .. MaxAttempts - 1
      BY <1>1 DEF Call
    <3> QED BY <1>2, <1>3, <3>1, <3>2, CopyFacts, SendFacts
  <2>2. CASE call' = [call EXCEPT ![c] = At("locked")]
    BY <1>1, <1>2, <2>2, AtFacts DEF IInv, AsksAreGrounded, AckedStays, Version, ValueAt
  <2> QED BY <1>2, <2>1, <2>2
<1>5. queue' \in [Agents -> Seq(Changes)] /\ LocksAreHeld' /\ LocksAreLines'
  BY LocksJoin
<1>6. OneAnswerEach'
  BY <1>2, <1>3, WaitersKept
<1>7. WriterTypes' /\ CopiesArePast'
  BY <1>1, <1>2, <1>3, <1>5 DEF IInv, WriterTypes, CopiesArePast, Version, ValueAt
<1> QED BY <1>2, <1>4, <1>5, <1>6, <1>7, FieldKept DEF IInv

LEMMA AgentSendsKeeps ==
  ASSUME IInv, NEW w \in Agents, NEW c \in Changes, AgentSends(w, c)
  PROVE  IInv'
<1>1. /\ call \in [Changes -> Call] /\ copy \in [Agents -> Row] /\ upsets \in 0 .. MaxUpsets
  BY DEF IInv, WriterTypes
<1>2. /\ call[c].phase \in {"backoff", "next"} /\ call' = Sends(c, copy[w])
      /\ UNCHANGED <<fieldVars, copy, queue, upsets>> /\ history' = history
      /\ UNCHANGED <<kind, req, inbox>>
  BY DEF AgentSends, fieldVars
<1>3. /\ call' \in [Changes -> Call] /\ \A d \in Changes \ {c} : call'[d] = call[d]
      /\ call'[c] = [phase |-> "sent", attempt |-> call[c].attempt,
                     ask |-> [copy[w] EXCEPT !.value = @ \union {c}]]
  BY <1>1, <1>2, CopyFacts, SendsFacts
<1>4. call[c].attempt \in 0 .. MaxAttempts - 1
  BY <1>1 DEF Call
<1>5. AsksAreGrounded' /\ AckedStays'
  BY <1>2, <1>3, <1>4, CopyFacts, SendFacts
<1>6. LocksAreHeld' /\ LocksAreLines'
  BY <1>2, <1>3, LocksKept DEF Made, Over
<1>7. OneAnswerEach'
  BY <1>2, <1>3, WaitersKept
<1>8. WriterTypes' /\ CopiesArePast'
  BY <1>1, <1>2, <1>3 DEF IInv, WriterTypes, CopiesArePast, Version, ValueAt
<1> QED BY <1>2, <1>5, <1>6, <1>7, <1>8, FieldKept DEF IInv

LEMMA AppCallsKeeps ==
  ASSUME IInv, NEW w \in Apps, NEW c \in Changes, NEW v \in 0 .. Version, AppCalls(w, c, v)
  PROVE  IInv'
<1> DEFINE row == [version |-> v, value |-> ValueAt(v)]
<1>1. /\ call \in [Changes -> Call] /\ copy \in [Agents -> Row] /\ upsets \in 0 .. MaxUpsets
  BY DEF IInv, WriterTypes
<1>2. /\ call[c].phase = "none" /\ ChangeOf[c] = w /\ call' = Sends(c, row)
      /\ UNCHANGED <<fieldVars, copy, queue, upsets>> /\ history' = history
      /\ UNCHANGED <<kind, req, inbox>>
  BY DEF AppCalls, fieldVars
<1>3. row \in Row /\ row.version <= Version /\ row.value = ValueAt(row.version)
  BY HistoryFacts DEF IInv, Row
<1> HIDE DEF row
<1>4. /\ call' \in [Changes -> Call] /\ \A d \in Changes \ {c} : call'[d] = call[d]
      /\ call'[c] = [phase |-> "sent", attempt |-> call[c].attempt,
                     ask |-> [row EXCEPT !.value = @ \union {c}]]
  BY <1>1, <1>2, <1>3, SendsFacts
<1>5. call[c].attempt \in 0 .. MaxAttempts - 1
  BY <1>1 DEF Call
<1>6. AsksAreGrounded' /\ AckedStays'
  BY <1>2, <1>3, <1>4, <1>5, SendFacts
<1>7. LocksAreHeld' /\ LocksAreLines'
  <2>1. ChangeOf[c] \notin Agents
    BY <1>2, WritersAssumption
  <2> QED BY <1>2, <1>4, <2>1, LocksKept DEF Made, Over
<1>8. OneAnswerEach'
  BY <1>2, <1>4, WaitersKept
<1>9. WriterTypes' /\ CopiesArePast'
  BY <1>1, <1>2, <1>4 DEF IInv, WriterTypes, CopiesArePast, Version, ValueAt
<1> QED BY <1>2, <1>6, <1>7, <1>8, <1>9, FieldKept DEF IInv

LEMMA AgentHearsUpdateKeeps ==
  ASSUME IInv, NEW w \in Agents, AgentHearsUpdate(w)
  PROVE  IInv'
<1> DEFINE p == inbox[w][1]
<1>1. w \in Writers /\ FieldHear(w) /\ UNCHANGED <<queue, call, upsets>>
  BY WritersAssumption DEF AgentHearsUpdate
<1>2. /\ Head(inbox[w]) = p /\ p \in Packet
      /\ FieldTypeOK' /\ PacketsAreHistory' /\ PacketsAreDue'
      /\ RequestsAreGrounded' /\ HistoryGrows' /\ OneAnswerEach'
      /\ p.type # "error" => p.version <= Version /\ p.value = ValueAt(p.version)
  BY <1>1, HearKeeps
<1> HIDE DEF p
<1>3. /\ copy \in [Agents -> Row] /\ UNCHANGED <<kind, history>> /\ p.type = "update"
      /\ copy' = [copy EXCEPT ![w] = IF kind = "session" THEN Newer(copy[w], p) ELSE RowOf(p)]
  BY <1>1, <1>2 DEF IInv, WriterTypes, AgentHearsUpdate, FieldHear
<1>4. RowOf(p) \in Row /\ RowOf(p).version = p.version /\ RowOf(p).value = p.value
  BY <1>2 DEF RowOf, Row, Packet
<1>5. \A x \in Agents : copy'[x] \in {copy[x], RowOf(p)}
  BY <1>3 DEF Newer
<1>6. copy' \in [Agents -> Row]
  BY <1>3, <1>4, <1>5
<1>7. CopiesArePast'
  BY <1>2, <1>3, <1>4, <1>5 DEF IInv, CopiesArePast, Version, ValueAt
<1>8. WriterTypes' /\ LocksAreHeld' /\ LocksAreLines'
  BY <1>1, <1>3, <1>6, LocksKept DEF IInv, WriterTypes, Made, Over
<1>9. AsksAreGrounded' /\ AckedStays'
  BY <1>1, <1>3 DEF IInv, AsksAreGrounded, AckedStays, Version, ValueAt
<1> QED BY <1>2, <1>7, <1>8, <1>9 DEF IInv

LEMMA AgentHearsAnswerKeeps ==
  ASSUME IInv, NEW w \in Agents, AgentHearsAnswer(w)
  PROVE  IInv'
<1> DEFINE p == inbox[w][1]
<1>1. w \in Writers /\ FieldHear(w) /\ upsets' = upsets
  BY WritersAssumption DEF AgentHearsAnswer
<1>2. /\ Head(inbox[w]) = p /\ p \in Packet
      /\ FieldTypeOK' /\ PacketsAreHistory' /\ PacketsAreDue'
      /\ RequestsAreGrounded' /\ HistoryGrows'
      /\ p.type # "error" => p.version <= Version /\ p.value = ValueAt(p.version)
      /\ p.type # "update" =>
             p.call \in Changes /\ call[p.call].phase = "waiting" /\ ChangeOf[p.call] = w
      /\ p.type = "success" => p.call \in p.value
      /\ (\A c \in Changes : call[c].phase = "waiting" /\ (p.type = "update" \/ c # p.call)
              => call'[c].phase = "waiting") => OneAnswerEach'
  BY <1>1, HearKeeps
<1> HIDE DEF p
<1>3. /\ copy \in [Agents -> Row] /\ call \in [Changes -> Call]
      /\ UNCHANGED <<kind, history>> /\ upsets' \in 0 .. MaxUpsets
  BY <1>1 DEF IInv, WriterTypes, FieldHear
<1>4. RowOf(p) \in Row /\ RowOf(p).version = p.version /\ RowOf(p).value = p.value
  BY <1>2 DEF RowOf, Row, Packet
<1>5. \/ /\ p.type = "success" /\ copy' = [copy EXCEPT ![w] = RowOf(p)]
         /\ CallEnds(w, p.call, "acked")
      \/ /\ p.type = "mismatch" /\ copy' = [copy EXCEPT ![w] = Newer(copy[w], p)]
         /\ call' = [call EXCEPT ![p.call] = At("backoff")] /\ queue' = queue
      \/ /\ p.type = "error" /\ CallEnds(w, p.call, "dropped") /\ copy' = copy
  BY <1>2, <1>3 DEF AgentHearsAnswer
<1>6. PICK c \in Changes : c = p.call /\ call[c].phase = "waiting" /\ ChangeOf[c] = w
  BY <1>2, <1>5
<1>7. /\ \A x \in Agents : copy'[x] = copy[x] \/ (copy'[x] = RowOf(p) /\ p.type # "error")
      /\ copy' \in [Agents -> Row]
  BY <1>3, <1>4, <1>5 DEF Newer
<1>8. CopiesArePast'
  BY <1>2, <1>3, <1>4, <1>7 DEF IInv, CopiesArePast, Version, ValueAt
<1>9. /\ queue' \in [Agents -> Seq(Changes)] /\ call' \in [Changes -> Call]
      /\ \A d \in Changes \ {c} :
             call'[d] = call[d] \/ (call[d].phase = "locked" /\ call'[d] = At("next"))
      /\ call'[c] \in {At("acked"), At("dropped"), At("backoff")}
      /\ call'[c] = At("acked") => p.type = "success"
      /\ LocksAreHeld' /\ LocksAreLines'
  <2>1. /\ At("acked").phase = "acked" /\ At("dropped").phase = "dropped"
        /\ At("backoff").phase = "backoff" /\ At("backoff") \in Call
    BY AtFacts
  <2>2. CASE CallEnds(w, c, "acked") /\ p.type = "success"
    BY <1>3, <1>6, <2>2, LocksPass
  <2>3. CASE CallEnds(w, c, "dropped")
    BY <1>3, <1>6, <2>1, <2>3, LocksPass
  <2>4. CASE call' = [call EXCEPT ![c] = At("backoff")] /\ queue' = queue
    <3>1. /\ call'[c] = At("backoff") /\ call' \in [Changes -> Call]
          /\ \A d \in Changes \ {c} : call'[d] = call[d]
      BY <1>3, <2>1, <2>4
    <3>2. LocksAreHeld' /\ LocksAreLines'
      BY <1>3, <1>6, <2>1, <2>4, <3>1, LocksKept DEF Made, Over
    <3> QED BY <2>1, <2>4, <3>1, <3>2 DEF IInv, WriterTypes
  <2> QED BY <1>5, <1>6, <2>2, <2>3, <2>4
<1>10. /\ At("acked").phase = "acked" /\ At("dropped").phase = "dropped"
       /\ At("backoff").phase = "backoff" /\ At("next").phase = "next"
  BY AtFacts
<1>11. OneAnswerEach'
  <2>1. ASSUME NEW d \in Changes, call[d].phase = "waiting", p.type = "update" \/ d # p.call
        PROVE  call'[d].phase = "waiting"
    BY <1>5, <1>6, <1>9, <2>1
  <2> QED BY <1>2, <2>1
<1>12. AsksAreGrounded'
  BY <1>3, <1>9, <1>10 DEF IInv, AsksAreGrounded, Version, ValueAt
<1>13. AckedStays'
  <2>1. ASSUME NEW d \in Changes, call'[d].phase = "acked"  PROVE d \in ValueAt(Version)
    <3>1. CASE d = c
      <4>1. c \in ValueAt(p.version) /\ p.version \in 0 .. Version /\ Version \in Nat
        BY <1>2, <1>6, <1>9, <1>10, <2>1, <3>1, HistoryFacts DEF IInv, Packet
      <4>2. ValueAt(p.version) \subseteq ValueAt(Version)
        BY <4>1 DEF IInv, HistoryGrows
      <4> QED BY <3>1, <4>1, <4>2
    <3>2. CASE d # c
      BY <1>9, <1>10, <2>1, <3>2 DEF IInv, AckedStays
    <3> QED BY <3>1, <3>2
  <2> QED BY <1>3, <2>1 DEF AckedStays, Version, ValueAt
<1> QED BY <1>2, <1>3, <1>7, <1>8, <1>9, <1>11, <1>12, <1>13 DEF IInv, WriterTypes

LEMMA AppTriesAgainKeeps ==
  ASSUME IInv, NEW w \in Apps, AppTriesAgain(w)
  PROVE  IInv'
<1> DEFINE p == inbox[w][1]
           row == RowOf(p)
<1>1. w \in Writers /\ w \notin Agents /\ FieldHear(w) /\ UNCHANGED <<copy, queue, upsets>>
  BY WritersAssumption DEF AppTriesAgain
<1>2. /\ Head(inbox[w]) = p /\ p \in Packet /\ p.type = "mismatch"
      /\ FieldTypeOK' /\ PacketsAreHistory' /\ PacketsAreDue'
      /\ RequestsAreGrounded' /\ HistoryGrows'
      /\ p.version <= Version /\ p.value = ValueAt(p.version)
      /\ p.call \in Changes /\ call[p.call].phase = "waiting" /\ ChangeOf[p.call] = w
      /\ (\A c \in Changes : call[c].phase = "waiting" /\ (p.type = "update" \/ c # p.call)
              => call'[c].phase = "waiting") => OneAnswerEach'
  BY <1>1, HearKeeps DEF AppTriesAgain
<1>3. row \in Row /\ row.version <= Version /\ row.value = ValueAt(row.version)
  BY <1>2 DEF RowOf, Row, Packet
<1>4. /\ call[p.call].attempt < MaxAttempts - 1
      /\ call' = [Sends(p.call, row) EXCEPT ![p.call].attempt = @ + 1]
  BY <1>2 DEF AppTriesAgain
<1> HIDE DEF p, row
<1>5. PICK c \in Changes : c = p.call /\ call[c].phase = "waiting" /\ ChangeOf[c] = w
  BY <1>2
<1>6. call \in [Changes -> Call] /\ UNCHANGED <<kind, history>>
  BY <1>1 DEF IInv, WriterTypes, FieldHear
<1>7. /\ Sends(c, row)[c] = [phase |-> "sent", attempt |-> call[c].attempt,
                             ask |-> [row EXCEPT !.value = @ \union {c}]]
      /\ Sends(c, row) \in [Changes -> Call]
      /\ \A d \in Changes \ {c} : Sends(c, row)[d] = call[d]
  BY <1>3, <1>6, SendsFacts
<1>8. /\ call'[c] = [phase |-> "sent", attempt |-> call[c].attempt + 1,
                     ask |-> [row EXCEPT !.value = @ \union {c}]]
      /\ \A d \in Changes \ {c} : call'[d] = call[d]
      /\ call' = [Sends(c, row) EXCEPT ![c] = call'[c]]
  <2> DEFINE sent == Sends(c, row)
             ask == [row EXCEPT !.value = @ \union {c}]
  <2>1. call' = [sent EXCEPT ![c] = [sent[c] EXCEPT !.attempt = @ + 1]]
    BY <1>4, <1>5
  <2>2. /\ sent[c] = [phase |-> "sent", attempt |-> call[c].attempt, ask |-> ask]
        /\ sent \in [Changes -> Call]
        /\ \A d \in Changes \ {c} : sent[d] = call[d]
    BY <1>7
  <2> HIDE DEF sent, ask
  <2>3. [sent[c] EXCEPT !.attempt = @ + 1]
            = [phase |-> "sent", attempt |-> call[c].attempt + 1, ask |-> ask]
    BY <2>2
  <2>4. /\ call'[c] = [phase |-> "sent", attempt |-> call[c].attempt + 1, ask |-> ask]
        /\ \A d \in Changes \ {c} : call'[d] = call[d]
        /\ call' = [sent EXCEPT ![c] = call'[c]]
    BY <2>1, <2>2, <2>3
  <2> QED BY <2>4 DEF sent, ask
<1>9. call'[c].attempt \in 0 .. MaxAttempts - 1
  BY <1>4, <1>5, <1>6, <1>8 DEF Call, MaxAttempts
<1>10. call'[c].ask \in Row /\ AsksAreGrounded' /\ AckedStays'
  <2>1. /\ call'[c].phase = "sent" /\ call'[c].ask = [row EXCEPT !.value = @ \union {c}]
        /\ DOMAIN call'[c] = {"phase", "attempt", "ask"}
    BY <1>8
  <2> QED BY <1>3, <1>6, <1>8, <1>9, <2>1, SendFacts
<1>11. call' \in [Changes -> Call]
  <2>1. call'[c] \in Call
    BY <1>8, <1>9, <1>10 DEF Call
  <2> QED BY <1>7, <1>8, <2>1
<1>12. LocksAreHeld' /\ LocksAreLines'
  BY <1>1, <1>5, <1>6, <1>8, LocksKept DEF Made, Over
<1>13. OneAnswerEach'
  BY <1>2, <1>5, <1>8
<1> QED BY <1>1, <1>2, <1>6, <1>10, <1>11, <1>12, <1>13
        DEF IInv, WriterTypes, CopiesArePast, Version, ValueAt

LEMMA AppEndsKeeps ==
  ASSUME IInv, NEW w \in Apps, AppEnds(w)
  PROVE  IInv'
<1> DEFINE p == inbox[w][1]
<1>1. w \in Writers /\ w \notin Agents /\ FieldHear(w) /\ UNCHANGED <<copy, queue, upsets>>
  BY WritersAssumption DEF AppEnds
<1>2. /\ Head(inbox[w]) = p /\ p \in Packet
      /\ FieldTypeOK' /\ PacketsAreHistory' /\ PacketsAreDue'
      /\ RequestsAreGrounded' /\ HistoryGrows'
      /\ p.type # "error" => p.version <= Version /\ p.value = ValueAt(p.version)
      /\ p.type # "update" =>
             p.call \in Changes /\ call[p.call].phase = "waiting" /\ ChangeOf[p.call] = w
      /\ p.type = "success" => p.call \in p.value
      /\ p.type # "update"
      /\ (\A c \in Changes : call[c].phase = "waiting" /\ (p.type = "update" \/ c # p.call)
              => call'[c].phase = "waiting") => OneAnswerEach'
  BY <1>1, HearKeeps DEF AppEnds
<1>3. call' = [call EXCEPT ![p.call] = At(IF p.type = "success" THEN "acked" ELSE "dropped")]
  BY <1>2 DEF AppEnds
<1> HIDE DEF p
<1>4. call \in [Changes -> Call] /\ UNCHANGED <<kind, history>>
  BY <1>1 DEF IInv, WriterTypes, FieldHear
<1>5. PICK c \in Changes : c = p.call /\ call[c].phase = "waiting" /\ ChangeOf[c] = w
  BY <1>2
<1>6. /\ At("acked").phase = "acked" /\ At("dropped").phase = "dropped"
      /\ At("acked") \in Call /\ At("dropped") \in Call
  BY AtFacts
<1>7. /\ call' \in [Changes -> Call] /\ \A d \in Changes \ {c} : call'[d] = call[d]
      /\ call'[c] \in {At("acked"), At("dropped")}
      /\ call'[c] = At("acked") => p.type = "success"
  BY <1>3, <1>4, <1>5, <1>6
<1>8. LocksAreHeld' /\ LocksAreLines'
  BY <1>1, <1>4, <1>5, <1>7, LocksKept DEF Made, Over
<1>9. OneAnswerEach'
  BY <1>2, <1>5, <1>7
<1>10. AsksAreGrounded'
  BY <1>4, <1>6, <1>7 DEF IInv, AsksAreGrounded, Version, ValueAt
<1>11. AckedStays'
  <2>1. ASSUME NEW d \in Changes, call'[d].phase = "acked"  PROVE d \in ValueAt(Version)
    <3>1. CASE d = c
      <4>1. c \in ValueAt(p.version) /\ p.version \in 0 .. Version /\ Version \in Nat
        BY <1>2, <1>5, <1>6, <1>7, <2>1, <3>1, HistoryFacts DEF IInv, Packet
      <4>2. ValueAt(p.version) \subseteq ValueAt(Version)
        BY <4>1 DEF IInv, HistoryGrows
      <4> QED BY <3>1, <4>1, <4>2
    <3>2. CASE d # c
      BY <1>6, <1>7, <2>1, <3>2 DEF IInv, AckedStays
    <3> QED BY <3>1, <3>2
  <2> QED BY <1>4, <2>1 DEF AckedStays, Version, ValueAt
<1> QED BY <1>1, <1>2, <1>4, <1>7, <1>8, <1>9, <1>10, <1>11
        DEF IInv, WriterTypes, CopiesArePast, Version, ValueAt

-----------------------------------------------------------------------------
(* The server's steps, and what goes wrong.                                *)

(* A step of the server leaves the writers as they are.                    *)
LEMMA WritersKept ==
  ASSUME IInv, UNCHANGED <<copy, queue, call, kind, history>>, upsets' \in 0 .. MaxUpsets
  PROVE  /\ WriterTypes' /\ LocksAreHeld' /\ LocksAreLines'
         /\ CopiesArePast' /\ AsksAreGrounded' /\ AckedStays' /\ HistoryGrows'
<1>1. LocksAreHeld' /\ LocksAreLines'
  BY LocksKept DEF Made, Over
<1> QED BY <1>1 DEF IInv, WriterTypes, CopiesArePast, AsksAreGrounded, AckedStays,
                    HistoryGrows, Version, ValueAt

LEMMA ReachesKeeps ==
  ASSUME IInv, NEW c \in Changes, NEW h \in Handlers, Reaches(c, h)
  PROVE  IInv'
<1> DEFINE new == [phase |-> "asked", from |-> ChangeOf[c], call |-> c,
                   expected |-> call[c].ask.version, proposed |-> call[c].ask.value, seq |-> 0]
<1>1. /\ call \in [Changes -> Call] /\ call[c].phase = "sent" /\ req[h].phase = "free"
      /\ req' = [req EXCEPT ![h] = new]
      /\ call' = [[call EXCEPT ![c].phase = "waiting"] EXCEPT ![c].ask = NoRow]
      /\ UNCHANGED <<kind, history, userSeq, online, inbox, copy, queue, upsets>>
  BY DEF IInv, WriterTypes, Reaches, FieldArrive
<1>2. ChangeOf[c] \in Writers
  BY ChangeOfAssumption
<1>3. call[c].ask \in Row /\ call[c].ask.version \in Nat /\ call[c].ask.value \in Value
      /\ call[c].attempt \in 0 .. MaxAttempts - 1
  BY <1>1 DEF Call, Row
<1>4. /\ new \in Request /\ new.phase = "asked" /\ new.call = c /\ new.from = ChangeOf[c]
      /\ new.expected = call[c].ask.version /\ new.proposed = call[c].ask.value
  BY <1>2, <1>3 DEF Request
<1> HIDE DEF new
<1>5. /\ call'[c].phase = "waiting" /\ call' \in [Changes -> Call]
      /\ \A d \in Changes \ {c} : call'[d] = call[d]
  <2>1. call' = [call EXCEPT ![c] = [[call[c] EXCEPT !.phase = "waiting"] EXCEPT !.ask = NoRow]]
    BY <1>1
  <2>2. call[c] = [phase |-> "sent", attempt |-> call[c].attempt, ask |-> call[c].ask]
    BY <1>1 DEF Call
  <2>3. [call[c] EXCEPT !.phase = "waiting"]
            = [phase |-> "waiting", attempt |-> call[c].attempt, ask |-> call[c].ask]
    BY <2>2
  <2>4. [[phase |-> "waiting", attempt |-> call[c].attempt, ask |-> call[c].ask] EXCEPT !.ask = NoRow]
            = [phase |-> "waiting", attempt |-> call[c].attempt, ask |-> NoRow]
    OBVIOUS
  <2>5. [phase |-> "waiting", attempt |-> call[c].attempt, ask |-> NoRow] \in Call
    BY <1>3, AtFacts DEF Call
  <2>6. PICK z \in Call : z.phase = "waiting" /\ call' = [call EXCEPT ![c] = z]
    BY <2>1, <2>3, <2>4, <2>5
  <2>7. call \in [Changes -> Call]
    BY <1>1
  <2> QED BY <2>6, <2>7
<1>6. /\ req' \in [Handlers -> Request] /\ req'[h] = new
      /\ \A g \in Handlers \ {h} : req'[g] = req[g]
  BY <1>1, <1>4 DEF IInv, FieldTypeOK
<1>7. FieldTypeOK' /\ PacketsAreHistory' /\ PacketsAreDue' /\ HistoryGrows'
  BY <1>1, <1>6 DEF IInv, FieldTypeOK, PacketsAreHistory, PacketsAreDue, HistoryGrows,
                    Version, ValueAt
<1>8. RequestsAreGrounded'
  <2>1. ASSUME NEW g \in Handlers, req'[g].phase # "free"
        PROVE  /\ req'[g].call \in Changes /\ req'[g].call \in req'[g].proposed
               /\ req'[g].expected <= Version
               /\ ValueAt(req'[g].expected) \subseteq req'[g].proposed
               /\ req'[g].phase \in {"written", "numbered"} =>
                      /\ req'[g].expected < Version
                      /\ ValueAt(req'[g].expected + 1) = req'[g].proposed
    <3>1. CASE g = h
      BY <1>1, <1>4, <1>6, <3>1 DEF IInv, AsksAreGrounded
    <3>2. CASE g # h
      BY <1>6, <2>1, <3>2 DEF IInv, RequestsAreGrounded
    <3> QED BY <3>1, <3>2
  <2> QED BY <1>1, <2>1 DEF RequestsAreGrounded, Version, ValueAt
<1>9. OneAnswerEach'
  <2>1. \A g \in Handlers : req[g].from \in Writers => req[g].call \in Changes \ {c}
    BY <1>1 DEF IInv, OneAnswerEach, RequestsAreGrounded
  <2>2. \A w \in Writers : \A i \in 1 .. Len(inbox[w]) :
            inbox[w][i].type # "update" => inbox[w][i].call \in Changes \ {c}
    BY <1>1 DEF IInv, OneAnswerEach
  <2>3. /\ \A g \in Handlers : req'[g].from \in Writers =>
               /\ req'[g].phase # "free"
               /\ call'[req'[g].call].phase = "waiting" /\ ChangeOf[req'[g].call] = req'[g].from
        /\ \A g, k \in Handlers : req'[g].from \in Writers /\ req'[k].from \in Writers /\ g # k
               => req'[g].call # req'[k].call
    BY <1>4, <1>5, <1>6, <2>1 DEF IInv, OneAnswerEach
  <2>4. inbox' = inbox
    BY <1>1
  <2>5. ASSUME NEW w \in Writers, NEW i \in 1 .. Len(inbox'[w]), inbox'[w][i].type # "update"
        PROVE  /\ inbox'[w][i].call \in Changes
               /\ call'[inbox'[w][i].call].phase = "waiting" /\ ChangeOf[inbox'[w][i].call] = w
               /\ \A g \in Handlers : req'[g].from = w => req'[g].call # inbox'[w][i].call
               /\ \A j \in 1 .. Len(inbox'[w]) :
                      inbox'[w][j].type # "update" /\ i # j
                          => inbox'[w][i].call # inbox'[w][j].call
    BY <1>4, <1>5, <1>6, <2>2, <2>4, <2>5 DEF IInv, OneAnswerEach
  <2> QED BY <2>3, <2>5 DEF OneAnswerEach
<1>10. LocksAreHeld' /\ LocksAreLines'
  BY <1>1, <1>5, LocksKept DEF Made, Over
<1>11. AsksAreGrounded' /\ AckedStays'
  BY <1>1, <1>5 DEF IInv, AsksAreGrounded, AckedStays, Version, ValueAt
<1> QED BY <1>1, <1>5, <1>7, <1>8, <1>9, <1>10, <1>11
        DEF IInv, WriterTypes, CopiesArePast, Version, ValueAt

(* Only the phase and the seq of a request change.                         *)
LEMMA ProgressKeeps ==
  ASSUME IInv, NEW h \in Handlers, req[h].phase # "free",
         req' \in [Handlers -> Request],
         \A g \in Handlers \ {h} : req'[g] = req[g],
         req'[h].phase # "free", req'[h].from = req[h].from, req'[h].call = req[h].call,
         req'[h].expected = req[h].expected, req'[h].proposed = req[h].proposed,
         req'[h].phase \in {"written", "numbered"} => req[h].phase \in {"written", "numbered"},
         userSeq' \in Nat, UNCHANGED <<kind, history, online, inbox, call>>
  PROVE  /\ FieldTypeOK' /\ PacketsAreHistory' /\ PacketsAreDue'
         /\ RequestsAreGrounded' /\ OneAnswerEach'
<1>1. FieldTypeOK' /\ PacketsAreHistory' /\ PacketsAreDue'
  BY DEF IInv, FieldTypeOK, PacketsAreHistory, PacketsAreDue, Version, ValueAt
<1>2. RequestsAreGrounded'
  BY DEF IInv, RequestsAreGrounded, Version, ValueAt
<1>3. \A g \in Handlers : req'[g].from = req[g].from /\ req'[g].call = req[g].call
                          /\ (req'[g].phase # "free" <=> req[g].phase # "free")
  OBVIOUS
<1>4. OneAnswerEach'
  BY <1>3 DEF IInv, OneAnswerEach
<1> QED BY <1>1, <1>2, <1>4

(* A mismatch that tells the current row.                                  *)
LEMMA AnswerNowKeeps ==
  ASSUME IInv, NEW h \in Handlers, req[h].phase # "free",
         Answer(h, "mismatch", Version, ValueAt(Version)), req' = [req EXCEPT ![h] = Free],
         UNCHANGED <<kind, history, userSeq, online, call>>
  PROVE  /\ FieldTypeOK' /\ PacketsAreHistory' /\ PacketsAreDue'
         /\ RequestsAreGrounded' /\ OneAnswerEach'
<1> DEFINE version == Version
           value == ValueAt(Version)
<1>1. version \in Nat /\ value \in Value /\ version <= Version /\ value = ValueAt(version)
  BY HistoryFacts DEF IInv
<1>2. Answer(h, "mismatch", version, value)
  OBVIOUS
<1> HIDE DEF version, value
<1> QED BY <1>1, <1>2, AnswerKeeps

LEMMA FieldCheckKeeps ==
  ASSUME IInv, NEW h \in Handlers, FieldCheck(h), UNCHANGED writerVars
  PROVE  IInv'
<1>1. /\ req \in [Handlers -> Request] /\ req[h].phase = "asked" /\ upsets' \in 0 .. MaxUpsets
      /\ userSeq \in Nat
      /\ UNCHANGED <<kind, history, userSeq, online, copy, queue, call>>
  BY DEF IInv, FieldTypeOK, WriterTypes, FieldCheck, writerVars
<1>2. FieldTypeOK' /\ PacketsAreHistory' /\ PacketsAreDue' /\ RequestsAreGrounded' /\ OneAnswerEach'
  <2>1. CASE req[h].expected = Version
    <3>1. /\ req' = [req EXCEPT ![h] = [req[h] EXCEPT !.phase = "matched"]]
          /\ inbox' = inbox
      BY <2>1 DEF FieldCheck
    <3>2. /\ req' \in [Handlers -> Request] /\ req'[h] = [req[h] EXCEPT !.phase = "matched"]
          /\ \A g \in Handlers \ {h} : req'[g] = req[g]
      BY <1>1, <3>1 DEF Request
    <3>3. /\ req'[h].phase = "matched" /\ req'[h].from = req[h].from /\ req'[h].call = req[h].call
          /\ req'[h].expected = req[h].expected /\ req'[h].proposed = req[h].proposed
      BY <1>1, <3>2 DEF Request
    <3> QED BY <1>1, <3>1, <3>2, <3>3, ProgressKeeps
  <2>2. CASE req[h].expected # Version
    <3>1. req' = [req EXCEPT ![h] = Free] /\ Answer(h, "mismatch", Version, ValueAt(Version))
      BY <2>2 DEF FieldCheck
    <3> QED BY <1>1, <3>1, AnswerNowKeeps
  <2> QED BY <2>1, <2>2
<1> QED BY <1>1, <1>2, WritersKept DEF IInv

LEMMA FieldRereadKeeps ==
  ASSUME IInv, NEW h \in Handlers, FieldReread(h), UNCHANGED writerVars
  PROVE  IInv'
<1>1. /\ req[h].phase # "free" /\ upsets' \in 0 .. MaxUpsets
      /\ UNCHANGED <<kind, history, userSeq, online, copy, queue, call>>
      /\ req' = [req EXCEPT ![h] = Free] /\ Answer(h, "mismatch", Version, ValueAt(Version))
  BY DEF IInv, WriterTypes, FieldReread, writerVars
<1>2. FieldTypeOK' /\ PacketsAreHistory' /\ PacketsAreDue' /\ RequestsAreGrounded' /\ OneAnswerEach'
  BY <1>1, AnswerNowKeeps
<1> QED BY <1>1, <1>2, WritersKept DEF IInv

LEMMA StatementFailsKeeps ==
  ASSUME IInv, NEW h \in Handlers, StatementFails(h)
  PROVE  IInv'
<1>1. /\ req[h].phase # "free" /\ upsets' \in 0 .. MaxUpsets
      /\ UNCHANGED <<kind, history, userSeq, online, copy, queue, call>>
      /\ req' = [req EXCEPT ![h] = Free] /\ Answer(h, "error", 0, {})
  BY MaxUpsetsAssumption DEF IInv, WriterTypes, StatementFails, FieldFail, Upset
<1>2. {} \in Value /\ 0 \in Nat
  BY DEF Value
<1>3. FieldTypeOK' /\ PacketsAreHistory' /\ PacketsAreDue' /\ RequestsAreGrounded' /\ OneAnswerEach'
  BY <1>1, <1>2, AnswerKeeps
<1> QED BY <1>1, <1>3, WritersKept DEF IInv

LEMMA FieldNumberKeeps ==
  ASSUME IInv, NEW h \in Handlers, FieldNumber(h), UNCHANGED writerVars
  PROVE  IInv'
<1>1. /\ req \in [Handlers -> Request] /\ req[h].phase = "written" /\ upsets' \in 0 .. MaxUpsets
      /\ UNCHANGED <<kind, history, online, inbox, copy, queue, call>>
      /\ userSeq \in Nat /\ userSeq' = userSeq + 1
      /\ req' = [req EXCEPT ![h] = [[req[h] EXCEPT !.phase = "numbered"] EXCEPT !.seq = userSeq + 1]]
  BY DEF IInv, FieldTypeOK, WriterTypes, FieldNumber, writerVars
<1> DEFINE new == [phase |-> "numbered", from |-> req[h].from, call |-> req[h].call,
                   expected |-> req[h].expected, proposed |-> req[h].proposed,
                   seq |-> userSeq + 1]
<1>2. [[req[h] EXCEPT !.phase = "numbered"] EXCEPT !.seq = userSeq + 1] = new
  <2>1. req[h] = [phase |-> "written", from |-> req[h].from, call |-> req[h].call,
                  expected |-> req[h].expected, proposed |-> req[h].proposed, seq |-> req[h].seq]
    BY <1>1 DEF Request
  <2>2. [req[h] EXCEPT !.phase = "numbered"]
            = [phase |-> "numbered", from |-> req[h].from, call |-> req[h].call,
               expected |-> req[h].expected, proposed |-> req[h].proposed, seq |-> req[h].seq]
    BY <2>1
  <2>3. [[phase |-> "numbered", from |-> req[h].from, call |-> req[h].call,
          expected |-> req[h].expected, proposed |-> req[h].proposed, seq |-> req[h].seq]
             EXCEPT !.seq = userSeq + 1] = new
    OBVIOUS
  <2> QED BY <2>2, <2>3
<1>3. /\ new \in Request /\ new.phase = "numbered" /\ new.from = req[h].from
      /\ new.call = req[h].call /\ new.expected = req[h].expected /\ new.proposed = req[h].proposed
  BY <1>1 DEF Request
<1> HIDE DEF new
<1>4. /\ req' \in [Handlers -> Request] /\ req'[h] = new
      /\ \A g \in Handlers \ {h} : req'[g] = req[g]
  BY <1>1, <1>2, <1>3
<1>5. FieldTypeOK' /\ PacketsAreHistory' /\ PacketsAreDue' /\ RequestsAreGrounded' /\ OneAnswerEach'
  BY <1>1, <1>3, <1>4, ProgressKeeps
<1> QED BY <1>1, <1>5, WritersKept DEF IInv

(* The UPDATE matches: the value is the next version.  It contains the one *)
(* it replaces, since the request expected that version.                   *)
LEMMA FieldWrites ==
  ASSUME IInv, NEW h \in Handlers, FieldWrite(h), req[h].expected = Version
  PROVE  /\ req[h].proposed \in Value /\ history' = Append(history, req[h].proposed)
         /\ ValueAt(Version) \subseteq req[h].proposed
<1>1. req[h] \in Request /\ req[h].phase = "matched"
  BY DEF IInv, FieldTypeOK, FieldWrite
<1> QED BY <1>1 DEF IInv, RequestsAreGrounded, FieldWrite, Request

LEMMA FieldWriteKeeps ==
  ASSUME IInv, NEW h \in Handlers, FieldWrite(h), UNCHANGED writerVars
  PROVE  IInv'
<1>1. /\ req \in [Handlers -> Request] /\ req[h].phase = "matched" /\ upsets' \in 0 .. MaxUpsets
      /\ userSeq \in Nat /\ req[h] \in Request
      /\ UNCHANGED <<kind, userSeq, online, copy, queue, call, upsets>>
  BY DEF IInv, FieldTypeOK, WriterTypes, FieldWrite, writerVars
<1>2. CASE req[h].expected = Version
  <2>1. /\ req' = [req EXCEPT ![h] = [req[h] EXCEPT !.phase = "written"]] /\ inbox' = inbox
    BY <1>2 DEF FieldWrite
  <2>2. /\ req' \in [Handlers -> Request]
        /\ \A g \in Handlers \ {h} : req'[g] = req[g]
        /\ req'[h].phase = "written" /\ req'[h].from = req[h].from /\ req'[h].call = req[h].call
        /\ req'[h].expected = req[h].expected /\ req'[h].proposed = req[h].proposed
    BY <1>1, <2>1 DEF Request
  <2>3. /\ req[h].proposed \in Value /\ history' = Append(history, req[h].proposed)
        /\ ValueAt(Version) \subseteq req[h].proposed
    BY <1>2, FieldWrites
  <2> DEFINE value == req[h].proposed
  <2>4. value \in Value /\ history' = Append(history, value)
    BY <2>3
  <2> HIDE DEF value
  <2>5. /\ history' \in Seq(Value) /\ history' # <<>>
        /\ Version' = Version + 1
        /\ ValueAt(Version)' = value
        /\ \A v \in 0 .. Version : ValueAt(v)' = ValueAt(v)
    BY <2>4, WriteFacts DEF IInv
  <2>6. Version \in Nat /\ value = req[h].proposed
    BY HistoryFacts DEF IInv, value
  <2>7. /\ history'[Version + 2] = value
        /\ \A v \in 0 .. Version : history'[v + 1] = ValueAt(v)
    BY <2>5, <2>6 DEF ValueAt
  <2>8. \A w \in Writers : \A i \in 1 .. Len(inbox[w]) : inbox[w][i].version \in Nat
    BY InboxFacts DEF IInv, Packet
  <2>9. FieldTypeOK'
    BY <1>1, <2>1, <2>2, <2>5 DEF IInv, FieldTypeOK
  <2>10. PacketsAreHistory' /\ PacketsAreDue'
    <3>1. \A w \in Writers : DOMAIN inbox[w] = 1 .. Len(inbox[w])
      BY InboxFacts DEF IInv
    <3>2. ASSUME NEW w \in Writers, NEW i \in 1 .. Len(inbox[w]), inbox[w][i].type # "error"
          PROVE  /\ inbox[w][i].version <= Version + 1
                 /\ inbox[w][i].value = history'[inbox[w][i].version + 1]
      <4>1. /\ inbox[w][i].version <= Version
            /\ inbox[w][i].value = ValueAt(inbox[w][i].version)
        BY <3>1, <3>2 DEF IInv, PacketsAreHistory
      <4> QED BY <2>6, <2>7, <2>8, <4>1
    <3> QED BY <2>1, <2>5, <3>1, <3>2 DEF IInv, PacketsAreHistory, PacketsAreDue, ValueAt
  <2>11. RequestsAreGrounded'
    <3>1. ASSUME NEW g \in Handlers, req'[g].phase # "free"
          PROVE  /\ req'[g].call \in Changes /\ req'[g].call \in req'[g].proposed
                 /\ req'[g].expected <= Version + 1
                 /\ history'[req'[g].expected + 1] \subseteq req'[g].proposed
                 /\ req'[g].phase \in {"written", "numbered"} =>
                        /\ req'[g].expected < Version + 1
                        /\ history'[req'[g].expected + 1 + 1] = req'[g].proposed
      <4>1. CASE g = h
        <5>1. req'[h].expected = Version /\ req'[h].proposed = value
              /\ req'[h].call \in Changes /\ req'[h].call \in value
          BY <1>1, <1>2, <2>2, <2>6 DEF IInv, RequestsAreGrounded
        <5>2. history'[Version + 1] = ValueAt(Version)
          BY <2>6, <2>7
        <5>3. Version + 1 + 1 = Version + 2
          BY <2>6
        <5>4. history'[Version + 1] \subseteq value /\ history'[Version + 1 + 1] = value
          BY <2>3, <2>6, <2>7, <5>2, <5>3
        <5>5. Version <= Version + 1 /\ Version < Version + 1
          BY <2>6
        <5> QED BY <4>1, <5>1, <5>4, <5>5
      <4>2. CASE g # h
        <5>1. req'[g] = req[g] /\ req[g].expected \in Nat
          BY <1>1, <2>2, <4>2 DEF Request
        <5>2. /\ req[g].call \in Changes /\ req[g].call \in req[g].proposed
              /\ req[g].expected <= Version
              /\ ValueAt(req[g].expected) \subseteq req[g].proposed
              /\ req[g].phase \in {"written", "numbered"} =>
                     /\ req[g].expected < Version
                     /\ ValueAt(req[g].expected + 1) = req[g].proposed
          BY <3>1, <5>1 DEF IInv, RequestsAreGrounded
        <5>3. req[g].expected \in 0 .. Version
          BY <2>6, <5>1, <5>2
        <5>4. req[g].phase \in {"written", "numbered"} => req[g].expected + 1 \in 0 .. Version
          BY <2>6, <5>1, <5>2
        <5>5. history'[req[g].expected + 1] = ValueAt(req[g].expected)
          BY <2>7, <5>3
        <5>6. req[g].phase \in {"written", "numbered"} =>
                  history'[req[g].expected + 1 + 1] = ValueAt(req[g].expected + 1)
          BY <2>7, <5>4
        <5>7. /\ req[g].expected <= Version + 1
              /\ history'[req[g].expected + 1] \subseteq req[g].proposed
          BY <2>6, <5>1, <5>2, <5>5
        <5>8. req[g].phase \in {"written", "numbered"} =>
                  /\ req[g].expected < Version + 1
                  /\ history'[req[g].expected + 1 + 1] = req[g].proposed
          BY <2>6, <5>1, <5>2, <5>6
        <5> QED BY <5>1, <5>2, <5>7, <5>8
      <4> QED BY <4>1, <4>2
    <3> QED BY <2>5, <3>1 DEF RequestsAreGrounded, ValueAt
  <2>12. HistoryGrows'
    <3>1. ASSUME NEW v \in 0 .. Version + 1, NEW u \in 0 .. v
          PROVE  history'[u + 1] \subseteq history'[v + 1]
      <4>1. CASE v <= Version
        <5>1. v \in 0 .. Version /\ u \in 0 .. Version
          BY <2>6, <4>1
        <5> QED BY <2>7, <5>1 DEF IInv, HistoryGrows
      <4>2. CASE v = Version + 1
        <5>1. v + 1 = Version + 2 /\ history'[v + 1] = value
          BY <2>6, <2>7, <4>2
        <5>2. CASE u = v
          BY <5>2
        <5>3. CASE u # v
          <6>1. u \in 0 .. Version /\ Version \in 0 .. Version
            BY <2>6, <4>2, <5>3
          <6>2. ValueAt(u) \subseteq ValueAt(Version)
            BY <6>1 DEF IInv, HistoryGrows
          <6> QED BY <2>3, <2>6, <2>7, <5>1, <6>1, <6>2
        <5> QED BY <5>2, <5>3
      <4> QED BY <2>6, <4>1, <4>2
    <3> QED BY <2>5, <3>1 DEF HistoryGrows, ValueAt
  <2>13. ValueAt(Version) \subseteq history'[Version + 2]
    BY <2>3, <2>6, <2>7
  <2>14. CopiesArePast'
    <3>1. ASSUME NEW w \in Agents
          PROVE  copy[w].version <= Version + 1 /\ copy[w].value = history'[copy[w].version + 1]
      <4>1. copy[w].version \in 0 .. Version /\ copy[w].value = ValueAt(copy[w].version)
        BY <2>6, CopyFacts DEF Row
      <4> QED BY <2>6, <2>7, <4>1
    <3> QED BY <1>1, <2>5, <3>1 DEF CopiesArePast, ValueAt
  <2>15. AsksAreGrounded'
    <3>1. ASSUME NEW c \in Changes, call[c].phase = "sent"
          PROVE  /\ call[c].ask.version <= Version + 1
                 /\ c \in call[c].ask.value
                 /\ history'[call[c].ask.version + 1] \subseteq call[c].ask.value
      <4>1. call[c].ask.version \in Nat
        BY DEF IInv, WriterTypes, Call, Row
      <4>2. /\ call[c].ask.version \in 0 .. Version /\ c \in call[c].ask.value
            /\ ValueAt(call[c].ask.version) \subseteq call[c].ask.value
        BY <2>6, <3>1, <4>1 DEF IInv, AsksAreGrounded
      <4> QED BY <2>6, <2>7, <4>2
    <3> QED BY <1>1, <2>5, <3>1 DEF AsksAreGrounded, ValueAt
  <2>16. AckedStays'
    <3>1. ASSUME NEW c \in Changes, call[c].phase = "acked"  PROVE c \in value
      BY <2>3, <2>6, <3>1 DEF IInv, AckedStays
    <3> QED BY <1>1, <2>5, <3>1 DEF AckedStays
  <2>17. OneAnswerEach'
    <3>1. \A g \in Handlers : req'[g].from = req[g].from /\ req'[g].call = req[g].call
                              /\ (req'[g].phase # "free" <=> req[g].phase # "free")
      BY <1>1, <2>2
    <3> QED BY <1>1, <2>1, <3>1 DEF IInv, OneAnswerEach
  <2>18. WriterTypes' /\ LocksAreHeld' /\ LocksAreLines'
    BY <1>1, LocksKept DEF IInv, WriterTypes, Made, Over
  <2> QED BY <2>9, <2>10, <2>11, <2>12, <2>14, <2>15, <2>16, <2>17, <2>18 DEF IInv
<1>3. CASE req[h].expected # Version
  <2>1. history' = history
    BY <1>3 DEF FieldWrite
  <2>2. FieldTypeOK' /\ PacketsAreHistory' /\ PacketsAreDue' /\ RequestsAreGrounded' /\ OneAnswerEach'
    <3>1. CASE kind = "session"
      <4> DEFINE version == req[h].expected
                 value == ValueAt(version)
      <4>1. req' = [req EXCEPT ![h] = Free] /\ Answer(h, "mismatch", version, value)
        BY <1>3, <3>1 DEF FieldWrite
      <4>2. version \in Nat /\ version <= Version
        BY <1>1 DEF IInv, RequestsAreGrounded, Request
      <4>3. value \in Value /\ value = ValueAt(version)
        BY <4>2, HistoryFacts DEF IInv
      <4> HIDE DEF version, value
      <4> QED BY <1>1, <2>1, <4>1, <4>2, <4>3, AnswerKeeps
    <3>2. CASE kind = "machine"
      <4>1. req' = [req EXCEPT ![h] = [req[h] EXCEPT !.phase = "lost"]] /\ inbox' = inbox
        BY <1>3, <3>2 DEF FieldWrite
      <4>2. /\ req' \in [Handlers -> Request] /\ \A g \in Handlers \ {h} : req'[g] = req[g]
            /\ req'[h].phase = "lost" /\ req'[h].from = req[h].from /\ req'[h].call = req[h].call
            /\ req'[h].expected = req[h].expected /\ req'[h].proposed = req[h].proposed
        BY <1>1, <4>1 DEF Request
      <4> QED BY <1>1, <2>1, <4>1, <4>2, ProgressKeeps
    <3> QED BY <3>1, <3>2 DEF IInv, FieldTypeOK
  <2> QED BY <1>1, <2>1, <2>2, WritersKept DEF IInv
<1> QED BY <1>2, <1>3

(* What an announcement adds to a socket's packets: the update at most,    *)
(* and for the socket that asked the success, last.                        *)
LEMMA AnnounceFacts ==
  ASSUME IInv, NEW h \in Handlers, FieldAnnounce(h)
  PROVE  /\ inbox' \in [Writers -> Seq(Packet)]
         /\ \A w \in Writers : \A i \in 1 .. Len(inbox'[w]) :
                \/ i \in 1 .. Len(inbox[w]) /\ inbox'[w][i] = inbox[w][i]
                \/ /\ inbox'[w][i].type = "update" /\ w \in Agents
                   /\ inbox'[w][i].version = req[h].expected + 1
                   /\ inbox'[w][i].value = req[h].proposed
                \/ /\ inbox'[w][i].type = "success" /\ w = req[h].from
                   /\ inbox'[w][i].call = req[h].call
                   /\ inbox'[w][i].version = req[h].expected + 1
                   /\ inbox'[w][i].value = req[h].proposed
                   /\ i > Len(inbox[w])
                   /\ \A j \in 1 .. Len(inbox'[w]) : j > Len(inbox[w]) /\ j # i
                          => inbox'[w][j].type = "update"
<1> DEFINE u == [type |-> "update", call |-> NoCall, version |-> req[h].expected + 1,
                 value |-> req[h].proposed, mark |-> req[h].seq]
           s == [type |-> "success", call |-> req[h].call, version |-> req[h].expected + 1,
                 value |-> req[h].proposed, mark |-> req[h].expected]
           us(w) == IF w \in online \intersect Listeners THEN <<u>> ELSE <<>>
           ss(w) == IF w = req[h].from THEN <<s>> ELSE <<>>
<1>1. req[h] \in Request /\ inbox \in [Writers -> Seq(Packet)]
  BY DEF IInv, FieldTypeOK
<1>2. u \in Packet /\ s \in Packet
  BY <1>1 DEF Request, Packet
<1>3. /\ u.type = "update" /\ u.version = req[h].expected + 1 /\ u.value = req[h].proposed
      /\ s.type = "success" /\ s.version = req[h].expected + 1 /\ s.value = req[h].proposed
      /\ s.call = req[h].call
  OBVIOUS
<1>4. inbox' = [w \in Writers |-> inbox[w] \o us(w) \o ss(w)]
  BY DEF FieldAnnounce
<1> HIDE DEF u, s
<1>5. ASSUME NEW w \in Writers
      PROVE  /\ inbox'[w] \in Seq(Packet)
             /\ \A i \in 1 .. Len(inbox'[w]) :
                    \/ i \in 1 .. Len(inbox[w]) /\ inbox'[w][i] = inbox[w][i]
                    \/ inbox'[w][i] = u /\ w \in Agents
                    \/ /\ inbox'[w][i] = s /\ w = req[h].from /\ i > Len(inbox[w])
                       /\ \A j \in 1 .. Len(inbox'[w]) : j > Len(inbox[w]) /\ j # i
                              => inbox'[w][j] = u
  <2>1. /\ <<u>> \in Seq(Packet) /\ Len(<<u>>) = 1 /\ <<u>>[1] = u
        /\ <<s>> \in Seq(Packet) /\ Len(<<s>>) = 1 /\ <<s>>[1] = s
        /\ <<>> \in Seq(Packet) /\ Len(<<>>) = 0
    BY <1>2, EmptySeq
  <2>2. /\ us(w) \in Seq(Packet) /\ Len(us(w)) \in {0, 1}
        /\ \A i \in 1 .. Len(us(w)) : us(w)[i] = u /\ w \in Agents
    BY <2>1, AgentsListenAssumption
  <2>3. /\ ss(w) \in Seq(Packet) /\ Len(ss(w)) \in {0, 1}
        /\ \A i \in 1 .. Len(ss(w)) : ss(w)[i] = s /\ w = req[h].from
    BY <2>1
  <2>4. inbox'[w] = (inbox[w] \o us(w)) \o ss(w) /\ inbox[w] \in Seq(Packet)
    BY <1>1, <1>4
  <2> HIDE DEF us, ss
  <2>5. Len(inbox[w]) \in Nat
    BY <2>4, LenProperties
  <2>6. /\ inbox[w] \o us(w) \in Seq(Packet)
        /\ Len(inbox[w] \o us(w)) = Len(inbox[w]) + Len(us(w))
        /\ \A i \in 1 .. Len(inbox[w]) + Len(us(w)) : (inbox[w] \o us(w))[i] =
               IF i <= Len(inbox[w]) THEN inbox[w][i] ELSE us(w)[i - Len(inbox[w])]
    BY <2>2, <2>4, ConcatProperties
  <2> DEFINE front == inbox[w] \o us(w)
  <2> HIDE DEF front
  <2>7. /\ inbox'[w] \in Seq(Packet) /\ Len(inbox'[w]) = Len(front) + Len(ss(w))
        /\ \A i \in 1 .. Len(front) + Len(ss(w)) : inbox'[w][i] =
               IF i <= Len(front) THEN front[i] ELSE ss(w)[i - Len(front)]
    BY <2>3, <2>4, <2>6, ConcatProperties DEF front
  <2>8. /\ Len(front) = Len(inbox[w]) + Len(us(w))
        /\ \A i \in 1 .. Len(front) : IF i <= Len(inbox[w]) THEN front[i] = inbox[w][i]
                                                           ELSE front[i] = u /\ w \in Agents
    BY <2>2, <2>5, <2>6 DEF front
  <2>9. Len(front) \in Nat /\ Len(inbox[w]) <= Len(front)
    BY <2>2, <2>5, <2>8
  <2>10. ASSUME NEW i \in 1 .. Len(inbox'[w]), i <= Len(front)
         PROVE  \/ i \in 1 .. Len(inbox[w]) /\ inbox'[w][i] = inbox[w][i]
                \/ i > Len(inbox[w]) /\ inbox'[w][i] = u /\ w \in Agents
    <3>1. i \in 1 .. Len(front) /\ inbox'[w][i] = front[i]
      BY <2>3, <2>7, <2>9, <2>10
    <3>2. IF i <= Len(inbox[w]) THEN front[i] = inbox[w][i] ELSE front[i] = u /\ w \in Agents
      BY <2>8, <3>1
    <3> QED BY <2>5, <3>1, <3>2
  <2>11. ASSUME NEW i \in 1 .. Len(inbox'[w]), i > Len(front)
         PROVE  i = Len(front) + 1 /\ inbox'[w][i] = s /\ w = req[h].from
    <3>1. i - Len(front) \in 1 .. Len(ss(w)) /\ i = Len(front) + 1
      BY <2>3, <2>7, <2>9, <2>11
    <3>2. inbox'[w][i] = ss(w)[i - Len(front)]
      BY <2>3, <2>7, <2>9, <2>11
    <3> QED BY <2>3, <3>1, <3>2
  <2>12. ASSUME NEW i \in 1 .. Len(inbox'[w]), i = Len(front) + 1,
                NEW j \in 1 .. Len(inbox'[w]), j > Len(inbox[w]), j # i
         PROVE  inbox'[w][j] = u
    <3>1. j <= Len(front)
      BY <2>3, <2>7, <2>9, <2>12
    <3> QED BY <2>10, <2>12, <3>1, <2>5
  <2>13. ASSUME NEW i \in 1 .. Len(inbox'[w])
         PROVE  \/ i \in 1 .. Len(inbox[w]) /\ inbox'[w][i] = inbox[w][i]
                \/ inbox'[w][i] = u /\ w \in Agents
                \/ /\ inbox'[w][i] = s /\ w = req[h].from /\ i > Len(inbox[w])
                   /\ \A j \in 1 .. Len(inbox'[w]) : j > Len(inbox[w]) /\ j # i
                          => inbox'[w][j] = u
    <3>1. CASE i <= Len(front)
      BY <2>10, <3>1
    <3>2. CASE i > Len(front)
      <4>1. i = Len(front) + 1 /\ inbox'[w][i] = s /\ w = req[h].from
        BY <2>11, <3>2
      <4>2. i > Len(inbox[w])
        BY <2>5, <2>9, <3>2
      <4> QED BY <2>12, <4>1, <4>2
    <3> QED BY <2>9, <3>1, <3>2
  <2> QED BY <2>7, <2>13
<1>6. inbox' \in [Writers -> Seq(Packet)]
  BY <1>4, <1>5
<1> QED BY <1>3, <1>5, <1>6

LEMMA FieldAnnounceKeeps ==
  ASSUME IInv, NEW h \in Handlers, FieldAnnounce(h), UNCHANGED writerVars
  PROVE  IInv'
<1>1. /\ req \in [Handlers -> Request] /\ req[h].phase = "numbered" /\ upsets' \in 0 .. MaxUpsets
      /\ UNCHANGED <<kind, history, userSeq, online, copy, queue, call>>
      /\ req' = [req EXCEPT ![h] = Free]
  BY DEF IInv, FieldTypeOK, WriterTypes, FieldAnnounce, writerVars
<1>2. /\ inbox' \in [Writers -> Seq(Packet)]
      /\ \A w \in Writers : DOMAIN inbox'[w] = 1 .. Len(inbox'[w])
  BY AnnounceFacts, LenProperties
<1>3. Free \in Request /\ Free.phase = "free" /\ Free.from \notin Writers
  BY FreeFacts
<1>4. /\ req' \in [Handlers -> Request]
      /\ req'[h] = Free /\ \A g \in Handlers \ {h} : req'[g] = req[g]
  BY <1>1, <1>3
<1>5. FieldTypeOK'
  BY <1>1, <1>2, <1>4 DEF IInv, FieldTypeOK
<1>6. RequestsAreGrounded'
  BY <1>1, <1>3, <1>4 DEF IInv, RequestsAreGrounded, Version, ValueAt
<1>7. /\ req[h].call \in Changes /\ req[h].call \in req[h].proposed
      /\ req[h].expected + 1 <= Version /\ ValueAt(req[h].expected + 1) = req[h].proposed
  <2>1. req[h].expected \in Nat /\ Version \in Nat
    BY <1>1, HistoryFacts DEF IInv, Request
  <2> QED BY <1>1, <2>1 DEF IInv, RequestsAreGrounded
<1>8. PacketsAreHistory' /\ PacketsAreDue'
  <2> SUFFICES ASSUME NEW w \in Writers, NEW i \in 1 .. Len(inbox'[w])
               PROVE  /\ inbox'[w][i].type # "error" =>
                            /\ inbox'[w][i].version <= Version
                            /\ inbox'[w][i].value = ValueAt(inbox'[w][i].version)
                      /\ inbox'[w][i].type = "success" =>
                            inbox'[w][i].call \in inbox'[w][i].value
                      /\ inbox'[w][i].type = "update" => w \in Agents
    BY <1>1, <1>2 DEF PacketsAreHistory, PacketsAreDue, Version, ValueAt
  <2>1. CASE i \in 1 .. Len(inbox[w]) /\ inbox'[w][i] = inbox[w][i]
    BY <2>1, InboxFacts DEF IInv, PacketsAreHistory, PacketsAreDue
  <2>2. CASE /\ inbox'[w][i].type = "update" /\ w \in Agents
             /\ inbox'[w][i].version = req[h].expected + 1
             /\ inbox'[w][i].value = req[h].proposed
    BY <1>7, <2>2
  <2>3. CASE /\ inbox'[w][i].type = "success"
             /\ inbox'[w][i].call = req[h].call
             /\ inbox'[w][i].version = req[h].expected + 1
             /\ inbox'[w][i].value = req[h].proposed
    BY <1>7, <2>3
  <2> QED BY <2>1, <2>2, <2>3, AnnounceFacts
<1>9. OneAnswerEach'
  <2>1. ASSUME NEW w \in Writers, NEW i \in 1 .. Len(inbox'[w]), inbox'[w][i].type # "update"
        PROVE  /\ inbox'[w][i].call \in Changes
               /\ call'[inbox'[w][i].call].phase = "waiting" /\ ChangeOf[inbox'[w][i].call] = w
               /\ \A g \in Handlers : req'[g].from = w => req'[g].call # inbox'[w][i].call
               /\ \A j \in 1 .. Len(inbox'[w]) :
                      inbox'[w][j].type # "update" /\ i # j
                          => inbox'[w][i].call # inbox'[w][j].call
    <3>1. CASE i \in 1 .. Len(inbox[w]) /\ inbox'[w][i] = inbox[w][i]
      <4>1. /\ inbox[w][i].call \in Changes
            /\ call[inbox[w][i].call].phase = "waiting" /\ ChangeOf[inbox[w][i].call] = w
            /\ \A g \in Handlers : req[g].from = w => req[g].call # inbox[w][i].call
            /\ \A j \in 1 .. Len(inbox[w]) :
                   inbox[w][j].type # "update" /\ i # j => inbox[w][i].call # inbox[w][j].call
        BY <2>1, <3>1 DEF IInv, OneAnswerEach
      <4>2. \A j \in 1 .. Len(inbox'[w]) : inbox'[w][j].type # "update" =>
                \/ j \in 1 .. Len(inbox[w]) /\ inbox'[w][j] = inbox[w][j]
                \/ w = req[h].from /\ inbox'[w][j].call = req[h].call
        BY AnnounceFacts
      <4>3. \A j \in 1 .. Len(inbox'[w]) : inbox'[w][j].type # "update" /\ i # j
                => inbox[w][i].call # inbox'[w][j].call
        BY <4>1, <4>2
      <4> QED BY <1>1, <1>3, <1>4, <3>1, <4>1, <4>3
    <3>2. CASE /\ w = req[h].from /\ inbox'[w][i].call = req[h].call /\ i > Len(inbox[w])
               /\ \A j \in 1 .. Len(inbox'[w]) : j > Len(inbox[w]) /\ j # i
                      => inbox'[w][j].type = "update"
      <4>1. /\ call[req[h].call].phase = "waiting" /\ ChangeOf[req[h].call] = w
            /\ \A g \in Handlers : req[g].from = w /\ g # h => req[g].call # req[h].call
            /\ \A j \in 1 .. Len(inbox[w]) : inbox[w][j].type # "update"
                   => req[h].call # inbox[w][j].call
        BY <3>2 DEF IInv, OneAnswerEach
      <4>2. \A j \in 1 .. Len(inbox'[w]) : inbox'[w][j].type # "update" /\ i # j =>
                j \in 1 .. Len(inbox[w]) /\ inbox'[w][j] = inbox[w][j]
        BY <3>2, AnnounceFacts
      <4> QED BY <1>1, <1>3, <1>4, <1>7, <3>2, <4>1, <4>2
    <3> QED BY <2>1, <3>1, <3>2, AnnounceFacts
  <2>2. ASSUME NEW g \in Handlers, req'[g].from \in Writers
        PROVE  /\ req'[g].phase # "free"
               /\ call'[req'[g].call].phase = "waiting"
               /\ ChangeOf[req'[g].call] = req'[g].from
               /\ \A k \in Handlers : req'[k].from \in Writers /\ g # k
                      => req'[g].call # req'[k].call
    BY <1>1, <1>3, <1>4, <2>2 DEF IInv, OneAnswerEach
  <2> QED BY <2>1, <2>2 DEF OneAnswerEach
<1> QED BY <1>1, <1>5, <1>6, <1>8, <1>9, WritersKept DEF IInv

-----------------------------------------------------------------------------
(* Connections and the server's process.                                   *)

(* The calls of W are rejected: nothing that is left of them gets an       *)
(* answer.                                                                 *)
LEMMA RejectKeeps ==
  ASSUME IInv, NEW W \in SUBSET Writers, CallsReject(W),
         UNCHANGED <<kind, history, userSeq>>, online' \subseteq Writers,
         req' \in [Handlers -> Request], inbox' \in [Writers -> Seq(Packet)],
         \A h \in Handlers :
             \/ req'[h] = Free
             \/ req'[h] = [req[h] EXCEPT !.from = NoWriter]
             \/ req'[h] = req[h] /\ req[h].from \notin W,
         \A x \in Writers : inbox'[x] = <<>> \/ (x \notin W /\ inbox'[x] = inbox[x])
  PROVE  IInv'
<1>1. /\ call \in [Changes -> Call] /\ req \in [Handlers -> Request]
      /\ upsets' \in 0 .. MaxUpsets /\ UNCHANGED <<copy, queue>>
  BY MaxUpsetsAssumption DEF IInv, WriterTypes, FieldTypeOK, CallsReject, Upset
<1>2. ASSUME NEW c \in Changes
      PROVE  \/ call'[c] = call[c]
             \/ /\ ChangeOf[c] \in W /\ call[c].phase \in {"sent", "waiting"}
                /\ \/ call'[c] = At("backoff")
                   \/ ChangeOf[c] \notin Agents /\ call'[c] = At("dropped")
  BY DEF CallsReject
<1>3. call' \in [Changes -> Call]
  <2>1. call' = [c \in Changes |-> call'[c]]
    BY DEF CallsReject
  <2> QED BY <1>1, <1>2, <2>1, AtFacts
<1>4. At("backoff").phase = "backoff" /\ At("dropped").phase = "dropped"
  BY AtFacts
<1>5. ASSUME NEW h \in Handlers
      PROVE  /\ req'[h].from \in Writers => req'[h] = req[h] /\ req[h].from \notin W
             /\ req'[h].phase # "free" =>
                    /\ req'[h].phase = req[h].phase /\ req'[h].call = req[h].call
                    /\ req'[h].expected = req[h].expected /\ req'[h].proposed = req[h].proposed
  <2> DEFINE r == req[h]
  <2>1. r \in Request
    BY <1>1
  <2> HIDE DEF r
  <2>2. LET x == [r EXCEPT !.from = NoWriter]
        IN  /\ x.from = NoWriter /\ x.phase = r.phase /\ x.call = r.call
            /\ x.expected = r.expected /\ x.proposed = r.proposed
    BY <2>1 DEF Request
  <2>3. \/ req'[h] = Free \/ req'[h] = [r EXCEPT !.from = NoWriter]
        \/ req'[h] = r /\ r.from \notin W
    BY DEF r
  <2>4. CASE req'[h] = Free
    BY <2>4, FreeFacts
  <2>5. CASE req'[h] = [r EXCEPT !.from = NoWriter]
    BY <2>2, <2>5, NoWriterAssumption DEF r
  <2>6. CASE req'[h] = r /\ r.from \notin W
    BY <2>6 DEF r
  <2> QED BY <2>3, <2>4, <2>5, <2>6
<1>6. \A h \in Handlers : req'[h].phase # "free" =>
          /\ req'[h].phase = req[h].phase /\ req'[h].call = req[h].call
          /\ req'[h].expected = req[h].expected /\ req'[h].proposed = req[h].proposed
  BY <1>5
<1>7. \A x \in Writers : \A i \in 1 .. Len(inbox'[x]) : x \notin W /\ inbox'[x] = inbox[x]
  BY EmptySeq
<1>8. FieldTypeOK' /\ WriterTypes'
  BY <1>1, <1>3 DEF IInv, FieldTypeOK, WriterTypes
<1>9. LocksAreHeld' /\ LocksAreLines'
  <2>1. \A c \in Changes : ChangeOf[c] \in Agents =>
             /\ Made(c)' <=> Made(c)
             /\ Over(c)' <=> Over(c)
             /\ call'[c].phase = "locked" <=> call[c].phase = "locked"
    BY <1>2, <1>4 DEF Made, Over
  <2> QED BY <1>1, <2>1, LocksKept
<1>10. RequestsAreGrounded'
  BY <1>6 DEF IInv, RequestsAreGrounded, Version, ValueAt
<1>11. PacketsAreHistory' /\ PacketsAreDue'
  <2> SUFFICES ASSUME NEW x \in Writers, NEW i \in 1 .. Len(inbox'[x])
               PROVE  /\ inbox'[x][i].type # "error" =>
                            /\ inbox'[x][i].version <= Version
                            /\ inbox'[x][i].value = ValueAt(inbox'[x][i].version)
                      /\ inbox'[x][i].type = "success" =>
                            inbox'[x][i].call \in inbox'[x][i].value
                      /\ inbox'[x][i].type = "update" => x \in Agents
    <3>1. \A x \in Writers : DOMAIN inbox'[x] = 1 .. Len(inbox'[x])
      BY LenProperties
    <3> QED BY <3>1 DEF PacketsAreHistory, PacketsAreDue, Version, ValueAt
  <2>1. i \in 1 .. Len(inbox[x]) /\ inbox'[x] = inbox[x]
    BY <1>7
  <2> QED BY <2>1, InboxFacts DEF IInv, PacketsAreHistory, PacketsAreDue
<1>12. OneAnswerEach'
  <2>1. ASSUME NEW h \in Handlers, req'[h].from \in Writers
        PROVE  /\ req'[h].phase # "free"
               /\ call'[req'[h].call].phase = "waiting"
               /\ ChangeOf[req'[h].call] = req'[h].from
               /\ \A g \in Handlers : req'[g].from \in Writers /\ g # h
                      => req'[h].call # req'[g].call
    <3>1. req'[h] = req[h] /\ req[h].from \notin W /\ req[h].from \in Writers
      BY <1>5, <2>1
    <3>2. /\ req[h].phase # "free" /\ call[req[h].call].phase = "waiting"
          /\ ChangeOf[req[h].call] = req[h].from
      BY <3>1 DEF IInv, OneAnswerEach
    <3>3. req[h].call \in Changes
      BY <3>2 DEF IInv, RequestsAreGrounded
    <3>4. call'[req[h].call] = call[req[h].call]
      BY <1>2, <3>1, <3>2, <3>3
    <3>5. \A g \in Handlers : req'[g].from \in Writers /\ g # h => req'[h].call # req'[g].call
      BY <1>5, <3>1 DEF IInv, OneAnswerEach
    <3> QED BY <3>1, <3>2, <3>4, <3>5
  <2>2. ASSUME NEW x \in Writers, NEW i \in 1 .. Len(inbox'[x]), inbox'[x][i].type # "update"
        PROVE  /\ inbox'[x][i].call \in Changes
               /\ call'[inbox'[x][i].call].phase = "waiting"
               /\ ChangeOf[inbox'[x][i].call] = x
               /\ \A h \in Handlers : req'[h].from = x => req'[h].call # inbox'[x][i].call
               /\ \A j \in 1 .. Len(inbox'[x]) :
                      inbox'[x][j].type # "update" /\ i # j
                          => inbox'[x][i].call # inbox'[x][j].call
    <3>1. inbox'[x] = inbox[x] /\ x \notin W
      BY <1>7
    <3>2. /\ inbox[x][i].call \in Changes
          /\ call[inbox[x][i].call].phase = "waiting" /\ ChangeOf[inbox[x][i].call] = x
          /\ \A h \in Handlers : req[h].from = x => req[h].call # inbox[x][i].call
          /\ \A j \in 1 .. Len(inbox[x]) :
                 inbox[x][j].type # "update" /\ i # j => inbox[x][i].call # inbox[x][j].call
      BY <2>2, <3>1 DEF IInv, OneAnswerEach
    <3>3. call'[inbox[x][i].call] = call[inbox[x][i].call]
      BY <1>2, <3>1, <3>2
    <3>4. \A h \in Handlers : req'[h].from = x => req'[h].call # inbox[x][i].call
      BY <1>5, <3>2
    <3> QED BY <3>1, <3>2, <3>3, <3>4
  <2> QED BY <2>1, <2>2 DEF OneAnswerEach
<1>13. AsksAreGrounded' /\ AckedStays' /\ CopiesArePast' /\ HistoryGrows'
  BY <1>1, <1>2, <1>4
     DEF IInv, AsksAreGrounded, AckedStays, CopiesArePast, HistoryGrows, Version, ValueAt
<1> QED BY <1>8, <1>9, <1>10, <1>11, <1>12, <1>13 DEF IInv

LEMMA ConnectionLostKeeps ==
  ASSUME IInv, NEW w \in Writers, ConnectionLost(w)
  PROVE  IInv'
<1>1. /\ req \in [Handlers -> Request] /\ inbox \in [Writers -> Seq(Packet)]
      /\ online \subseteq Writers
  BY DEF IInv, FieldTypeOK
<1>2. /\ online' = online \ {w} /\ inbox' = [inbox EXCEPT ![w] = <<>>]
      /\ req' = [h \in Handlers |-> IF req[h].from = w THEN [req[h] EXCEPT !.from = NoWriter]
                                                       ELSE req[h]]
      /\ UNCHANGED <<kind, history, userSeq>> /\ CallsReject({w}) /\ {w} \in SUBSET Writers
  BY DEF ConnectionLost, FieldDisconnect
<1>3. \A h \in Handlers : [req[h] EXCEPT !.from = NoWriter] \in Request
  BY <1>1 DEF Request
<1>4. req' \in [Handlers -> Request] /\ inbox' \in [Writers -> Seq(Packet)]
  BY <1>1, <1>2, <1>3, EmptySeq
<1>5. \A h \in Handlers : \/ req'[h] = [req[h] EXCEPT !.from = NoWriter]
                          \/ req'[h] = req[h] /\ req[h].from \notin {w}
  BY <1>2
<1>6. \A x \in Writers : inbox'[x] = <<>> \/ (x \notin {w} /\ inbox'[x] = inbox[x])
  BY <1>1, <1>2
<1> QED BY <1>1, <1>2, <1>4, <1>5, <1>6, RejectKeeps

LEMMA ServerRestartsKeeps ==
  ASSUME IInv, ServerRestarts
  PROVE  IInv'
<1>1. /\ online' = {} /\ inbox' = [w \in Writers |-> <<>>]
      /\ req' = [h \in Handlers |-> Free]
      /\ UNCHANGED <<kind, history, userSeq>> /\ CallsReject(Writers)
      /\ Writers \in SUBSET Writers /\ online' \subseteq Writers
  BY DEF ServerRestarts
<1>2. req' \in [Handlers -> Request] /\ inbox' \in [Writers -> Seq(Packet)]
  BY <1>1, FreeFacts, EmptySeq
<1>3. /\ \A h \in Handlers : req'[h] = Free
      /\ \A x \in Writers : inbox'[x] = <<>>
  BY <1>1
<1> QED BY <1>1, <1>2, <1>3, RejectKeeps

LEMMA ConnectsKeeps ==
  ASSUME IInv, NEW w \in Writers, Connects(w)
  PROVE  IInv'
<1>1. /\ online' \subseteq Writers /\ upsets' \in 0 .. MaxUpsets
      /\ UNCHANGED <<kind, history, userSeq, req, inbox, copy, queue, call>>
  BY DEF IInv, FieldTypeOK, WriterTypes, Connects, FieldConnect, writerVars
<1>2. FieldTypeOK' /\ PacketsAreHistory' /\ PacketsAreDue' /\ RequestsAreGrounded'
  BY <1>1 DEF IInv, FieldTypeOK, PacketsAreHistory, PacketsAreDue, RequestsAreGrounded,
              Version, ValueAt
<1>3. OneAnswerEach'
  BY <1>1, WaitersKept
<1> QED BY <1>1, <1>2, <1>3, WritersKept DEF IInv

-----------------------------------------------------------------------------
(* The invariant.                                                          *)

LEMMA InitIInv == Init => IInv
<1> SUFFICES ASSUME Init  PROVE IInv
  OBVIOUS
<1>1. /\ kind \in {"session", "machine"} /\ history = <<{}>> /\ userSeq = 0
      /\ req = [h \in Handlers |-> Free] /\ online = {}
      /\ inbox = [w \in Writers |-> <<>>]
      /\ copy = [w \in Agents |-> NoRow] /\ queue = [w \in Agents |-> <<>>]
      /\ call = [c \in Changes |-> At("none")] /\ upsets = 0
  BY DEF Init, FieldInit
<1>2. /\ Version = 0 /\ ValueAt(0) = {} /\ {} \in Value
      /\ history \in Seq(Value) /\ history # <<>>
  BY <1>1 DEF Version, ValueAt, Value
<1>3. /\ \A w \in Writers : inbox[w] = <<>> /\ DOMAIN inbox[w] = {} /\ Len(inbox[w]) = 0
      /\ \A w \in Agents : queue[w] = <<>> /\ DOMAIN queue[w] = {} /\ Len(queue[w]) = 0
  BY <1>1
<1>4. \A c \in Changes : call[c].phase = "none" /\ call[c] \in Call
  BY <1>1, AtFacts
<1>5. \A h \in Handlers : req[h].phase = "free" /\ req[h].from \notin Writers /\ req[h] \in Request
  BY <1>1, FreeFacts
<1>6. FieldTypeOK
  BY <1>1, <1>2, FreeFacts, EmptySeq DEF FieldTypeOK
<1>7. WriterTypes
  BY <1>1, AtFacts, EmptySeq, MaxUpsetsAssumption DEF WriterTypes
<1>8. LocksAreHeld /\ LocksAreLines
  <2>1. ASSUME NEW w \in Agents
        PROVE  {queue[w][i] : i \in DOMAIN queue[w]} = {c \in CallsOf(w) : Made(c) /\ ~Over(c)}
    <3>1. {queue[w][i] : i \in DOMAIN queue[w]} = {}
      BY <1>3
    <3>2. {c \in CallsOf(w) : Made(c) /\ ~Over(c)} = {}
      BY <1>4 DEF CallsOf, Made
    <3> QED BY <3>1, <3>2
  <2>2. \A w \in Agents : \A i \in DOMAIN queue[w] : call[queue[w][i]].phase = "locked" <=> i > 1
    BY <1>3
  <2>3. LocksAreLines
    BY <1>3 DEF LocksAreLines
  <2> QED BY <2>1, <2>2, <2>3 DEF LocksAreHeld
<1>9. OneAnswerEach /\ PacketsAreHistory /\ PacketsAreDue
  BY <1>3, <1>5 DEF OneAnswerEach, PacketsAreHistory, PacketsAreDue
<1>10. CopiesArePast
  <2>1. \A w \in Agents : copy[w].version = 0 /\ copy[w].value = {}
    BY <1>1 DEF NoRow
  <2>2. 0 <= Version
    BY <1>2
  <2> QED BY <1>2, <2>1, <2>2 DEF CopiesArePast
<1>11. AsksAreGrounded /\ RequestsAreGrounded /\ AckedStays
  BY <1>4, <1>5 DEF AsksAreGrounded, RequestsAreGrounded, AckedStays
<1>12. HistoryGrows
  BY <1>2 DEF HistoryGrows
<1> QED BY <1>6, <1>7, <1>8, <1>9, <1>10, <1>11, <1>12 DEF IInv

LEMMA ServesKeeps ==
  ASSUME IInv, NEW h \in Handlers, Serves(h)
  PROVE  IInv'
BY FieldCheckKeeps, FieldWriteKeeps, FieldRereadKeeps, FieldNumberKeeps, FieldAnnounceKeeps
   DEF Serves, FieldServer

LEMMA StepIInv == IInv /\ [Next]_allVars => IInv'
<1> SUFFICES ASSUME IInv, [Next]_allVars  PROVE IInv'
  OBVIOUS
<1>1. ASSUME NEW w \in Agents, AgentStep(w)  PROVE IInv'
  BY <1>1, AgentCallsKeeps, AgentSendsKeeps, AgentHearsUpdateKeeps, AgentHearsAnswerKeeps
     DEF AgentStep
<1>2. ASSUME NEW w \in Apps, AppStep(w)  PROVE IInv'
  BY <1>2, AppCallsKeeps, AppTriesAgainKeeps, AppEndsKeeps DEF AppStep
<1>3. ASSUME UNCHANGED allVars  PROVE IInv'
  <2>1. /\ UNCHANGED fieldVars /\ UNCHANGED <<copy, queue, call, kind, history, req, inbox>>
        /\ upsets' \in 0 .. MaxUpsets
    BY <1>3 DEF allVars, fieldVars, writerVars, IInv, WriterTypes
  <2>2. OneAnswerEach'
    BY <2>1, WaitersKept
  <2> QED BY <2>1, <2>2, FieldKept, WritersKept DEF IInv
<1> QED BY <1>1, <1>2, <1>3, ReachesKeeps, ServesKeeps, StatementFailsKeeps, ConnectsKeeps,
           ConnectionLostKeeps, ServerRestartsKeeps DEF Next

LEMMA AlwaysIInv == Spec => []IInv
<1> QED BY InitIInv, StepIInv, PTL DEF Spec

(* Every variable keeps its type, and a session's lock holds the calls of  *)
(* its agent that go on, each once, of which the first alone has got it:   *)
(* the inLock of updateMetadata and updateAgentState.                      *)
THEOREM WritersTypeCorrect == Spec => []WritersTypeOK
<1>1. IInv => WritersTypeOK
  BY DEF IInv, WritersTypeOK, WriterTypes, LocksAreHeld
<1> QED BY <1>1, AlwaysIInv, PTL

(* A change whose call ended with 'success' is in the field, and stays     *)
(* there through the writes of every other agent and app, failed           *)
(* statements, lost connections and restarts of the server: the merge of   *)
(* the callers' handlers with the conditional UPDATE.                      *)
THEOREM AckedIsNeverLost == Spec => []AckedStays
<1>1. IInv => AckedStays
  BY DEF IInv
<1> QED BY <1>1, AlwaysIInv, PTL

(* Every copy of the field, an agent's or one in a packet on its way, is   *)
(* the value that the server had with that version: what the handlers of   *)
(* 'update' and of the answers adopt.                                      *)
THEOREM CopiesAreAlwaysHistory == Spec => []CopiesAreHistory
<1>1. IInv => CopiesAreHistory
  BY DEF IInv, CopiesAreHistory, CopiesArePast
<1> QED BY <1>1, AlwaysIInv, PTL

(* No write overwrites a change that was merged before, whoever wrote it:  *)
(* updateMany WHERE version = expectedVersion lets only a value through    *)
(* that was made from the current one.                                     *)
THEOREM NothingIsOverwritten == Spec => NoSilentOverwrite
<1>1. ASSUME IInv, [Next]_allVars
      PROVE  [history' # history =>
                \E value \in Value : /\ history' = Append(history, value)
                                     /\ ValueAt(Version) \subseteq value]_history
  <2>1. ASSUME NEW h \in Handlers, FieldWrite(h), history' # history
        PROVE  \E value \in Value : /\ history' = Append(history, value)
                                    /\ ValueAt(Version) \subseteq value
    <3>1. req[h].expected = Version
      BY <2>1 DEF FieldWrite
    <3> QED BY <1>1, <2>1, <3>1, FieldWrites
  <2>2. ASSUME NEW h \in Handlers, FieldServer(h), ~FieldWrite(h)  PROVE history' = history
    BY <2>2 DEF FieldServer, FieldCheck, FieldReread, FieldNumber, FieldAnnounce
  <2>3. ASSUME NEW w \in Agents, AgentStep(w)  PROVE history' = history
    BY <2>3 DEF AgentStep, AgentCalls, AgentSends, AgentHearsUpdate, AgentHearsAnswer,
                FieldHear, fieldVars
  <2>4. ASSUME NEW w \in Apps, AppStep(w)  PROVE history' = history
    BY <2>4 DEF AppStep, AppCalls, AppTriesAgain, AppEnds, FieldHear, fieldVars
  <2>5. ASSUME NEW w \in Writers, Connects(w) \/ ConnectionLost(w)  PROVE history' = history
    BY <2>5 DEF Connects, FieldConnect, ConnectionLost, FieldDisconnect
  <2>6. ASSUME NEW c \in Changes, NEW h \in Handlers, Reaches(c, h) \/ StatementFails(h)
        PROVE  history' = history
    BY <2>6 DEF Reaches, FieldArrive, StatementFails, FieldFail
  <2>7. ASSUME NEW h \in Handlers, StatementFails(h)  PROVE history' = history
    BY <2>7 DEF StatementFails, FieldFail
  <2>8. ServerRestarts \/ UNCHANGED allVars => history' = history
    BY DEF ServerRestarts, allVars, fieldVars
  <2> QED BY <1>1, <2>1, <2>2, <2>3, <2>4, <2>5, <2>6, <2>7, <2>8 DEF Next, Serves
<1> QED BY <1>1, AlwaysIInv, PTL DEF Spec, NoSilentOverwrite
=============================================================================
