------------------------- MODULE MessageStore_proof -------------------------
(***************************************************************************)
(* What the message store of the server promises, for any messages, any    *)
(* batches, any number of handlers and sockets, and any interleaving,      *)
(* failure and crash of them: the invariants of MessageStore, and that it  *)
(* implements the abstract log of SessionLog.                              *)
(***************************************************************************)
EXTENDS MessageStore, FiniteSetTheorems, TLAPS

(* A request in agreement with the rows R and the counter n: its lookup    *)
(* returned committed rows of its batch, what it announces is committed,   *)
(* the seq it holds is nobody's row, and the answer it has (or will give   *)
(* after its last emit) is the truth.                                      *)
RequestSound(q, R, n) ==
    /\ q.found \subseteq R /\ IdsOf(q.found) \subseteq Range(q.batch)
    /\ q.todo \subseteq R /\ (q.phase # "emitting" => q.todo = {})
    /\ q.phase \in {"message", "allocated"} => Len(q.batch) = 1 /\ q.from # NoSocket
    /\ q.from # NoSocket => ~q.awaited
    /\ q.phase = "allocated" => q.seq <= n /\ \A r \in R : r.seq # q.seq
    /\ (q.phase = "replied" \/ (q.phase = "emitting" /\ q.from = NoSocket)) =>
           q.reply \subseteq R /\ IdsOf(q.reply) = Range(q.batch)

(* Two requests do not hold the same seq, nor announce the same row.       *)
Apart(p, q) ==
    /\ (p.phase = "allocated" /\ q.phase = "allocated") => p.seq # q.seq
    /\ p.todo \intersect q.todo = {}

RequestsSound == \A h \in Handlers : RequestSound(req[h], rows, sessionSeq)

RequestsApart == \A h, g \in Handlers : h # g => Apart(req[h], req[g])

SeqsAllocated == \A r \in rows : r.seq <= sessionSeq

(* What is still to be announced is in no channel.                         *)
TodoIsNew == \A h \in Handlers, s \in Sockets : \A i \in DOMAIN chan[s] :
                 chan[s][i] \notin req[h].todo

IInv == /\ StoreTypeOK /\ RequestsSound /\ RequestsApart /\ SeqsAllocated
        /\ OneRowPerMessage /\ TodoIsNew /\ UpdatesAreNews

-----------------------------------------------------------------------------
(* Facts about the operators of the model.                                 *)

LEMMA RangeFinite ==
  ASSUME NEW q \in Seq(Ids)
  PROVE  IsFiniteSet(Range(q)) /\ Range(q) \subseteq Ids
<1>1. IsFiniteSet(1 .. Len(q))
  BY FS_Interval
<1>2. q \in Surjection(1 .. Len(q), Range(q))
  BY DEF Surjection, Range
<1> QED BY <1>1, <1>2, FS_Surjection DEF Range

LEMMA IdsOfUnion ==
  ASSUME NEW R, NEW S
  PROVE  IdsOf(R \union S) = IdsOf(R) \union IdsOf(S)
  BY DEF IdsOf

(* The rows a POST creates: new ids, each once, new seqs, each once.       *)
LEMMA NumberedFacts ==
  ASSUME NEW h \in Handlers, NEW f \in Numberings(h), sessionSeq \in Nat,
         req[h].batch \in Seq(Ids)
  PROVE  /\ Cardinality(NewIds(h)) \in Nat
         /\ Numbered(f) \subseteq Row
         /\ IdsOf(Numbered(f)) = NewIds(h)
         /\ \A r \in Numbered(f) : /\ r.id \in NewIds(h)
                                   /\ sessionSeq < r.seq
                                   /\ r.seq <= sessionSeq + Cardinality(NewIds(h))
         /\ \A r, q \in Numbered(f) : (r.id = q.id \/ r.seq = q.seq) => r = q
<1>1. IsFiniteSet(NewIds(h)) /\ NewIds(h) \subseteq Ids
  BY RangeFinite, FS_Subset DEF NewIds
<1>2. Cardinality(NewIds(h)) \in Nat
  BY <1>1, FS_CardinalityType
<1> DEFINE n == Cardinality(NewIds(h))
<1>3. /\ f \in [NewIds(h) -> sessionSeq + 1 .. sessionSeq + n]
      /\ \A x, y \in NewIds(h) : x # y => f[x] # f[y]
  BY DEF Numberings
<1> HIDE DEF n
<1>4. \A r \in Numbered(f) : \E id \in NewIds(h) : r = [seq |-> f[id], id |-> id]
  BY <1>3 DEF Numbered
<1>5. \A id \in NewIds(h) : f[id] \in Nat /\ sessionSeq < f[id] /\ f[id] <= sessionSeq + n
  BY <1>2, <1>3 DEF n
<1>6. Numbered(f) \subseteq Row
  BY <1>1, <1>4, <1>5 DEF Row
<1>7. IdsOf(Numbered(f)) = NewIds(h)
  <2>1. ASSUME NEW id \in NewIds(h)  PROVE id \in IdsOf(Numbered(f))
    <3> DEFINE r == [seq |-> f[id], id |-> id]
    <3>1. r \in Numbered(f)
      BY <1>3 DEF Numbered
    <3> QED BY <3>1 DEF IdsOf
  <2>2. ASSUME NEW id \in IdsOf(Numbered(f))  PROVE id \in NewIds(h)
    BY <1>4 DEF IdsOf
  <2> QED BY <2>1, <2>2
<1>8. \A r \in Numbered(f) : /\ r.id \in NewIds(h)
                             /\ sessionSeq < r.seq
                             /\ r.seq <= sessionSeq + Cardinality(NewIds(h))
  BY <1>4, <1>5 DEF n
<1>9. \A r, q \in Numbered(f) : (r.id = q.id \/ r.seq = q.seq) => r = q
  BY <1>3, <1>4
<1> QED BY <1>2, <1>6, <1>7, <1>8, <1>9

(* Requests stay sound while rows are added that use no seq they hold.     *)
LEMMA StaysSound ==
  ASSUME NEW q \in Request, NEW R, NEW S, NEW n \in Nat, NEW m \in Nat,
         RequestSound(q, R, n), R \subseteq S, n <= m,
         q.phase = "allocated" => \A r \in S \ R : r.seq # q.seq
  PROVE  RequestSound(q, S, m)
  BY DEF RequestSound, Request

LEMMA FreeIsSound ==
  ASSUME NEW R, NEW n
  PROVE  Free \in Request /\ RequestSound(Free, R, n) /\ Free.todo = {}
         /\ Free.phase = "free"
  BY DEF Free, Request, RequestSound, IdsOf, Range

(* Ending a request, with an answer or without a listener.                 *)
LEMMA EndedIsSound ==
  ASSUME NEW q \in Request, NEW R, NEW n, NEW phase \in {"replied", "failed"},
         RequestSound(q, R, n), q.todo = {},
         phase = "replied" =>
             (q.from = NoSocket => q.reply \subseteq R /\ IdsOf(q.reply) = Range(q.batch))
  PROVE  /\ Ended(q, phase) \in Request
         /\ RequestSound(Ended(q, phase), R, n)
         /\ Ended(q, phase).todo = {}
         /\ Ended(q, phase).phase # "allocated"
<1>1. CASE ~q.awaited
  BY <1>1, FreeIsSound DEF Ended
<1>2. CASE q.awaited
  <2>1. Ended(q, phase) = [q EXCEPT !.phase = phase]
    BY <1>2 DEF Ended
  <2>2. q.from = NoSocket
    BY <1>2 DEF RequestSound
  <2> QED BY <2>1, <2>2 DEF Request, RequestSound
<1> QED BY <1>1, <1>2

LEMMA ContinueIsSound ==
  ASSUME NEW q \in Request, NEW R, NEW n,
         RequestSound(q, R, n), q.phase = "emitting"
  PROVE  /\ Continue(q) \in Request
         /\ RequestSound(Continue(q), R, n)
         /\ Continue(q).todo = q.todo
         /\ Continue(q).phase # "allocated"
<1>1. CASE q.todo = {}
  BY <1>1, EndedIsSound DEF Continue, RequestSound
<1>2. CASE q.todo # {}
  BY <1>2 DEF Continue
<1> QED BY <1>1, <1>2

-----------------------------------------------------------------------------
LEMMA InitIInv == StoreInit => IInv
<1> SUFFICES ASSUME StoreInit PROVE IInv
  OBVIOUS
<1>1. \A h \in Handlers : /\ req[h] = Free
                          /\ Free \in Request
                          /\ RequestSound(Free, rows, sessionSeq)
                          /\ Free.todo = {} /\ Free.phase = "free"
  BY FreeIsSound DEF StoreInit
<1>2. StoreTypeOK
  BY <1>1 DEF StoreInit, StoreTypeOK
<1>3. RequestsSound
  BY <1>1 DEF RequestsSound
<1>4. RequestsApart
  BY <1>1 DEF RequestsApart, Apart
<1>5. SeqsAllocated /\ OneRowPerMessage /\ TodoIsNew /\ UpdatesAreNews
  BY DEF StoreInit, SeqsAllocated, OneRowPerMessage, TodoIsNew, UpdatesAreNews
<1> QED BY <1>2, <1>3, <1>4, <1>5 DEF IInv

(* A step that only changes one request, to something as modest.           *)
LEMMA QuietStep ==
  ASSUME IInv, NEW h \in Handlers, NEW q \in Request,
         RequestSound(q, rows, sessionSeq),
         q.todo \subseteq req[h].todo, q.phase # "allocated",
         req' = [req EXCEPT ![h] = q],
         UNCHANGED <<sessionSeq, rows, online, chan>>
  PROVE  IInv'
<1>1. req \in [Handlers -> Request]
  BY DEF IInv, StoreTypeOK
<1>2. /\ req'[h] = q
      /\ \A g \in Handlers \ {h} : req'[g] = req[g]
      /\ req' \in [Handlers -> Request]
  BY <1>1
<1>3. StoreTypeOK'
  BY <1>2 DEF IInv, StoreTypeOK
<1>4. RequestsSound'
  BY <1>2 DEF IInv, RequestsSound
<1>5. RequestsApart'
  BY <1>2 DEF IInv, RequestsApart, Apart
<1>6. SeqsAllocated' /\ OneRowPerMessage' /\ UpdatesAreNews'
  BY DEF IInv, SeqsAllocated, OneRowPerMessage, UpdatesAreNews
<1>7. TodoIsNew'
  BY <1>2 DEF IInv, TodoIsNew
<1> QED BY <1>3, <1>4, <1>5, <1>6, <1>7 DEF IInv

(* The steps of a POST handler before its commit and after a failure, the  *)
(* arrivals, and the clients' dealings with answers.                       *)
LEMMA PostQuietSteps ==
  ASSUME IInv, NEW h \in Handlers,
         \/ \E batch \in Batches : PostArrive(h, batch, TRUE)
         \/ PostFind(h) \/ PostConflict(h) \/ PostFail(h)
  PROVE  IInv'
<1>1. req[h] \in Request /\ RequestSound(req[h], rows, sessionSeq) /\ rows \subseteq Row
  BY DEF IInv, StoreTypeOK, RequestsSound
<1>2. ASSUME NEW batch \in Batches, PostArrive(h, batch, TRUE)  PROVE IInv'
  <2> DEFINE q == [Free EXCEPT !.phase = "post", !.batch = batch, !.awaited = TRUE]
  <2>1. q \in Request /\ RequestSound(q, rows, sessionSeq)
    BY BatchesAssumption DEF Free, Request, RequestSound, IdsOf, Range
  <2>2. q.todo = {} /\ q.phase = "post"
    BY DEF Free
  <2>3. req' = [req EXCEPT ![h] = q] /\ UNCHANGED <<sessionSeq, rows, online, chan>>
    BY <1>2 DEF PostArrive
  <2> HIDE DEF q
  <2> QED BY <2>1, <2>2, <2>3, QuietStep
<1>3. CASE PostFind(h)
  <2> DEFINE F == {r \in rows : r.id \in Range(req[h].batch)}
             q == [req[h] EXCEPT !.phase = "found", !.found = F]
  <2>1. F \subseteq rows /\ IdsOf(F) \subseteq Range(req[h].batch)
    BY DEF IdsOf
  <2>2. req' = [req EXCEPT ![h] = q] /\ UNCHANGED <<sessionSeq, rows, online, chan>>
    BY <1>1, <1>3 DEF PostFind, Request
  <2> HIDE DEF F
  <2>3. q \in Request /\ RequestSound(q, rows, sessionSeq)
    <3>1. req[h].phase = "post"
      BY <1>3 DEF PostFind
    <3> QED BY <1>1, <2>1, <3>1 DEF Request, RequestSound
  <2>4. q.todo = req[h].todo /\ q.phase = "found"
    BY <1>1 DEF Request
  <2> HIDE DEF q
  <2> QED BY <2>2, <2>3, <2>4, QuietStep
<1>4. CASE PostConflict(h) \/ PostFail(h)
  <2> DEFINE p == [req[h] EXCEPT !.todo = {}]
  <2>1. p \in Request /\ RequestSound(p, rows, sessionSeq) /\ p.todo = {}
    BY <1>1 DEF Request, RequestSound
  <2>2. Ended(p, "failed") \in Request /\ RequestSound(Ended(p, "failed"), rows, sessionSeq)
        /\ Ended(p, "failed").todo = {} /\ Ended(p, "failed").phase # "allocated"
    BY <2>1, EndedIsSound
  <2>3. CASE PostFail(h)
    <3>1. req' = [req EXCEPT ![h] = Ended(p, "failed")]
          /\ UNCHANGED <<sessionSeq, rows, online, chan>>
      BY <2>3 DEF PostFail
    <3> QED BY <2>2, <3>1, QuietStep
  <2>4. CASE PostConflict(h)
    <3>1. req[h].todo = {}
      BY <1>1, <2>4 DEF PostConflict, RequestSound
    <3>2. req' = [req EXCEPT ![h] = Ended(req[h], "failed")]
          /\ UNCHANGED <<sessionSeq, rows, online, chan>>
      BY <2>4 DEF PostConflict
    <3>3. Ended(req[h], "failed") \in Request
          /\ RequestSound(Ended(req[h], "failed"), rows, sessionSeq)
          /\ Ended(req[h], "failed").todo = {} /\ Ended(req[h], "failed").phase # "allocated"
      BY <1>1, <3>1, EndedIsSound
    <3> QED BY <3>1, <3>2, <3>3, QuietStep
  <2> QED BY <1>4, <2>3, <2>4
<1> QED BY <1>2, <1>3, <1>4

LEMMA MessageQuietSteps ==
  ASSUME IInv, NEW h \in Handlers,
         \/ \E id \in SocketIds, s \in Sockets : MessageArrive(h, id, s)
         \/ MessageFail(h)
  PROVE  IInv'
<1>1. ASSUME NEW id \in SocketIds, NEW s \in Sockets, MessageArrive(h, id, s)  PROVE IInv'
  <2> DEFINE q == [Free EXCEPT !.phase = "message", !.batch = <<id>>, !.from = s]
  <2>1. q \in Request /\ RequestSound(q, rows, sessionSeq)
    <3>1. <<id>> \in Seq(Ids) /\ Len(<<id>>) = 1 /\ id \in Ids
      BY SocketIdsAssumption
    <3>2. s # NoSocket
      BY NoSocketAssumption
    <3>3. IdsOf({}) = {}
      BY DEF IdsOf
    <3>4. q \in Request
      BY <3>1 DEF Free, Request
    <3> QED BY <3>1, <3>2, <3>3, <3>4 DEF Free, RequestSound
  <2>2. q.todo = {} /\ q.phase = "message"
    BY DEF Free
  <2>3. req' = [req EXCEPT ![h] = q] /\ UNCHANGED <<sessionSeq, rows, online, chan>>
    BY <1>1 DEF MessageArrive
  <2> HIDE DEF q
  <2> QED BY <2>1, <2>2, <2>3, QuietStep
<1>2. CASE MessageFail(h)
  BY <1>2, FreeIsSound, QuietStep DEF MessageFail
<1> QED BY <1>1, <1>2

LEMMA AnswerSteps ==
  ASSUME IInv, NEW h \in Handlers, TakeAnswer(h) \/ Abandon(h)
  PROVE  IInv'
<1>1. req[h] \in Request /\ RequestSound(req[h], rows, sessionSeq)
  BY DEF IInv, StoreTypeOK, RequestsSound
<1>2. CASE Answered(h) \/ TakeAnswer(h)
  <2>1. req' = [req EXCEPT ![h] = Free] /\ UNCHANGED <<sessionSeq, rows, online, chan>>
    BY <1>2 DEF TakeAnswer, Abandon
  <2> QED BY <2>1, FreeIsSound, QuietStep
<1>3. CASE Abandon(h) /\ ~Answered(h)
  <2> DEFINE q == [req[h] EXCEPT !.awaited = FALSE]
  <2>1. q \in Request /\ RequestSound(q, rows, sessionSeq) /\ q.todo = req[h].todo
    BY <1>1 DEF Request, RequestSound
  <2>2. CASE req[h].phase # "allocated"
    <3>1. req' = [req EXCEPT ![h] = q] /\ UNCHANGED <<sessionSeq, rows, online, chan>>
      BY <1>3 DEF Abandon
    <3>2. q.phase # "allocated"
      BY <1>1, <2>2 DEF Request
    <3> HIDE DEF q
    <3> QED BY <2>1, <3>1, <3>2, QuietStep
  <2>3. CASE req[h].phase = "allocated"
    BY <1>1, <1>3, <2>3 DEF Abandon, RequestSound
  <2> QED BY <2>2, <2>3
<1> QED BY <1>2, <1>3

(* New rows become visible: the invariant holds again when they repeat     *)
(* neither an id nor a seq, stay below the counter, and are announced by   *)
(* the request that created them.                                          *)
LEMMA RowsStep ==
  ASSUME IInv, NEW h \in Handlers, NEW q \in Request, NEW new \in SUBSET Row,
         rows' = rows \union new,
         sessionSeq' \in Nat, sessionSeq <= sessionSeq',
         req' = [req EXCEPT ![h] = q],
         UNCHANGED <<online, chan>>,
         RequestSound(q, rows', sessionSeq'), q.todo = new, q.phase # "allocated",
         \A r, p \in new : (r.id = p.id \/ r.seq = p.seq) => r = p,
         \A r \in new : /\ r.seq <= sessionSeq'
                        /\ \A p \in rows : p.id # r.id /\ p.seq # r.seq
                        /\ \A g \in Handlers \ {h} :
                               req[g].phase = "allocated" => req[g].seq # r.seq
  PROVE  IInv'
<1>1. /\ req \in [Handlers -> Request] /\ rows \subseteq Row /\ sessionSeq \in Nat
      /\ chan \in [Sockets -> Seq(Row)]
  BY DEF IInv, StoreTypeOK
<1>2. /\ req'[h] = q
      /\ \A g \in Handlers \ {h} : req'[g] = req[g]
      /\ req' \in [Handlers -> Request]
  BY <1>1
<1>3. new \intersect rows = {}
  OBVIOUS
<1>4. \A g \in Handlers : req[g].todo \subseteq rows
  BY DEF IInv, RequestsSound, RequestSound
<1>5. StoreTypeOK'
  BY <1>1, <1>2 DEF IInv, StoreTypeOK
<1>6. RequestsSound'
  <2>1. ASSUME NEW g \in Handlers \ {h}
        PROVE  RequestSound(req[g], rows', sessionSeq')
    <3>1. RequestSound(req[g], rows, sessionSeq) /\ req[g] \in Request
      BY <1>1 DEF IInv, RequestsSound
    <3> QED BY <1>1, <3>1, StaysSound
  <2> QED BY <1>2, <2>1 DEF RequestsSound
<1>7. RequestsApart'
  <2>1. \A g \in Handlers \ {h} : Apart(q, req[g]) /\ Apart(req[g], q)
    BY <1>3, <1>4 DEF Apart
  <2> QED BY <1>2, <2>1 DEF IInv, RequestsApart
<1>8. SeqsAllocated'
  BY <1>1 DEF IInv, SeqsAllocated, Row
<1>9. OneRowPerMessage'
  BY DEF IInv, OneRowPerMessage
<1>10. UpdatesAreNews'
  BY DEF IInv, UpdatesAreNews
<1>11. TodoIsNew'
  BY <1>2, <1>3 DEF IInv, TodoIsNew, UpdatesAreNews
<1> QED BY <1>5, <1>6, <1>7, <1>8, <1>9, <1>10, <1>11 DEF IInv

LEMMA PostCommitStep ==
  ASSUME IInv, NEW h \in Handlers, PostCommit(h)
  PROVE  IInv'
<1>1. /\ req[h] \in Request /\ RequestSound(req[h], rows, sessionSeq)
      /\ rows \subseteq Row /\ sessionSeq \in Nat
  BY DEF IInv, StoreTypeOK, RequestsSound
<1>2. PICK f \in Numberings(h) :
          /\ rows' = rows \union Numbered(f)
          /\ req' = [req EXCEPT ![h] =
                Continue([@ EXCEPT !.phase = "emitting", !.todo = Numbered(f),
                                   !.reply = req[h].found \union Numbered(f)])]
  BY DEF PostCommit
<1>3. /\ Cardinality(NewIds(h)) \in Nat
      /\ Numbered(f) \subseteq Row
      /\ IdsOf(Numbered(f)) = NewIds(h)
      /\ \A r \in Numbered(f) : /\ r.id \in NewIds(h)
                                /\ sessionSeq < r.seq
                                /\ r.seq <= sessionSeq + Cardinality(NewIds(h))
      /\ \A r, q \in Numbered(f) : (r.id = q.id \/ r.seq = q.seq) => r = q
  <2>1. req[h].batch \in Seq(Ids)
    BY <1>1 DEF Request
  <2> QED BY <1>1, <2>1, NumberedFacts
<1> DEFINE new == Numbered(f)
           e == [req[h] EXCEPT !.phase = "emitting", !.todo = new,
                               !.reply = req[h].found \union new]
<1>4. /\ req' = [req EXCEPT ![h] = Continue(e)]
      /\ rows' = rows \union new
      /\ sessionSeq' = sessionSeq + Cardinality(NewIds(h))
      /\ req[h].phase = "found"
      /\ NewIds(h) \intersect IdsOf(rows) = {}
      /\ UNCHANGED <<online, chan>>
  BY <1>2 DEF PostCommit, IInv, StoreTypeOK
<1> HIDE DEF new
<1>5. IdsOf(req[h].found \union new) = Range(req[h].batch)
  <2>1. IdsOf(new) = Range(req[h].batch) \ IdsOf(req[h].found)
    BY <1>3 DEF new, NewIds
  <2>2. IdsOf(req[h].found) \subseteq Range(req[h].batch)
    BY <1>1 DEF RequestSound
  <2>3. IdsOf(req[h].found \union new) = IdsOf(req[h].found) \union IdsOf(new)
    BY IdsOfUnion
  <2> QED BY <2>1, <2>2, <2>3
<1>6. e \in Request /\ RequestSound(e, rows', sessionSeq')
  BY <1>1, <1>3, <1>4, <1>5 DEF Request, RequestSound, new
<1>7. e.todo = new /\ e.phase = "emitting"
  BY <1>1 DEF Request
<1> HIDE DEF e
<1>8. /\ Continue(e) \in Request /\ RequestSound(Continue(e), rows', sessionSeq')
      /\ Continue(e).todo = new /\ Continue(e).phase # "allocated"
  BY <1>6, <1>7, ContinueIsSound
<1>9. ASSUME NEW r \in new
      PROVE  /\ r.seq <= sessionSeq'
             /\ \A p \in rows : p.id # r.id /\ p.seq # r.seq
             /\ \A g \in Handlers \ {h} :
                    req[g].phase = "allocated" => req[g].seq # r.seq
  <2>1. r \in Row /\ r.seq \in Nat /\ sessionSeq < r.seq /\ r.id \in NewIds(h)
    BY <1>3 DEF new, Row
  <2>2. \A p \in rows : p.id # r.id
    BY <1>4, <2>1 DEF IdsOf
  <2>3. \A p \in rows : p.seq # r.seq
    BY <1>1, <2>1 DEF IInv, SeqsAllocated, Row
  <2>4. \A g \in Handlers : req[g].phase = "allocated" => req[g].seq # r.seq
    BY <1>1, <2>1 DEF IInv, StoreTypeOK, RequestsSound, RequestSound, Request
  <2>5. r.seq <= sessionSeq'
    BY <1>3, <1>4 DEF new
  <2> QED BY <2>2, <2>3, <2>4, <2>5
<1>10. sessionSeq' \in Nat /\ sessionSeq <= sessionSeq'
  BY <1>1, <1>3, <1>4
<1>11. /\ new \in SUBSET Row
       /\ \A r, q \in new : (r.id = q.id \/ r.seq = q.seq) => r = q
  BY <1>3 DEF new
<1> QED BY <1>4, <1>8, <1>9, <1>10, <1>11, RowsStep

LEMMA MessageAllocateStep ==
  ASSUME IInv, NEW h \in Handlers, MessageAllocate(h)
  PROVE  IInv'
<1> DEFINE q == [req[h] EXCEPT !.phase = "allocated", !.seq = sessionSeq + 1]
<1>1. /\ req \in [Handlers -> Request] /\ rows \subseteq Row /\ sessionSeq \in Nat
      /\ \A g \in Handlers : RequestSound(req[g], rows, sessionSeq)
  BY DEF IInv, StoreTypeOK, RequestsSound
<1>2. /\ req[h].phase = "message" /\ req' = [req EXCEPT ![h] = q]
      /\ sessionSeq' = sessionSeq + 1 /\ UNCHANGED <<rows, online, chan>>
  BY <1>1 DEF MessageAllocate, Request
<1>3. \A r \in rows : r.seq # sessionSeq + 1
  BY <1>1 DEF IInv, SeqsAllocated, Row
<1>4. q \in Request /\ RequestSound(q, rows, sessionSeq')
  <2>1. req[h] \in Request /\ RequestSound(req[h], rows, sessionSeq)
    BY <1>1
  <2>2. q \in Request /\ sessionSeq' \in Nat
    <3>1. sessionSeq + 1 \in Nat /\ sessionSeq' \in Nat
      BY <1>1, <1>2
    <3> QED BY <2>1, <3>1 DEF Request
  <2>3. q.phase = "allocated" /\ q.seq = sessionSeq' /\ \A r \in rows : r.seq # q.seq
    BY <1>2, <1>3, <2>1 DEF Request
  <2> QED BY <1>2, <2>1, <2>2, <2>3 DEF Request, RequestSound
<1>5. q.todo = req[h].todo /\ q.phase = "allocated" /\ q.seq = sessionSeq + 1
  BY <1>1 DEF Request
<1> HIDE DEF q
<1>6. /\ req'[h] = q /\ \A g \in Handlers \ {h} : req'[g] = req[g]
      /\ req' \in [Handlers -> Request]
  BY <1>1, <1>2, <1>4
<1>7. StoreTypeOK'
  BY <1>1, <1>2, <1>6 DEF IInv, StoreTypeOK
<1>8. RequestsSound'
  <2>1. \A g \in Handlers \ {h} : RequestSound(req[g], rows, sessionSeq')
    BY <1>1, <1>2, StaysSound
  <2> QED BY <1>2, <1>4, <1>6, <2>1 DEF RequestsSound
<1>9. RequestsApart'
  <2>1. \A g \in Handlers : req[g].phase = "allocated" => req[g].seq # sessionSeq + 1
    BY <1>1 DEF RequestSound, Request
  <2>2. \A g \in Handlers \ {h} : Apart(req[h], req[g]) /\ Apart(req[g], req[h])
    BY DEF IInv, RequestsApart
  <2>3. \A g \in Handlers \ {h} : Apart(q, req[g]) /\ Apart(req[g], q)
    BY <1>5, <2>1, <2>2 DEF Apart
  <2> QED BY <1>6, <2>3 DEF IInv, RequestsApart
<1>10. SeqsAllocated'
  BY <1>1, <1>2 DEF IInv, SeqsAllocated, Row
<1>11. OneRowPerMessage' /\ UpdatesAreNews'
  BY <1>2 DEF IInv, OneRowPerMessage, UpdatesAreNews
<1>12. TodoIsNew'
  BY <1>2, <1>5, <1>6 DEF IInv, TodoIsNew
<1> QED BY <1>7, <1>8, <1>9, <1>10, <1>11, <1>12 DEF IInv

LEMMA MessageCreateStep ==
  ASSUME IInv, NEW h \in Handlers, MessageCreate(h)
  PROVE  IInv'
<1> DEFINE r == [seq |-> req[h].seq, id |-> req[h].batch[1]]
<1>1. /\ req \in [Handlers -> Request] /\ rows \subseteq Row /\ sessionSeq \in Nat
      /\ RequestSound(req[h], rows, sessionSeq) /\ req[h].phase = "allocated"
  BY DEF IInv, StoreTypeOK, RequestsSound, MessageCreate
<1>2. CASE r.id \in IdsOf(rows)
  <2>1. req' = [req EXCEPT ![h] = Free] /\ UNCHANGED <<sessionSeq, rows, online, chan>>
    BY <1>2 DEF MessageCreate
  <2> QED BY <2>1, FreeIsSound, QuietStep
<1>3. CASE r.id \notin IdsOf(rows)
  <2> DEFINE q == [req[h] EXCEPT !.phase = "emitting", !.todo = {r}]
  <2>1. /\ req' = [req EXCEPT ![h] = q] /\ rows' = rows \union {r}
        /\ UNCHANGED <<sessionSeq, online, chan>>
    BY <1>1, <1>3 DEF MessageCreate, Request
  <2>2. r \in Row /\ r.seq = req[h].seq
    BY <1>1 DEF Row, Request, RequestSound
  <2>3. \A p \in rows : p.id # r.id /\ p.seq # r.seq
    BY <1>1, <1>3, <2>2 DEF IdsOf, RequestSound
  <2>4. \A g \in Handlers \ {h} : req[g].phase = "allocated" => req[g].seq # r.seq
    BY <1>1, <2>2 DEF IInv, RequestsApart, Apart
  <2>5. r.seq <= sessionSeq
    BY <1>1, <2>2 DEF RequestSound
  <2> HIDE DEF r
  <2>6. q \in Request /\ RequestSound(q, rows', sessionSeq')
    <3>1. q \in Request
      BY <1>1, <2>2 DEF Request
    <3>2. rows \subseteq rows' /\ {r} \subseteq rows'
      BY <2>1
    <3> QED BY <1>1, <3>1, <3>2 DEF Request, RequestSound
  <2>7. q.todo = {r} /\ q.phase = "emitting"
    BY <1>1 DEF Request
  <2> HIDE DEF q
  <2>8. sessionSeq' \in Nat /\ sessionSeq <= sessionSeq'
    BY <1>1, <2>1
  <2> DEFINE new == {r}
  <2>9. new \in SUBSET Row /\ rows' = rows \union new /\ q.todo = new
    BY <2>1, <2>2, <2>7
  <2>10. /\ \A x, p \in new : (x.id = p.id \/ x.seq = p.seq) => x = p
         /\ \A x \in new : /\ x.seq <= sessionSeq'
                           /\ \A p \in rows : p.id # x.id /\ p.seq # x.seq
                           /\ \A g \in Handlers \ {h} :
                                  req[g].phase = "allocated" => req[g].seq # x.seq
    BY <2>1, <2>3, <2>4, <2>5
  <2> HIDE DEF new
  <2>11. req' = [req EXCEPT ![h] = q] /\ UNCHANGED <<online, chan>> /\ q.phase # "allocated"
    BY <2>1, <2>7
  <2> QED BY <2>6, <2>8, <2>9, <2>10, <2>11, RowsStep, ZenonT(40)
<1> QED BY <1>2, <1>3

(* The fan-out: a row leaves its request and enters channels that neither  *)
(* have it nor are promised it by another request.                         *)
LEMMA EmitStep ==
  ASSUME IInv, NEW h \in Handlers, Emit(h)
  PROVE  IInv'
<1>1. /\ req \in [Handlers -> Request] /\ rows \subseteq Row /\ sessionSeq \in Nat
      /\ chan \in [Sockets -> Seq(Row)]
      /\ RequestSound(req[h], rows, sessionSeq) /\ req[h].phase = "emitting"
  BY DEF IInv, StoreTypeOK, RequestsSound, Emit
<1>2. PICK r \in req[h].todo :
        /\ chan' = [s \in Sockets |-> IF s \in online /\ s # req[h].from
                                      THEN Append(chan[s], r) ELSE chan[s]]
        /\ req' = [req EXCEPT ![h] = Continue([@ EXCEPT !.todo = req[h].todo \ {r}])]
  BY DEF Emit, Sent
<1> DEFINE e == [req[h] EXCEPT !.todo = req[h].todo \ {r}]
           q == Continue(e)
<1>3. e \in Request /\ RequestSound(e, rows, sessionSeq) /\ e.phase = "emitting"
      /\ e.todo = req[h].todo \ {r}
  BY <1>1 DEF Request, RequestSound
<1>4. req' = [req EXCEPT ![h] = q]
  BY <1>2
<1> HIDE DEF e
<1>5. /\ q \in Request /\ RequestSound(q, rows, sessionSeq)
      /\ q.todo = req[h].todo \ {r} /\ q.phase # "allocated"
  BY <1>3, ContinueIsSound
<1> HIDE DEF q
<1>6. /\ req'[h] = q /\ \A g \in Handlers \ {h} : req'[g] = req[g]
      /\ req' \in [Handlers -> Request]
  BY <1>1, <1>4, <1>5
<1>7. r \in rows /\ r \in Row
  BY <1>1 DEF RequestSound
<1>8. UNCHANGED <<sessionSeq, rows, online>>
  BY DEF Emit
<1>9. chan' \in [Sockets -> Seq(Row)]
  BY <1>1, <1>2, <1>7
<1>10. StoreTypeOK'
  BY <1>6, <1>8, <1>9 DEF IInv, StoreTypeOK
<1>11. RequestsSound'
  BY <1>5, <1>6, <1>8 DEF IInv, RequestsSound
<1>12. RequestsApart'
  BY <1>5, <1>6 DEF IInv, RequestsApart, Apart
<1>13. SeqsAllocated' /\ OneRowPerMessage'
  BY <1>8 DEF IInv, SeqsAllocated, OneRowPerMessage
<1>14. ASSUME NEW s \in Sockets
       PROVE  /\ chan[s] \in Seq(Row)
              /\ chan'[s] = chan[s] \/ chan'[s] = Append(chan[s], r)
              /\ \A i \in DOMAIN chan[s] : chan[s][i] # r
              /\ \A g \in Handlers \ {h} : r \notin req[g].todo
  <2>1. chan[s] \in Seq(Row) /\ (chan'[s] = chan[s] \/ chan'[s] = Append(chan[s], r))
    BY <1>1, <1>2
  <2>2. \A i \in DOMAIN chan[s] : chan[s][i] # r
    BY DEF IInv, TodoIsNew
  <2>3. \A g \in Handlers \ {h} : r \notin req[g].todo
    BY DEF IInv, RequestsApart, Apart
  <2> QED BY <2>1, <2>2, <2>3
<1>15. UpdatesAreNews'
  <2> SUFFICES ASSUME NEW s \in Sockets, NEW i \in DOMAIN chan'[s], NEW j \in DOMAIN chan'[s]
               PROVE  chan'[s][i] \in rows' /\ (i # j => chan'[s][i] # chan'[s][j])
    BY DEF UpdatesAreNews
  <2>1. \A k, l \in DOMAIN chan[s] :
           chan[s][k] \in rows /\ (k # l => chan[s][k] # chan[s][l])
    BY DEF IInv, UpdatesAreNews
  <2>2. CASE chan'[s] = chan[s]
    BY <1>8, <2>1, <2>2
  <2>3. CASE chan'[s] = Append(chan[s], r)
    BY <1>7, <1>8, <1>14, <2>1, <2>3
  <2> QED BY <1>14, <2>2, <2>3
<1>16. TodoIsNew'
  <2> SUFFICES ASSUME NEW g \in Handlers, NEW s \in Sockets, NEW i \in DOMAIN chan'[s]
               PROVE  chan'[s][i] \notin req'[g].todo
    BY DEF TodoIsNew
  <2>1. \A k \in DOMAIN chan[s] : chan[s][k] \notin req[g].todo
    BY DEF IInv, TodoIsNew
  <2>2. req'[g].todo \subseteq req[g].todo /\ r \notin req'[g].todo
    BY <1>5, <1>6, <1>14
  <2>3. CASE chan'[s] = chan[s]
    BY <2>1, <2>2, <2>3
  <2>4. CASE chan'[s] = Append(chan[s], r)
    BY <1>14, <2>1, <2>2, <2>4
  <2> QED BY <1>14, <2>3, <2>4
<1> QED BY <1>10, <1>11, <1>12, <1>13, <1>15, <1>16 DEF IInv

(* Sockets come, go and hear: the channels only lose elements.             *)
LEMMA SocketSteps ==
  ASSUME IInv, NEW s \in Sockets, Connect(s) \/ Disconnect(s) \/ Deliver(s)
  PROVE  IInv'
<1>1. UNCHANGED <<sessionSeq, rows, req>>
  BY DEF Connect, Disconnect, Deliver
<1>2. chan \in [Sockets -> Seq(Row)] /\ online \subseteq Sockets
  BY DEF IInv, StoreTypeOK
<1>3. online' \subseteq Sockets
  BY <1>2 DEF Connect, Disconnect, Deliver
<1>4. ASSUME NEW t \in Sockets
      PROVE  /\ chan[t] \in Seq(Row) /\ chan'[t] \in Seq(Row)
             /\ \/ chan'[t] = chan[t]
                \/ chan'[t] = <<>>
                \/ chan[t] # <<>> /\ chan'[t] = Tail(chan[t])
  <2>1. CASE Connect(s)
    BY <1>2, <2>1 DEF Connect
  <2>2. CASE Disconnect(s)
    BY <1>2, <2>2 DEF Disconnect
  <2>3. CASE Deliver(s)
    BY <1>2, <2>3 DEF Deliver
  <2> QED BY <2>1, <2>2, <2>3
<1>5. chan' \in [Sockets -> Seq(Row)]
  <2>1. chan' = [t \in Sockets |-> chan'[t]]
    BY <1>2 DEF Connect, Disconnect, Deliver
  <2> QED BY <1>4, <2>1
<1>6. ASSUME NEW t \in Sockets, NEW i \in DOMAIN chan'[t]
      PROVE  \/ i \in DOMAIN chan[t] /\ chan'[t][i] = chan[t][i] /\ chan'[t] = chan[t]
             \/ /\ i + 1 \in DOMAIN chan[t] /\ chan'[t][i] = chan[t][i + 1]
                /\ i \in Nat /\ chan'[t] = Tail(chan[t])
  <2>1. CASE chan'[t] = chan[t]
    BY <2>1
  <2>2. CASE chan'[t] = <<>>
    BY <2>2
  <2>3. CASE chan[t] # <<>> /\ chan'[t] = Tail(chan[t])
    <3>1. chan[t] \in Seq(Row)
      BY <1>4
    <3> QED BY <2>3, <3>1
  <2> QED BY <1>4, <2>1, <2>2, <2>3
<1>7. StoreTypeOK'
  BY <1>1, <1>3, <1>5 DEF IInv, StoreTypeOK
<1>8. RequestsSound' /\ RequestsApart' /\ SeqsAllocated' /\ OneRowPerMessage'
  BY <1>1 DEF IInv, RequestsSound, RequestsApart, SeqsAllocated, OneRowPerMessage
<1>9. TodoIsNew'
  BY <1>1, <1>6 DEF IInv, TodoIsNew
<1>10. UpdatesAreNews'
  <2> SUFFICES ASSUME NEW t \in Sockets, NEW i \in DOMAIN chan'[t], NEW j \in DOMAIN chan'[t]
               PROVE  chan'[t][i] \in rows' /\ (i # j => chan'[t][i] # chan'[t][j])
    BY DEF UpdatesAreNews
  <2>1. \A k, l \in DOMAIN chan[t] :
           chan[t][k] \in rows /\ (k # l => chan[t][k] # chan[t][l])
    BY DEF IInv, UpdatesAreNews
  <2>2. CASE chan'[t] = chan[t]
    BY <1>1, <2>1, <2>2
  <2>3. CASE chan'[t] # chan[t]
    <3>1. /\ i + 1 \in DOMAIN chan[t] /\ chan'[t][i] = chan[t][i + 1] /\ i \in Nat
          /\ j + 1 \in DOMAIN chan[t] /\ chan'[t][j] = chan[t][j + 1] /\ j \in Nat
      BY <1>6, <2>3
    <3>2. i # j => i + 1 # j + 1
      BY <3>1
    <3> QED BY <1>1, <2>1, <3>1, <3>2
  <2> QED BY <2>2, <2>3
<1> QED BY <1>7, <1>8, <1>9, <1>10 DEF IInv

(* The process dies: the rows and the counter are the database's.          *)
LEMMA CrashStep ==
  ASSUME IInv, Crash
  PROVE  IInv'
<1>1. req \in [Handlers -> Request] /\ rows \subseteq Row /\ UNCHANGED <<sessionSeq, rows>>
  BY DEF IInv, StoreTypeOK, Crash
<1>2. ASSUME NEW h \in Handlers
      PROVE  /\ req'[h] \in Request
             /\ RequestSound(req'[h], rows, sessionSeq)
             /\ req'[h].todo = {} /\ req'[h].phase # "allocated"
  <2> DEFINE p == [req[h] EXCEPT !.todo = {}]
  <2>1. RequestSound(req[h], rows, sessionSeq) /\ req[h] \in Request
    BY <1>1 DEF IInv, RequestsSound
  <2>2. p \in Request /\ RequestSound(p, rows, sessionSeq) /\ p.todo = {}
    BY <2>1 DEF Request, RequestSound
  <2>3. req'[h] = Ended(p, "failed")
    BY DEF Crash
  <2> QED BY <2>2, <2>3, EndedIsSound
<1>3. StoreTypeOK'
  BY <1>1, <1>2 DEF IInv, StoreTypeOK, Crash
<1>4. RequestsSound' /\ RequestsApart'
  BY <1>1, <1>2 DEF RequestsSound, RequestsApart, Apart
<1>5. SeqsAllocated' /\ OneRowPerMessage'
  BY <1>1 DEF IInv, SeqsAllocated, OneRowPerMessage
<1>6. TodoIsNew' /\ UpdatesAreNews'
  BY DEF Crash, TodoIsNew, UpdatesAreNews
<1> QED BY <1>3, <1>4, <1>5, <1>6 DEF IInv

LEMMA StutterStep == IInv /\ UNCHANGED storeVars => IInv'
<1> SUFFICES ASSUME IInv, UNCHANGED storeVars PROVE IInv'
  OBVIOUS
<1>1. StoreTypeOK' /\ SeqsAllocated' /\ OneRowPerMessage'
  BY DEF IInv, storeVars, StoreTypeOK, SeqsAllocated, OneRowPerMessage
<1>2. RequestsSound' /\ RequestsApart'
  BY DEF IInv, storeVars, RequestsSound, RequestsApart
<1>3. TodoIsNew' /\ UpdatesAreNews'
  BY DEF IInv, storeVars, TodoIsNew, UpdatesAreNews
<1> QED BY <1>1, <1>2, <1>3 DEF IInv

(* Every step of the store preserves the invariant.                        *)
THEOREM Inductive == IInv /\ [StoreNext]_storeVars => IInv'
<1> SUFFICES ASSUME IInv, [StoreNext]_storeVars PROVE IInv'
  OBVIOUS
<1>1. ASSUME NEW h \in Handlers, ServerStep(h)  PROVE IInv'
  BY <1>1, PostQuietSteps, PostCommitStep, EmitStep, MessageAllocateStep,
     MessageCreateStep, MessageQuietSteps DEF ServerStep
<1>2. CASE ClientStep
  BY <1>2, PostQuietSteps, MessageQuietSteps, AnswerSteps, SocketSteps DEF ClientStep
<1>3. CASE Crash
  BY <1>3, CrashStep
<1>4. CASE UNCHANGED storeVars
  BY <1>4, StutterStep
<1> QED BY <1>1, <1>2, <1>3, <1>4 DEF StoreNext

(* Requests, rows, the counter and the channels fit together whenever the  *)
(* handlers of POST and of the socket event interleave, fail or crash.     *)
THEOREM StoreInvariant == StoreSpec => []IInv
  BY InitIInv, Inductive, PTL DEF StoreSpec

(* Every variable keeps its type.                                          *)
THEOREM StoreTypeCorrect == StoreSpec => []StoreTypeOK
<1>1. IInv => StoreTypeOK
  BY DEF IInv
<1> QED BY <1>1, StoreInvariant, PTL

(* Retries, races of equal requests and the two write paths never store a  *)
(* message twice, nor use a seq twice.                                     *)
THEOREM MessagesAreUnique == StoreSpec => []OneRowPerMessage
<1>1. IInv => OneRowPerMessage
  BY DEF IInv
<1> QED BY <1>1, StoreInvariant, PTL

(* A 200 answer names a committed row for each message of its request, and *)
(* no other row.                                                           *)
THEOREM RepliesAreTrue == StoreSpec => []ReplyIsTrue
<1>1. IInv => ReplyIsTrue
  BY DEF IInv, RequestsSound, RequestSound, ReplyIsTrue
<1> QED BY <1>1, StoreInvariant, PTL

(* No socket hears of a message that is not committed, or twice at a time. *)
THEOREM UpdatesAreTrue == StoreSpec => []UpdatesAreNews
<1>1. IInv => UpdatesAreNews
  BY DEF IInv
<1> QED BY <1>1, StoreInvariant, PTL

-----------------------------------------------------------------------------
(* The store implements the abstract log.                                  *)

LEMMA RowsStay == StoreNext => rows \subseteq rows'
<1> SUFFICES ASSUME StoreNext PROVE rows \subseteq rows'
  OBVIOUS
<1>1. ASSUME NEW h \in Handlers, ServerStep(h)  PROVE rows \subseteq rows'
  BY <1>1 DEF ServerStep, PostFind, PostCommit, PostConflict, PostFail, Emit,
              MessageAllocate, MessageCreate, MessageFail
<1>2. CASE ClientStep
  BY <1>2 DEF ClientStep, PostArrive, MessageArrive, TakeAnswer, Abandon,
              Connect, Disconnect, Deliver
<1>3. CASE Crash
  BY <1>3 DEF Crash
<1> QED BY <1>1, <1>2, <1>3 DEF StoreNext

LEMMA StepAppends ==
  ASSUME IInv, IInv', [StoreNext]_storeVars
  PROVE  [Log!Append]_rows
<1>1. CASE rows' = rows
  BY <1>1
<1>2. CASE rows' # rows
  <2>1. rows \subseteq rows'
    BY <1>2, RowsStay DEF storeVars
  <2>2. \A r, q \in rows' : (r.id = q.id \/ r.seq = q.seq) => r = q
    BY DEF IInv, OneRowPerMessage
  <2> QED BY <1>2, <2>1, <2>2 DEF Log!Append
<1> QED BY <1>1, <1>2

(* The server's message store implements the append-only log in which every*)
(* message has one entry, whatever requests, races and crashes it meets.   *)
THEOREM StoreImplementsLog == StoreSpec => ImplementsLog
<1>1. StoreInit => Log!Init
  BY DEF StoreInit, Log!Init
<1>2. IInv /\ IInv' /\ [StoreNext]_storeVars => [Log!Append]_rows
  BY StepAppends
<1> QED BY <1>1, <1>2, StoreInvariant, PTL DEF StoreSpec, ImplementsLog, Log!Spec

(* No request of the socket handler is under way.                          *)
OnlyPosts == \A h \in Handlers : req[h].phase \notin {"message", "allocated"}

LEMMA OnlyPostsStep ==
  ASSUME SocketIds = {}, IInv, OnlyPosts, [StoreNext]_storeVars
  PROVE  OnlyPosts'
<1>1. req \in [Handlers -> Request]
  BY DEF IInv, StoreTypeOK
<1>2. Free.phase = "free" /\ Free \in Request
  BY FreeIsSound
<1>3. \A q \in Request, phase \in {"replied", "failed"} :
         Ended(q, phase).phase \in {"free", phase}
  BY <1>2 DEF Ended, Request
<1>4. \A q \in Request : Continue(q).phase \in {q.phase, "free", "replied"}
  BY <1>3 DEF Continue
<1>5. ASSUME NEW h \in Handlers, NEW q,
             req' = [req EXCEPT ![h] = q], q.phase \notin {"message", "allocated"}
      PROVE  OnlyPosts'
  BY <1>1, <1>5 DEF OnlyPosts
<1>6. ASSUME NEW h \in Handlers, ServerStep(h)  PROVE OnlyPosts'
  <2>1. req[h] \in Request /\ req[h].phase \notin {"message", "allocated"}
    BY <1>1 DEF OnlyPosts
  <2>2. CASE PostFind(h)
    <3>1. req'[h].phase = "found" /\ \A g \in Handlers \ {h} : req'[g] = req[g]
      BY <1>1, <2>1, <2>2 DEF PostFind, Request
    <3> QED BY <3>1 DEF OnlyPosts
  <2>3. CASE PostCommit(h)
    <3>1. PICK f \in Numberings(h) : req' = [req EXCEPT ![h] =
              Continue([@ EXCEPT !.phase = "emitting", !.todo = Numbered(f),
                                 !.reply = req[h].found \union Numbered(f)])]
      BY <2>3 DEF PostCommit
    <3> DEFINE e == [req[h] EXCEPT !.phase = "emitting", !.todo = Numbered(f),
                                   !.reply = req[h].found \union Numbered(f)]
    <3>2. Numbered(f) \subseteq Row
      BY <2>1, NumberedFacts DEF Request, IInv, StoreTypeOK
    <3>3. e \in Request /\ e.phase = "emitting"
      BY <2>1, <3>2 DEF Request
    <3>4. req' = [req EXCEPT ![h] = Continue(e)]
      BY <3>1
    <3> HIDE DEF e
    <3> QED BY <1>4, <1>5, <3>3, <3>4
  <2>4. CASE PostConflict(h)
    BY <1>3, <1>5, <2>1, <2>4 DEF PostConflict
  <2>5. CASE PostFail(h)
    <3> DEFINE p == [req[h] EXCEPT !.todo = {}]
    <3>1. p \in Request
      BY <2>1 DEF Request
    <3>2. req' = [req EXCEPT ![h] = Ended(p, "failed")]
      BY <2>5 DEF PostFail
    <3> HIDE DEF p
    <3> QED BY <1>3, <1>5, <3>1, <3>2
  <2>6. CASE Emit(h)
    <3>1. PICK r \in req[h].todo :
              req' = [req EXCEPT ![h] = Continue([@ EXCEPT !.todo = req[h].todo \ {r}])]
      BY <2>6 DEF Emit
    <3> DEFINE e == [req[h] EXCEPT !.todo = req[h].todo \ {r}]
    <3>2. e \in Request /\ e.phase = req[h].phase
      BY <2>1 DEF Request
    <3>3. req' = [req EXCEPT ![h] = Continue(e)]
      BY <3>1
    <3> HIDE DEF e
    <3> QED BY <1>4, <1>5, <2>1, <3>2, <3>3
  <2>7. ~MessageAllocate(h) /\ ~MessageCreate(h) /\ ~MessageFail(h)
    BY <2>1 DEF MessageAllocate, MessageCreate, MessageFail
  <2> QED BY <1>6, <2>2, <2>3, <2>4, <2>5, <2>6, <2>7 DEF ServerStep
<1>7. CASE ClientStep
  <2>1. ASSUME NEW h \in Handlers, NEW batch \in Batches, PostArrive(h, batch, TRUE)
        PROVE  OnlyPosts'
    <3> DEFINE q == [Free EXCEPT !.phase = "post", !.batch = batch, !.awaited = TRUE]
    <3>1. q.phase = "post"
      BY DEF Free
    <3>2. req' = [req EXCEPT ![h] = q]
      BY <2>1 DEF PostArrive
    <3> HIDE DEF q
    <3> QED BY <1>5, <3>1, <3>2
  <2>2. ASSUME NEW h \in Handlers, TakeAnswer(h) \/ Abandon(h)  PROVE OnlyPosts'
    <3>1. CASE req' = [req EXCEPT ![h] = Free]
      BY <1>2, <1>5, <3>1
    <3>2. CASE req' = [req EXCEPT ![h] = [@ EXCEPT !.awaited = FALSE]]
      <4>1. req[h] \in Request /\ req[h].phase \notin {"message", "allocated"}
        BY <1>1 DEF OnlyPosts
      <4>2. req'[h].phase = req[h].phase /\ \A g \in Handlers \ {h} : req'[g] = req[g]
        BY <1>1, <3>2, <4>1 DEF Request
      <4> QED BY <4>1, <4>2 DEF OnlyPosts
    <3> QED BY <2>2, <3>1, <3>2 DEF TakeAnswer, Abandon
  <2>3. ASSUME NEW s \in Sockets, Connect(s) \/ Disconnect(s) \/ Deliver(s)  PROVE OnlyPosts'
    BY <2>3 DEF Connect, Disconnect, Deliver, OnlyPosts
  <2> QED BY <1>7, <2>1, <2>2, <2>3 DEF ClientStep
<1>8. CASE Crash
  <2>1. ASSUME NEW h \in Handlers  PROVE req'[h].phase \notin {"message", "allocated"}
    <3> DEFINE p == [req[h] EXCEPT !.todo = {}]
    <3>1. p \in Request
      BY <1>1 DEF Request
    <3>2. req'[h] = Ended(p, "failed")
      BY <1>8 DEF Crash
    <3> HIDE DEF p
    <3> QED BY <1>3, <3>1, <3>2
  <2> QED BY <2>1 DEF OnlyPosts
<1>9. CASE UNCHANGED storeVars
  BY <1>9 DEF storeVars, OnlyPosts
<1> QED BY <1>6, <1>7, <1>8, <1>9 DEF StoreNext

LEMMA StepAppendsAtEnd ==
  ASSUME IInv, IInv', OnlyPosts, [StoreNext]_storeVars
  PROVE  [Log!AppendAtEnd]_rows
<1>1. CASE rows' = rows
  BY <1>1
<1>2. CASE rows' # rows
  <2>1. PICK h \in Handlers : PostCommit(h)
    <3>1. ASSUME NEW h \in Handlers, ServerStep(h), ~PostCommit(h)  PROVE FALSE
      BY <1>2, <3>1 DEF OnlyPosts, ServerStep, PostFind, PostConflict, PostFail, Emit,
                        MessageAllocate, MessageCreate, MessageFail
    <3>2. ~ClientStep /\ ~Crash /\ ~UNCHANGED storeVars
      BY <1>2 DEF ClientStep, PostArrive, MessageArrive, TakeAnswer, Abandon,
                  Connect, Disconnect, Deliver, Crash, storeVars
    <3> QED BY <3>1, <3>2 DEF StoreNext
  <2>2. PICK f \in Numberings(h) : rows' = rows \union Numbered(f)
    BY <2>1 DEF PostCommit
  <2>3. req[h].batch \in Seq(Ids) /\ sessionSeq \in Nat /\ rows \subseteq Row
    BY DEF IInv, StoreTypeOK, Request
  <2>4. \A e \in Numbered(f) : e \in Row /\ sessionSeq < e.seq
    BY <2>3, NumberedFacts
  <2>5. \A o \in rows : o \in Row /\ o.seq <= sessionSeq
    BY <2>3 DEF IInv, SeqsAllocated
  <2>6. \A e \in rows' \ rows : \A o \in rows : o.seq < e.seq
    BY <2>2, <2>3, <2>4, <2>5 DEF Row
  <2>7. Log!Append
    BY <1>2, StepAppends
  <2> QED BY <2>6, <2>7 DEF Log!AppendAtEnd
<1> QED BY <1>1, <1>2

(* As long as nobody writes through the socket, nothing becomes visible    *)
(* below what is visible already: what a reader with a cursor relies on.   *)
THEOREM PostsImplementOrderedLog ==
  ASSUME SocketIds = {}
  PROVE  StoreSpec => ImplementsOrderedLog
<1>1. StoreInit => Log!Init /\ OnlyPosts
  BY FreeIsSound DEF StoreInit, Log!Init, OnlyPosts
<1>2. IInv /\ OnlyPosts /\ [StoreNext]_storeVars => OnlyPosts'
  BY OnlyPostsStep
<1>3. IInv /\ IInv' /\ OnlyPosts /\ [StoreNext]_storeVars => [Log!AppendAtEnd]_rows
  BY StepAppendsAtEnd
<1> QED BY <1>1, <1>2, <1>3, StoreInvariant, PTL
        DEF StoreSpec, ImplementsOrderedLog, Log!OrderedSpec

=============================================================================
