------------------------- MODULE AgentSession_proof -------------------------
(***************************************************************************)
(* What ApiSessionClient promises over the message store, for any messages,*)
(* batch and page sizes, any number of handlers, and any interleaving,     *)
(* failed request, lost answer and crash.  The sending half: nothing that  *)
(* was enqueued is lost, the batch in flight is cut out where it stands,   *)
(* and a client that never falls a batch behind is stored in its order.    *)
(* The receiving half, in a session nobody writes to through the socket:   *)
(* the cursor passes no message, and messages are new in seq order.        *)
(***************************************************************************)
EXTENDS AgentSession, MessageStore_proof, SequenceTheorems

(* The batch of the POST stands in the outbox where it will be cut out.    *)
PostIsPlaced ==
    post.phase # "none" =>
        /\ post.start + Len(post.batch) <= Len(outbox)
        /\ \A i \in 1 .. Len(post.batch) : post.batch[i] = outbox[post.start + i]

(* The request the client waits for is that of its batch.                  *)
PostIsServed ==
    post.phase = "waiting" =>
        /\ post.h \in Handlers
        /\ req[post.h].awaited /\ req[post.h].batch = post.batch

AwaitedIsBusy == \A h \in Handlers : req[h].awaited => req[h].phase # "free"

BInv == OutboxTypeOK /\ PostIsPlaced /\ PostIsServed /\ AwaitedIsBusy /\ NothingLost

-----------------------------------------------------------------------------
(* What the server's steps do to requests.                                 *)

LEMMA EndedKeeps ==
  ASSUME NEW q \in Request, NEW phase \in {"replied", "failed"}
  PROVE  /\ q.awaited => /\ Ended(q, phase).awaited /\ Ended(q, phase).batch = q.batch
                         /\ Ended(q, phase).phase = phase
         /\ ~q.awaited => ~Ended(q, phase).awaited /\ Ended(q, phase).phase = "free"
<1>1. CASE q.awaited
  <2>1. Ended(q, phase) = [q EXCEPT !.phase = phase]
    BY <1>1 DEF Ended
  <2> QED BY <1>1, <2>1 DEF Request
<1>2. CASE ~q.awaited
  BY <1>2 DEF Ended, Free
<1> QED BY <1>1, <1>2

LEMMA ContinueKeeps ==
  ASSUME NEW q \in Request, q.phase = "emitting"
  PROVE  /\ q.awaited => /\ Continue(q).awaited /\ Continue(q).batch = q.batch
         /\ ~q.awaited => ~Continue(q).awaited
         /\ Continue(q).phase \in {"emitting", "replied", "free"}
         /\ q.awaited => Continue(q).phase # "free"
<1>1. CASE q.todo = {}
  BY <1>1, EndedKeeps DEF Continue
<1>2. CASE q.todo # {}
  BY <1>2 DEF Continue
<1> QED BY <1>1, <1>2

(* A request somebody waits for stays so, with its batch; nobody begins to *)
(* wait; and no handler goes back to a lookup or begins with a message.    *)
Keeps(p, q) ==
    /\ q.awaited => p.awaited
    /\ p.awaited => q.awaited /\ q.batch = p.batch /\ q.phase # "free"
    /\ q.phase \notin {"post", "message"}
    /\ q.phase = "found" => p.phase = "post" /\ q.batch = p.batch
    /\ q.phase = "allocated" => p.phase = "message"

LEMMA ServerKeeps ==
  ASSUME IInv, AwaitedIsBusy, NEW h \in Handlers, ServerStep(h)
  PROVE  /\ \A g \in Handlers \ {h} : req'[g] = req[g]
         /\ Keeps(req[h], req'[h])
<1>1. /\ req \in [Handlers -> Request] /\ req[h] \in Request
      /\ RequestSound(req[h], rows, sessionSeq) /\ rows \subseteq Row
      /\ req[h].awaited => req[h].phase # "free" /\ req[h].from = NoSocket
  BY DEF IInv, StoreTypeOK, RequestsSound, RequestSound, AwaitedIsBusy
<1>2. ASSUME NEW q, req' = [req EXCEPT ![h] = q], Keeps(req[h], q)
      PROVE  /\ \A g \in Handlers \ {h} : req'[g] = req[g]
             /\ Keeps(req[h], req'[h])
  <2>1. req'[h] = q /\ \A g \in Handlers \ {h} : req'[g] = req[g]
    BY <1>1, <1>2
  <2> QED BY <1>2, <2>1
<1>3. CASE PostFind(h)
  <2> DEFINE q == [req[h] EXCEPT !.phase = "found",
                                 !.found = {r \in rows : r.id \in Range(req[h].batch)}]
  <2>1. req' = [req EXCEPT ![h] = q] /\ req[h].phase = "post"
    BY <1>1, <1>3 DEF PostFind, Request
  <2>2. Keeps(req[h], q)
    BY <1>1, <2>1 DEF Request, Keeps
  <2> HIDE DEF q
  <2> QED BY <1>2, <2>1, <2>2
<1>4. CASE PostCommit(h)
  <2>1. PICK f \in Numberings(h) : req' = [req EXCEPT ![h] =
            Continue([@ EXCEPT !.phase = "emitting", !.todo = Numbered(f),
                               !.reply = req[h].found \union Numbered(f)])]
    BY <1>4 DEF PostCommit
  <2> DEFINE e == [req[h] EXCEPT !.phase = "emitting", !.todo = Numbered(f),
                                 !.reply = req[h].found \union Numbered(f)]
             q == Continue(e)
  <2>2. Numbered(f) \subseteq Row
    BY <1>1, NumberedFacts DEF Request, IInv, StoreTypeOK
  <2>3. /\ e \in Request /\ e.phase = "emitting" /\ e.batch = req[h].batch
        /\ e.awaited = req[h].awaited
    BY <1>1, <2>2 DEF Request
  <2>4. req' = [req EXCEPT ![h] = q]
    BY <2>1
  <2> HIDE DEF e
  <2>5. Keeps(req[h], q)
    BY <2>3, ContinueKeeps DEF Keeps
  <2> HIDE DEF q
  <2> QED BY <1>2, <2>4, <2>5
<1>5. CASE PostConflict(h)
  <2> DEFINE q == Ended(req[h], "failed")
  <2>1. req' = [req EXCEPT ![h] = q]
    BY <1>5 DEF PostConflict
  <2>2. Keeps(req[h], q)
    BY <1>1, EndedKeeps DEF Keeps
  <2> HIDE DEF q
  <2> QED BY <1>2, <2>1, <2>2
<1>6. CASE PostFail(h)
  <2> DEFINE e == [req[h] EXCEPT !.todo = {}]
             q == Ended(e, "failed")
  <2>1. req' = [req EXCEPT ![h] = q]
    BY <1>6 DEF PostFail
  <2>2. e \in Request /\ e.batch = req[h].batch /\ e.awaited = req[h].awaited
    BY <1>1 DEF Request
  <2> HIDE DEF e
  <2>3. Keeps(req[h], q)
    BY <2>2, EndedKeeps DEF Keeps
  <2> HIDE DEF q
  <2> QED BY <1>2, <2>1, <2>3
<1>7. CASE Emit(h)
  <2>1. PICK r \in req[h].todo :
            req' = [req EXCEPT ![h] = Continue([@ EXCEPT !.todo = req[h].todo \ {r}])]
    BY <1>7 DEF Emit
  <2> DEFINE e == [req[h] EXCEPT !.todo = req[h].todo \ {r}]
             q == Continue(e)
  <2>2. req' = [req EXCEPT ![h] = q] /\ req[h].phase = "emitting"
    BY <1>7, <2>1 DEF Emit
  <2>3. /\ e \in Request /\ e.phase = "emitting" /\ e.batch = req[h].batch
        /\ e.awaited = req[h].awaited
    BY <1>1, <2>2 DEF Request
  <2> HIDE DEF e
  <2>4. Keeps(req[h], q)
    BY <2>3, ContinueKeeps DEF Keeps
  <2> HIDE DEF q
  <2> QED BY <1>2, <2>2, <2>4
<1>8. CASE MessageAllocate(h) \/ MessageCreate(h) \/ MessageFail(h)
  <2>1. ~req[h].awaited
    BY <1>1, <1>8 DEF RequestSound, MessageAllocate, MessageCreate, MessageFail
  <2>2. ~Free.awaited /\ Free.phase = "free"
    BY DEF Free
  <2>3. PICK q : req' = [req EXCEPT ![h] = q] /\ ~q.awaited
                 /\ q.phase \in {"free", "emitting", "allocated"}
                 /\ (q.phase = "allocated" => req[h].phase = "message")
    <3>1. CASE MessageAllocate(h)
      <4> DEFINE q == [req[h] EXCEPT !.phase = "allocated", !.seq = sessionSeq + 1]
      <4>1. req' = [req EXCEPT ![h] = q] /\ req[h].phase = "message"
        BY <1>1, <3>1 DEF MessageAllocate, Request
      <4>2. ~q.awaited /\ q.phase = "allocated"
        BY <1>1, <2>1 DEF Request
      <4> HIDE DEF q
      <4> QED BY <4>1, <4>2
    <3>2. CASE req' = [req EXCEPT ![h] = Free]
      BY <2>2, <3>2
    <3>3. CASE MessageCreate(h) /\ ~(req' = [req EXCEPT ![h] = Free])
      <4> DEFINE r == [seq |-> req[h].seq, id |-> req[h].batch[1]]
                 q == [req[h] EXCEPT !.phase = "emitting", !.todo = {r}]
      <4>1. req' = [req EXCEPT ![h] = q]
        BY <1>1, <3>3 DEF MessageCreate, Request
      <4>2. ~q.awaited /\ q.phase = "emitting"
        BY <1>1, <2>1 DEF Request
      <4> HIDE DEF q
      <4> QED BY <4>1, <4>2
    <3> QED BY <1>8, <3>1, <3>2, <3>3 DEF MessageFail
  <2> QED BY <1>2, <2>1, <2>3 DEF Keeps
<1> QED BY <1>3, <1>4, <1>5, <1>6, <1>7, <1>8 DEF ServerStep

LEMMA CrashKeeps ==
  ASSUME IInv, Crash
  PROVE  \A h \in Handlers : Keeps(req[h], req'[h])
<1> SUFFICES ASSUME NEW h \in Handlers PROVE Keeps(req[h], req'[h])
  OBVIOUS
<1> DEFINE e == [req[h] EXCEPT !.todo = {}]
<1>1. req[h] \in Request
  BY DEF IInv, StoreTypeOK
<1>2. req'[h] = Ended(e, "failed")
  BY DEF Crash
<1>3. e \in Request /\ e.batch = req[h].batch /\ e.awaited = req[h].awaited
  BY <1>1 DEF Request
<1> HIDE DEF e
<1> QED BY <1>2, <1>3, EndedKeeps DEF Keeps

(* A POST of any batch arrives: a client's, or one nobody here waits for.  *)
LEMMA ArriveStep ==
  ASSUME IInv, NEW h \in Handlers, NEW batch \in Seq(Ids), NEW awaited \in BOOLEAN,
         PostArrive(h, batch, awaited)
  PROVE  /\ IInv'
         /\ \A g \in Handlers \ {h} : req'[g] = req[g]
         /\ req'[h].phase = "post" /\ req'[h].batch = batch /\ req'[h].awaited = awaited
<1> DEFINE q == [Free EXCEPT !.phase = "post", !.batch = batch, !.awaited = awaited]
<1>1. q \in Request /\ RequestSound(q, rows, sessionSeq)
  BY DEF Free, Request, RequestSound, IdsOf, Range
<1>2. q.todo = {} /\ q.phase = "post" /\ q.batch = batch /\ q.awaited = awaited
  BY DEF Free
<1>3. req' = [req EXCEPT ![h] = q] /\ UNCHANGED <<sessionSeq, rows, online, chan>>
  BY DEF PostArrive
<1>4. req \in [Handlers -> Request]
  BY DEF IInv, StoreTypeOK
<1> HIDE DEF q
<1>5. req'[h] = q /\ \A g \in Handlers \ {h} : req'[g] = req[g]
  BY <1>3, <1>4
<1> QED BY <1>1, <1>2, <1>3, <1>5, QuietStep

(* The client takes the answer, or gives up.                               *)
LEMMA AnswerKeeps ==
  ASSUME IInv, NEW h \in Handlers, TakeAnswer(h) \/ Abandon(h)
  PROVE  /\ \A g \in Handlers \ {h} : req'[g] = req[g]
         /\ ~req'[h].awaited
         /\ req'[h].phase = "free" \/ /\ req'[h].phase = req[h].phase
                                      /\ req'[h].batch = req[h].batch
         /\ UNCHANGED rows
<1>1. req \in [Handlers -> Request] /\ req[h] \in Request
  BY DEF IInv, StoreTypeOK
<1>2. CASE req' = [req EXCEPT ![h] = Free]
  BY <1>1, <1>2 DEF Free, TakeAnswer, Abandon
<1>3. CASE req' = [req EXCEPT ![h] = [@ EXCEPT !.awaited = FALSE]]
  <2> DEFINE q == [req[h] EXCEPT !.awaited = FALSE]
  <2>1. q.phase = req[h].phase /\ q.batch = req[h].batch /\ ~q.awaited
    BY <1>1 DEF Request
  <2>2. req' = [req EXCEPT ![h] = q]
    BY <1>3
  <2> HIDE DEF q
  <2>3. req'[h] = q /\ \A g \in Handlers \ {h} : req'[g] = req[g]
    BY <1>1, <2>2
  <2> QED BY <2>1, <2>3 DEF TakeAnswer, Abandon
<1> QED BY <1>2, <1>3 DEF TakeAnswer, Abandon

-----------------------------------------------------------------------------
(* The coalescing loop keeps its type.                                     *)
LEMMA SyncTypes ==
  ASSUME NEW s \in SyncState
  PROVE  /\ NewSync \in SyncState
         /\ Invalidated(s) \in SyncState /\ CommandReturned(s) \in SyncState
         /\ CommandThrew(s) \in SyncState /\ Retried(s) \in SyncState
         /\ Settled(s) \in SyncState /\ Stopped(s) \in SyncState
<1>1. NewSync \in SyncState /\ Invalidated(s) \in SyncState
  BY DEF SyncState, NewSync, Invalidated
<1>2. CommandReturned(s) \in SyncState /\ CommandThrew(s) \in SyncState
  BY DEF SyncState, CommandReturned, CommandThrew
<1>3. Retried(s) \in SyncState /\ Stopped(s) \in SyncState
  BY DEF SyncState, Retried, Stopped
<1>4. Settled(s) \in SyncState
  BY DEF SyncState, Settled
<1> QED BY <1>1, <1>2, <1>3, <1>4

LEMMA MembersOfRange ==
  ASSUME NEW S, NEW q \in Seq(S)
  PROVE  /\ Range(q) \subseteq S
         /\ \A x : x \in Range(q) <=> \E i \in 1 .. Len(q) : q[i] = x
  BY DEF Range

LEMMA AppendFacts ==
  ASSUME NEW S, NEW q \in Seq(S), NEW x \in S
  PROVE  /\ Append(q, x) \in Seq(S) /\ Append(q, x) # <<>>
         /\ Len(Append(q, x)) = Len(q) + 1
         /\ \A i \in 1 .. Len(q) : Append(q, x)[i] = q[i]
         /\ Append(q, x)[Len(q) + 1] = x
         /\ Range(Append(q, x)) = Range(q) \union {x}
<1> DEFINE r == Append(q, x)
<1>1. /\ r \in Seq(S) /\ r # <<>> /\ Len(r) = Len(q) + 1
      /\ \A i \in 1 .. Len(q) : r[i] = q[i]
      /\ r[Len(q) + 1] = x
  BY AppendProperties
<1> HIDE DEF r
<1>2. Range(r) = Range(q) \union {x}
  <2>1. 1 .. Len(r) = (1 .. Len(q)) \union {Len(q) + 1}
    BY <1>1
  <2> QED BY <1>1, <2>1, MembersOfRange
<1> QED BY <1>1, <1>2 DEF r

(* The batch flushOutbox takes: the end of the outbox, and all of it when  *)
(* it is not longer than a batch.                                          *)
LEMMA NewestFacts ==
  ASSUME NEW S, NEW box \in Seq(S), box # <<>>
  PROVE  /\ Newest(box).phase = "sending" /\ Newest(box).h = NoHandler
         /\ Newest(box).batch \in Seq(S) /\ Newest(box).start \in Nat
         /\ DOMAIN Newest(box) = {"phase", "batch", "start", "h"}
         /\ Newest(box) = [phase |-> "sending", batch |-> Newest(box).batch,
                           start |-> Newest(box).start, h |-> NoHandler]
         /\ Newest(box).start + Len(Newest(box).batch) = Len(box)
         /\ \A i \in 1 .. Len(Newest(box).batch) :
                Newest(box).batch[i] = box[Newest(box).start + i]
         /\ Len(box) <= BatchSize => Newest(box).start = 0
<1> DEFINE n == IF Len(box) < BatchSize THEN Len(box) ELSE BatchSize
           m == Len(box) - n + 1
           batch == SubSeq(box, m, Len(box))
<1>1. n \in Nat /\ 1 <= n /\ n <= Len(box) /\ Len(box) \in Nat
      /\ (Len(box) <= BatchSize => n = Len(box))
  <2>1. Len(box) \in Nat /\ Len(box) # 0
    OBVIOUS
  <2> QED BY <2>1, BatchSizeAssumption
<1>2. m \in Nat /\ 1 <= m /\ m <= Len(box) /\ m + n = Len(box) + 1
  BY <1>1
<1>3. Newest(box) = [phase |-> "sending", batch |-> batch, start |-> Len(box) - n,
                     h |-> NoHandler]
  BY DEF Newest
<1> HIDE DEF n, m
<1>4. /\ batch \in Seq(S) /\ Len(batch) = n
      /\ \A i \in 1 .. n : batch[i] = box[m + i - 1]
  <2>1. \A i \in m .. Len(box) : box[i] \in S
    BY <1>2
  <2>2. /\ batch \in Seq(S)
        /\ Len(batch) = IF m <= Len(box) THEN Len(box) - m + 1 ELSE 0
        /\ \A i \in 1 .. Len(box) - m + 1 : batch[i] = box[m + i - 1]
    BY <1>1, <1>2, <2>1, SubSeqProperties
  <2> QED BY <1>1, <1>2, <2>2
<1> HIDE DEF batch
<1>5. Len(box) - n \in Nat /\ Len(box) - n + n = Len(box)
      /\ \A i \in 1 .. n : Len(box) - n + i = m + i - 1
  BY <1>1, <1>2
<1> QED BY <1>1, <1>3, <1>4, <1>5

(* Cutting n elements out after the first k drops no others.               *)
LEMMA SplicedFacts ==
  ASSUME NEW S, NEW box \in Seq(S), NEW k \in Nat, NEW n \in Nat, k + n <= Len(box)
  PROVE  /\ Spliced(box, k, n) \in Seq(S)
         /\ Len(Spliced(box, k, n)) = Len(box) - n
         /\ \A i \in 1 .. k : Spliced(box, k, n)[i] = box[i]
         /\ \A i \in k + 1 .. Len(box) - n : Spliced(box, k, n)[i] = box[n + i]
         /\ \A x \in Range(box) :
                x \in Range(Spliced(box, k, n)) \/ \E i \in 1 .. n : x = box[k + i]
<1> DEFINE l == Len(box)
           p == SubSeq(box, 1, k)
           m == k + n + 1
           r == SubSeq(box, m, l)
           s == p \o r
<1>1. l \in Nat /\ m \in Nat /\ 1 <= m /\ k <= l /\ \A i \in 1 .. l : box[i] \in S
  OBVIOUS
<1>2. p \in Seq(S) /\ Len(p) = k /\ \A i \in 1 .. k : p[i] = box[i]
  <2>1. \A i \in 1 .. k : box[i] \in S
    BY <1>1
  <2>2. /\ p \in Seq(S)
        /\ Len(p) = IF 1 <= k THEN k - 1 + 1 ELSE 0
        /\ \A i \in 1 .. k - 1 + 1 : p[i] = box[1 + i - 1]
    BY <1>1, <2>1, SubSeqProperties
  <2> QED BY <1>1, <2>2
<1>3. r \in Seq(S) /\ Len(r) = l - k - n /\ \A i \in 1 .. l - k - n : r[i] = box[k + n + i]
  <2>1. \A i \in m .. l : box[i] \in S
    BY <1>1
  <2>2. /\ r \in Seq(S)
        /\ Len(r) = IF m <= l THEN l - m + 1 ELSE 0
        /\ \A i \in 1 .. l - m + 1 : r[i] = box[m + i - 1]
    BY <1>1, <2>1, SubSeqProperties
  <2> QED BY <1>1, <2>2
<1>4. Spliced(box, k, n) = s
  BY DEF Spliced
<1> HIDE DEF p, r
<1>5. /\ s \in Seq(S) /\ Len(s) = Len(p) + Len(r)
      /\ \A i \in 1 .. Len(p) + Len(r) : s[i] = IF i <= Len(p) THEN p[i] ELSE r[i - Len(p)]
  <2>1. p \in Seq(S) /\ r \in Seq(S)
    BY <1>2, <1>3
  <2>2. /\ p \o r \in Seq(S) /\ Len(p \o r) = Len(p) + Len(r)
        /\ \A i \in 1 .. Len(p) + Len(r) :
               (p \o r)[i] = IF i <= Len(p) THEN p[i] ELSE r[i - Len(p)]
    BY <2>1, ConcatProperties, Zenon
  <2> QED BY <2>2, Zenon DEF s
<1> HIDE DEF s
<1>6. Len(s) = l - n /\ \A i \in 1 .. k : s[i] = box[i]
  <2>1. Len(s) = l - n
    BY <1>1, <1>2, <1>3, <1>5
  <2>2. ASSUME NEW i \in 1 .. k  PROVE s[i] = box[i]
    <3>1. i \in 1 .. Len(p) + Len(r) /\ i <= Len(p)
      BY <1>1, <1>2, <1>3
    <3> QED BY <1>2, <1>5, <3>1
  <2> QED BY <2>1, <2>2
<1>7. \A i \in k + 1 .. l - n : s[i] = box[n + i]
  <2> SUFFICES ASSUME NEW i \in k + 1 .. l - n PROVE s[i] = box[n + i]
    OBVIOUS
  <2>1. i \in 1 .. Len(p) + Len(r) /\ ~(i <= Len(p))
    BY <1>1, <1>2, <1>3
  <2>2. s[i] = r[i - k] /\ i - k \in 1 .. l - k - n
    BY <1>1, <1>2, <1>5, <2>1
  <2> QED BY <1>1, <1>3, <2>2
<1>8. ASSUME NEW x \in Range(box)
      PROVE  x \in Range(s) \/ \E i \in 1 .. n : x = box[k + i]
  <2>1. PICK j \in 1 .. l : box[j] = x
    BY MembersOfRange
  <2>2. CASE j <= k
    <3>1. j \in 1 .. Len(s) /\ s[j] = x
      BY <1>1, <1>6, <2>1, <2>2
    <3> QED BY <1>5, <3>1, MembersOfRange
  <2>3. CASE k < j /\ j <= k + n
    <3>1. j - k \in 1 .. n /\ k + (j - k) = j
      BY <2>3
    <3> QED BY <2>1, <3>1
  <2>4. CASE k + n < j
    <3>1. j - n \in k + 1 .. l - n /\ n + (j - n) = j /\ j - n \in 1 .. Len(s)
      BY <1>1, <1>6, <2>4
    <3>2. s[j - n] = x
      BY <1>7, <2>1, <3>1
    <3> QED BY <1>5, <3>1, <3>2, MembersOfRange
  <2> QED BY <2>2, <2>3, <2>4
<1> QED BY <1>4, <1>5, <1>6, <1>7, <1>8

-----------------------------------------------------------------------------
(* The sending half, step by step.                                         *)

PostState == [phase : {"none", "sending", "waiting"}, batch : Seq(AgentIds),
              start : Nat, h : Handlers \union {NoHandler}]

(* A batch that was just taken from the outbox and is not sent yet, or     *)
(* none.                                                                   *)
FreshPost(p, box) ==
    /\ p \in PostState /\ p.phase # "waiting"
    /\ p.phase # "none" => /\ p.start + Len(p.batch) <= Len(box)
                           /\ \A i \in 1 .. Len(p.batch) : p.batch[i] = box[p.start + i]
                           /\ Len(box) <= BatchSize => p.start = 0

LEMMA NoPostIsFresh == ASSUME NEW box PROVE FreshPost(NoPost, box)
  BY DEF NoPost, FreshPost, PostState

LEMMA FlushLoopStep ==
  ASSUME NEW s \in SyncState, NEW box \in Seq(AgentIds), FlushLoop(s, box)
  PROVE  sendSync' \in SyncState /\ FreshPost(post', box)
<1>1. CASE box = <<>>
  BY <1>1, SyncTypes, NoPostIsFresh DEF FlushLoop
<1>2. CASE box # <<>>
  <2> DEFINE p == Newest(box)
  <2>1. post' = p /\ sendSync' = s
    BY <1>2 DEF FlushLoop
  <2>2. /\ p.phase = "sending" /\ p.batch \in Seq(AgentIds) /\ p.start \in Nat
        /\ p = [phase |-> "sending", batch |-> p.batch, start |-> p.start, h |-> NoHandler]
        /\ p.start + Len(p.batch) = Len(box)
        /\ \A i \in 1 .. Len(p.batch) : p.batch[i] = box[p.start + i]
        /\ Len(box) <= BatchSize => p.start = 0
    BY <1>2, NewestFacts
  <2> HIDE DEF p
  <2>3. p \in PostState
    BY <2>2 DEF PostState
  <2> QED BY <2>1, <2>2, <2>3 DEF FreshPost
<1> QED BY <1>1, <1>2

LEMMA InvalidateSendStep ==
  ASSUME sendSync \in SyncState, NEW box \in Seq(AgentIds), InvalidateSend(box)
  PROVE  sendSync' \in SyncState /\ (post' = post \/ FreshPost(post', box))
  BY SyncTypes, FlushLoopStep DEF InvalidateSend

(* The post of the next state: the same, over an outbox that only grew, or *)
(* a fresh one.                                                            *)
LEMMA PostStep ==
  ASSUME BInv, NEW box \in Seq(AgentIds), outbox' = box, req' = req,
         \/ FreshPost(post', box)
         \/ /\ post' = post
            /\ Len(outbox) <= Len(box) /\ \A i \in 1 .. Len(outbox) : box[i] = outbox[i]
  PROVE  post' \in PostState /\ PostIsPlaced' /\ PostIsServed' /\ AwaitedIsBusy'
<1>1. AwaitedIsBusy'
  BY DEF BInv, AwaitedIsBusy
<1>2. CASE FreshPost(post', box)
  BY <1>1, <1>2 DEF FreshPost, PostIsPlaced, PostIsServed
<1>3. CASE /\ post' = post
           /\ Len(outbox) <= Len(box) /\ \A i \in 1 .. Len(outbox) : box[i] = outbox[i]
  <2>1. post \in PostState /\ outbox \in Seq(AgentIds) /\ PostIsPlaced /\ PostIsServed
    BY DEF BInv, OutboxTypeOK, PostState
  <2>2. PostIsServed'
    BY <1>3, <2>1 DEF PostIsServed
  <2>3. ASSUME post.phase # "none"
        PROVE  /\ post.start + Len(post.batch) <= Len(box)
               /\ \A i \in 1 .. Len(post.batch) : post.batch[i] = box[post.start + i]
    <3>1. /\ post.start \in Nat /\ post.batch \in Seq(AgentIds)
          /\ post.start + Len(post.batch) <= Len(outbox)
          /\ \A i \in 1 .. Len(post.batch) : post.batch[i] = outbox[post.start + i]
      BY <2>1, <2>3 DEF PostState, PostIsPlaced
    <3>2. ASSUME NEW i \in 1 .. Len(post.batch)  PROVE post.batch[i] = box[post.start + i]
      <4>1. post.start + i \in 1 .. Len(outbox)
        BY <2>1, <3>1
      <4> QED BY <1>3, <3>1, <4>1
    <3> QED BY <1>3, <2>1, <3>1, <3>2
  <2> QED BY <1>1, <1>3, <2>1, <2>2, <2>3 DEF PostIsPlaced
<1> QED BY <1>2, <1>3

(* enqueueMessage, with and without the invalidation.                      *)
LEMMA EnqueueSteps ==
  ASSUME IInv, BInv, NEW id \in AgentIds, Enqueue(id) \/ EnqueueQuietly(id)
  PROVE  /\ IInv' /\ BInv'
         /\ post' = post \/ FreshPost(post', outbox')
<1>1. OutboxTypeOK /\ UNCHANGED storeVars
  BY DEF BInv, Enqueue, EnqueueQuietly
<1>2. PICK box : box = outbox'
  OBVIOUS
<1>3. box = Append(outbox, id) /\ enqueued' = Append(enqueued, id)
  BY <1>2 DEF Enqueue, EnqueueQuietly
<1>4. /\ box \in Seq(AgentIds) /\ Len(box) = Len(outbox) + 1
      /\ \A i \in 1 .. Len(outbox) : box[i] = outbox[i]
      /\ Range(box) = Range(outbox) \union {id}
  BY <1>1, <1>3, AppendFacts DEF OutboxTypeOK
<1>5. /\ enqueued' \in Seq(AgentIds)
      /\ Range(enqueued') = Range(enqueued) \union {id}
  BY <1>1, <1>3, AppendFacts DEF OutboxTypeOK
<1>6. quiet' \in BOOLEAN /\ crowded' \in BOOLEAN
  BY <1>1 DEF OutboxTypeOK, Enqueue, EnqueueQuietly
<1>7. sendSync' \in SyncState /\ (post' = post \/ FreshPost(post', box))
  <2>1. CASE Enqueue(id)
    <3>1. InvalidateSend(box)
      BY <1>2, <2>1 DEF Enqueue
    <3> QED BY <1>1, <1>4, <3>1, InvalidateSendStep DEF OutboxTypeOK
  <2>2. CASE EnqueueQuietly(id)
    BY <1>1, <2>2 DEF OutboxTypeOK, EnqueueQuietly
  <2> QED BY <2>1, <2>2
<1>8. req' = req /\ rows' = rows /\ Len(outbox) <= Len(box)
  BY <1>1, <1>4 DEF storeVars, OutboxTypeOK
<1>9. post' \in PostState /\ PostIsPlaced' /\ PostIsServed' /\ AwaitedIsBusy'
  BY <1>2, <1>4, <1>7, <1>8, PostStep
<1>10. OutboxTypeOK'
  BY <1>2, <1>4, <1>5, <1>6, <1>7, <1>9 DEF OutboxTypeOK, PostState
<1>11. NothingLost'
  BY <1>2, <1>4, <1>5, <1>8 DEF BInv, NothingLost
<1> QED BY <1>1, <1>2, <1>7, <1>9, <1>10, <1>11, StutterStep DEF BInv

(* Steps of the client alone that leave the outbox as it is.               *)
LEMMA LoopSteps ==
  ASSUME IInv, BInv,
         \/ InvalidateAfterQuiet \/ SendRetry \/ SendSettle
         \/ PostThrows /\ UNCHANGED storeVars
  PROVE  /\ IInv' /\ BInv' /\ UNCHANGED <<storeVars, outbox, enqueued, crowded>>
         /\ post' = post \/ FreshPost(post', outbox')
<1>1. OutboxTypeOK /\ UNCHANGED <<storeVars, outbox, enqueued, crowded>>
  BY DEF BInv, InvalidateAfterQuiet, SendRetry, SendSettle, PostThrows
<1>2. PICK box : box = outbox
  OBVIOUS
<1>3. box \in Seq(AgentIds) /\ outbox' = box
  BY <1>1, <1>2 DEF OutboxTypeOK
<1>4. quiet' \in BOOLEAN
  BY <1>1 DEF OutboxTypeOK, InvalidateAfterQuiet, SendRetry, SendSettle, PostThrows
<1>5. sendSync' \in SyncState /\ (post' = post \/ FreshPost(post', box))
  <2>1. CASE InvalidateAfterQuiet
    BY <1>1, <1>2, <1>3, <2>1, InvalidateSendStep DEF InvalidateAfterQuiet, OutboxTypeOK
  <2>2. CASE SendRetry
    <3>1. PICK s : s = Retried(sendSync)
      OBVIOUS
    <3>2. s \in SyncState
      BY <1>1, <3>1, SyncTypes DEF OutboxTypeOK
    <3>3. FlushLoop(s, box) \/ (sendSync' = s /\ post' = post)
      BY <1>2, <2>2, <3>1 DEF SendRetry
    <3> QED BY <1>3, <3>2, <3>3, FlushLoopStep
  <2>3. CASE SendSettle
    <3>1. PICK s : s = Settled(sendSync)
      OBVIOUS
    <3>2. s \in SyncState
      BY <1>1, <3>1, SyncTypes DEF OutboxTypeOK
    <3>3. FlushLoop(s, box) \/ (sendSync' = s /\ post' = post)
      BY <1>2, <2>3, <3>1 DEF SendSettle
    <3> QED BY <1>3, <3>2, <3>3, FlushLoopStep
  <2>4. CASE PostThrows
    BY <1>1, <2>4, SyncTypes, NoPostIsFresh DEF PostThrows, OutboxTypeOK
  <2> QED BY <2>1, <2>2, <2>3, <2>4
<1>6. req' = req /\ rows' = rows
  BY <1>1 DEF storeVars
<1>7. post' \in PostState /\ PostIsPlaced' /\ PostIsServed' /\ AwaitedIsBusy'
  BY <1>2, <1>3, <1>5, <1>6, PostStep DEF OutboxTypeOK
<1>8. OutboxTypeOK' /\ NothingLost'
  BY <1>1, <1>4, <1>5, <1>6, <1>7 DEF OutboxTypeOK, PostState, BInv, NothingLost
<1> QED BY <1>1, <1>3, <1>5, <1>7, <1>8, StutterStep DEF BInv

(* The request reaches the server.                                         *)
LEMMA PostReachesStep ==
  ASSUME IInv, BInv, NEW h \in Handlers, PostReaches(h)
  PROVE  /\ IInv' /\ BInv' /\ UNCHANGED <<rows, outbox, enqueued, crowded>>
         /\ \A g \in Handlers \ {h} : req'[g] = req[g]
         /\ post.phase = "sending" /\ post'.phase = "waiting"
         /\ post'.start = post.start /\ post'.batch = post.batch
         /\ req'[h].batch = post.batch /\ req'[h].phase = "post"
<1>1. OutboxTypeOK /\ post \in PostState /\ post.phase = "sending"
  BY DEF BInv, OutboxTypeOK, PostReaches, PostState
<1>2. PICK b : b = post.batch
  OBVIOUS
<1>3. b \in Seq(AgentIds) /\ b \in Seq(Ids) /\ PostArrive(h, b, TRUE)
  <2>1. b \in Seq(AgentIds)
    BY <1>1, <1>2 DEF PostState
  <2>2. b \in Seq(Ids)
    BY <2>1, AgentIdsAssumption, SeqMonotonic
  <2> QED BY <1>2, <2>1, <2>2 DEF PostReaches
<1>4. /\ IInv'
      /\ \A g \in Handlers \ {h} : req'[g] = req[g]
      /\ req'[h].phase = "post" /\ req'[h].batch = b /\ req'[h].awaited = TRUE
      /\ rows' = rows
  BY <1>3, ArriveStep DEF PostArrive
<1> DEFINE p == [post EXCEPT !.phase = "waiting", !.h = h]
<1>5. /\ p \in PostState /\ p.phase = "waiting" /\ p.h = h /\ p.batch = post.batch
      /\ p.start = post.start
  BY <1>1 DEF PostState
<1>6. post' = p /\ UNCHANGED <<outbox, sendSync, enqueued, quiet, crowded>>
  BY DEF PostReaches
<1> HIDE DEF p
<1>7. OutboxTypeOK'
  BY <1>1, <1>5, <1>6 DEF OutboxTypeOK, PostState
<1>8. PostIsPlaced' /\ PostIsServed'
  BY <1>1, <1>2, <1>4, <1>5, <1>6 DEF BInv, PostIsPlaced, PostIsServed
<1>9. AwaitedIsBusy' /\ NothingLost'
  BY <1>4, <1>6 DEF BInv, AwaitedIsBusy, NothingLost
<1> QED BY <1>1, <1>2, <1>4, <1>5, <1>6, <1>7, <1>8, <1>9 DEF BInv

(* The 200 answer: the batch leaves the outbox, and all of it is stored.   *)
LEMMA PostOkStep ==
  ASSUME IInv, BInv, PostOk
  PROVE  /\ IInv' /\ BInv' /\ UNCHANGED <<rows, enqueued, crowded>>
         /\ post.phase = "waiting" /\ outbox' = Spliced(outbox, post.start, Len(post.batch))
         /\ FreshPost(post', outbox')
         /\ Range(post.batch) \subseteq IdsOf(rows)
         /\ \A g \in Handlers : req'[g].phase \in {"post", "found", "message", "allocated"}
                                    => req'[g] = req[g]
<1>1. /\ OutboxTypeOK /\ post \in PostState /\ PostIsPlaced /\ PostIsServed
      /\ post.phase = "waiting"
  BY DEF BInv, OutboxTypeOK, PostOk, PostState
<1>2. PICK h \in Handlers : /\ h = post.h /\ TakeAnswer(h) /\ req[h].awaited
                            /\ req[h].batch = post.batch /\ req[h].phase = "replied"
  BY <1>1 DEF PostIsServed, PostOk
<1>3. /\ \A g \in Handlers \ {h} : req'[g] = req[g]
      /\ ~req'[h].awaited /\ UNCHANGED rows /\ req'[h].phase = "free"
  <2>1. req' = [req EXCEPT ![h] = Free] /\ Free.phase = "free"
    BY <1>2 DEF TakeAnswer, Free
  <2>2. req \in [Handlers -> Request]
    BY DEF IInv, StoreTypeOK
  <2>3. req'[h].phase = "free"
    BY <2>1, <2>2
  <2> QED BY <1>2, <2>3, AnswerKeeps
<1>4. IInv'
  BY <1>2, AnswerSteps
<1>5. Range(post.batch) \subseteq IdsOf(rows)
  <2>1. req[h].reply \subseteq rows /\ IdsOf(req[h].reply) = Range(post.batch)
    BY <1>2 DEF IInv, RequestsSound, RequestSound
  <2> QED BY <2>1 DEF IdsOf
<1>6. PICK box, k, n : box = outbox' /\ k = post.start /\ n = Len(post.batch)
  OBVIOUS
<1>7. /\ outbox \in Seq(AgentIds) /\ k \in Nat /\ n \in Nat /\ k + n <= Len(outbox)
      /\ post.batch \in Seq(AgentIds)
      /\ \A i \in 1 .. n : post.batch[i] = outbox[k + i]
  BY <1>1, <1>6 DEF PostState, PostIsPlaced, OutboxTypeOK
<1>8. box = Spliced(outbox, k, n) /\ FlushLoop(sendSync, outbox')
      /\ UNCHANGED <<enqueued, quiet, crowded>>
  BY <1>6 DEF PostOk
<1>9. /\ box \in Seq(AgentIds)
      /\ \A x \in Range(outbox) : x \in Range(box) \/ \E i \in 1 .. n : x = outbox[k + i]
  <2>1. /\ Spliced(outbox, k, n) \in Seq(AgentIds)
        /\ \A x \in Range(outbox) :
               x \in Range(Spliced(outbox, k, n)) \/ \E i \in 1 .. n : x = outbox[k + i]
    BY <1>7, SplicedFacts, ZenonT(40)
  <2> QED BY <1>8, <2>1
<1>10. sendSync' \in SyncState /\ FreshPost(post', box)
  <2>1. PICK s : s = sendSync
    OBVIOUS
  <2>2. s \in SyncState /\ FlushLoop(s, box)
    BY <1>1, <1>6, <1>8, <2>1 DEF OutboxTypeOK
  <2> QED BY <1>9, <2>2, FlushLoopStep
<1>11. OutboxTypeOK'
  BY <1>1, <1>6, <1>8, <1>9, <1>10 DEF OutboxTypeOK, FreshPost, PostState
<1>12. PostIsPlaced' /\ PostIsServed'
  BY <1>6, <1>10 DEF FreshPost, PostIsPlaced, PostIsServed
<1>13. AwaitedIsBusy'
  BY <1>3 DEF BInv, AwaitedIsBusy
<1>14. NothingLost'
  <2>1. \A x \in Range(outbox) : x \in Range(box) \/ x \in Range(post.batch)
    <3>1. \A i \in 1 .. n : outbox[k + i] \in Range(post.batch)
      BY <1>6, <1>7, MembersOfRange
    <3> QED BY <1>9, <3>1
  <2> QED BY <1>3, <1>5, <1>6, <1>8, <2>1 DEF BInv, NothingLost
<1> QED BY <1>1, <1>3, <1>4, <1>5, <1>6, <1>8, <1>10, <1>11, <1>12, <1>13, <1>14 DEF BInv

(* The client gives up on a request that is on the server.                 *)
LEMMA AbandonStep ==
  ASSUME IInv, BInv, PostThrows, ~UNCHANGED storeVars
  PROVE  /\ IInv' /\ BInv' /\ UNCHANGED <<rows, outbox, enqueued, crowded>>
         /\ FreshPost(post', outbox')
         /\ \A g \in Handlers : /\ req'[g].batch = req[g].batch \/ req'[g].phase = "free"
                                /\ req'[g].phase = req[g].phase \/ req'[g].phase = "free"
<1>1. OutboxTypeOK /\ post.phase = "waiting" /\ post.h \in Handlers
  BY DEF BInv, OutboxTypeOK, PostThrows, PostIsServed
<1>2. PICK h \in Handlers : h = post.h /\ Abandon(h)
  BY <1>1 DEF PostThrows
<1>3. /\ \A g \in Handlers \ {h} : req'[g] = req[g]
      /\ ~req'[h].awaited /\ UNCHANGED rows
      /\ req'[h].phase = "free" \/ /\ req'[h].phase = req[h].phase
                                   /\ req'[h].batch = req[h].batch
  BY <1>2, AnswerKeeps
<1>4. IInv'
  BY <1>2, AnswerSteps
<1>5. /\ post' = NoPost /\ sendSync' = CommandThrew(sendSync)
      /\ UNCHANGED <<outbox, enqueued, quiet, crowded>>
  BY DEF PostThrows
<1>6. FreshPost(post', outbox')
  BY <1>5, NoPostIsFresh
<1>7. OutboxTypeOK'
  BY <1>1, <1>5, <1>6, SyncTypes DEF OutboxTypeOK, FreshPost, PostState
<1>8. PostIsPlaced' /\ PostIsServed'
  BY <1>6 DEF FreshPost, PostIsPlaced, PostIsServed
<1>9. AwaitedIsBusy' /\ NothingLost'
  BY <1>3, <1>5 DEF BInv, AwaitedIsBusy, NothingLost
<1> QED BY <1>3, <1>4, <1>5, <1>6, <1>7, <1>8, <1>9 DEF BInv

(* close(), and what goes on without the client.                           *)
LEMMA CloseSendStep ==
  ASSUME BInv, sendSync' = Stopped(sendSync), UNCHANGED <<rows, req>>,
         UNCHANGED <<outbox, post, enqueued, quiet, crowded>>
  PROVE  BInv'
<1>1. OutboxTypeOK'
  BY SyncTypes DEF BInv, OutboxTypeOK
<1> QED BY <1>1 DEF BInv, PostIsPlaced, PostIsServed, AwaitedIsBusy, NothingLost

LEMMA OthersKeep ==
  ASSUME BInv, UNCHANGED outVars, rows \subseteq rows', AwaitedIsBusy',
         \A h \in Handlers : req[h].awaited => req'[h].awaited /\ req'[h].batch = req[h].batch
  PROVE  BInv'
<1>1. OutboxTypeOK' /\ PostIsPlaced'
  BY DEF BInv, OutboxTypeOK, PostIsPlaced, outVars
<1>2. PostIsServed'
  BY DEF BInv, PostIsServed, outVars
<1>3. NothingLost'
  BY DEF BInv, NothingLost, outVars, IdsOf
<1> QED BY <1>1, <1>2, <1>3 DEF BInv

LEMMA ServerSteps ==
  ASSUME IInv, BInv, (\E h \in Handlers : ServerStep(h)) \/ Crash, UNCHANGED outVars
  PROVE  IInv' /\ BInv' /\ rows \subseteq rows' /\ \A h \in Handlers :
             req'[h] = req[h] \/ Keeps(req[h], req'[h])
<1>1. StoreNext
  BY DEF StoreNext
<1>2. IInv' /\ rows \subseteq rows'
  BY <1>1, Inductive, RowsStay
<1>3. \A h \in Handlers : req'[h] = req[h] \/ Keeps(req[h], req'[h])
  BY ServerKeeps, CrashKeeps DEF BInv
<1>4. AwaitedIsBusy'
  BY <1>3 DEF BInv, AwaitedIsBusy, Keeps
<1>5. \A h \in Handlers : req[h].awaited => req'[h].awaited /\ req'[h].batch = req[h].batch
  BY <1>3 DEF Keeps
<1> QED BY <1>2, <1>3, <1>4, <1>5, OthersKeep

LEMMA SendingSteps ==
  ASSUME IInv, BInv, OutboxStep
  PROVE  IInv' /\ BInv'
  BY EnqueueSteps, LoopSteps, PostReachesStep, PostOkStep, AbandonStep DEF OutboxStep

LEMMA OutboxInitBInv == StoreInit /\ OutboxInit => BInv
<1> SUFFICES ASSUME StoreInit, OutboxInit PROVE BInv
  OBVIOUS
<1>1. OutboxTypeOK
  <2>1. NewSync \in SyncState
    BY DEF NewSync, SyncState
  <2>2. NoPost \in PostState
    BY NoPostIsFresh DEF FreshPost
  <2>3. outbox = <<>> /\ enqueued = <<>> /\ <<>> \in Seq(AgentIds)
    BY DEF OutboxInit
  <2>4. sendSync = NewSync /\ post = NoPost /\ quiet = FALSE /\ crowded = FALSE
    BY DEF OutboxInit
  <2> QED BY <2>1, <2>2, <2>3, <2>4 DEF OutboxTypeOK, PostState
<1>2. PostIsPlaced /\ PostIsServed /\ NothingLost
  BY DEF OutboxInit, PostIsPlaced, PostIsServed, NoPost, NothingLost, Range
<1>3. AwaitedIsBusy
  BY DEF StoreInit, AwaitedIsBusy, Free
<1> QED BY <1>1, <1>2, <1>3 DEF BInv

LEMMA OutboxInductive == IInv /\ BInv /\ [OutboxNext]_outboxVars => IInv' /\ BInv'
<1> SUFFICES ASSUME IInv, BInv, [OutboxNext]_outboxVars PROVE IInv' /\ BInv'
  OBVIOUS
<1>1. CASE OutboxStep
  BY <1>1, SendingSteps
<1>2. CASE CloseSend
  <2>1. UNCHANGED storeVars /\ UNCHANGED <<rows, req>>
    BY <1>2 DEF CloseSend, storeVars
  <2> QED BY <1>2, <2>1, StutterStep, CloseSendStep DEF CloseSend
<1>3. CASE OutboxOthers
  BY <1>3, ServerSteps DEF OutboxOthers
<1>4. CASE UNCHANGED outboxVars
  <2>1. UNCHANGED storeVars /\ UNCHANGED outVars
    BY <1>4 DEF outboxVars
  <2>2. UNCHANGED <<rows, req>> /\ AwaitedIsBusy'
    BY <2>1 DEF storeVars, BInv, AwaitedIsBusy
  <2> QED BY <2>1, <2>2, StutterStep, OthersKeep
<1> QED BY <1>1, <1>2, <1>3, <1>4 DEF OutboxNext

(* The server's invariant and the sending half's hold together, whatever   *)
(* becomes of a flushOutbox and of the requests it gave up.                *)
THEOREM OutboxInvariant == OutboxSpec => [](IInv /\ BInv)
<1>1. OutboxStart => IInv /\ BInv
  BY InitIInv, OutboxInitBInv DEF OutboxStart
<1> QED BY <1>1, OutboxInductive, PTL DEF OutboxSpec

(* Every variable of the sending half keeps its type.                      *)
THEOREM OutboxTypeCorrect == OutboxSpec => []OutboxTypeOK
<1>1. BInv => OutboxTypeOK
  BY DEF BInv
<1> QED BY <1>1, OutboxInvariant, PTL

(* No message handed to enqueueMessage is dropped by a failed request, a   *)
(* lost answer, a retry, or the splice after a 200: it is in pendingOutbox *)
(* or the server has a row for it.                                         *)
THEOREM EnqueuedIsNeverLost == OutboxSpec => []NothingLost
<1>1. BInv => NothingLost
  BY DEF BInv
<1> QED BY <1>1, OutboxInvariant, PTL

(* The batch of the POST under way is where the splice will cut it out,    *)
(* whatever was enqueued meanwhile.                                        *)
THEOREM BatchIsCutWhereItStands == OutboxSpec => []BatchStaysInPlace
<1>1. BInv => BatchStaysInPlace
  <2> SUFFICES ASSUME BInv, post.phase # "none"
               PROVE  post.batch = SubSeq(outbox, post.start + 1, post.start + Len(post.batch))
    BY DEF BatchStaysInPlace
  <2>1. /\ outbox \in Seq(AgentIds) /\ post.batch \in Seq(AgentIds) /\ post.start \in Nat
        /\ post.start + Len(post.batch) <= Len(outbox)
        /\ \A i \in 1 .. Len(post.batch) : post.batch[i] = outbox[post.start + i]
    BY DEF BInv, OutboxTypeOK, PostIsPlaced
  <2> DEFINE m == post.start + 1
             n == post.start + Len(post.batch)
             b == SubSeq(outbox, m, n)
  <2>2. m \in Int /\ n \in Int /\ n - m + 1 = Len(post.batch)
        /\ \A i \in m .. n : outbox[i] \in AgentIds
    BY <2>1
  <2>3. /\ b \in Seq(AgentIds)
        /\ Len(b) = IF m <= n THEN n - m + 1 ELSE 0
        /\ \A i \in 1 .. n - m + 1 : b[i] = outbox[m + i - 1]
    BY <2>2, SubSeqProperties
  <2>4. Len(b) = Len(post.batch)
    BY <2>1, <2>2, <2>3
  <2>5. \A i \in 1 .. Len(b) : b[i] = post.batch[i]
    <3> SUFFICES ASSUME NEW i \in 1 .. Len(post.batch) PROVE b[i] = post.batch[i]
      BY <2>4
    <3>1. b[i] = outbox[m + i - 1]
      BY <2>2, <2>3
    <3>2. m + i - 1 = post.start + i
      BY <2>1
    <3> QED BY <2>1, <3>1, <3>2
  <2> HIDE DEF b
  <2>6. b = post.batch
    BY <2>1, <2>3, <2>4, <2>5, SeqEqual
  <2> QED BY <2>6 DEF b
<1> QED BY <1>1, OutboxInvariant, PTL

-----------------------------------------------------------------------------
(* A client that never has more than one batch outstanding.                *)

(* The outbox is the end of what was enqueued, and all before is stored.   *)
OutboxIsTail ==
    ~crowded =>
        /\ Len(outbox) <= BatchSize /\ Len(outbox) <= Len(enqueued)
        /\ \A i \in 1 .. Len(outbox) :
               outbox[i] = enqueued[Len(enqueued) - Len(outbox) + i]
        /\ \A i \in 1 .. Len(enqueued) - Len(outbox) : enqueued[i] \in IdsOf(rows)

PostIsFirst == ~crowded /\ post.phase # "none" => post.start = 0

(* A batch that is a stretch of what was enqueued, with all before it      *)
(* stored.                                                                 *)
InLine(batch, enq, ids) ==
    \E s \in Nat :
        /\ s + Len(batch) <= Len(enq)
        /\ \A i \in 1 .. Len(batch) : batch[i] = enq[s + i]
        /\ \A i \in 1 .. s : enq[i] \in ids

(* So is each request the server may still carry out.                      *)
BatchesInLine ==
    ~crowded => \A h \in Handlers : req[h].phase \in {"post", "found"} =>
        InLine(req[h].batch, enqueued, IdsOf(rows))

(* What was first enqueued before a stored message is stored.              *)
StoredIsClosed ==
    ~crowded => \A q \in rows :
        /\ q.id \in Range(enqueued)
        /\ \A x : Precedes(enqueued, x, q.id) => x \in IdsOf(rows)

OInv == /\ OnlyPosts /\ OutboxIsTail /\ PostIsFirst /\ BatchesInLine
        /\ StoredIsClosed /\ StoredInOrder

LEMMA InLineStays ==
  ASSUME NEW S, NEW batch \in Seq(S), NEW enq \in Seq(S), NEW ids, NEW more,
         InLine(batch, enq, ids), ids \subseteq more, NEW id \in S
  PROVE  InLine(batch, enq, more) /\ InLine(batch, Append(enq, id), more)
<1>1. PICK s \in Nat : /\ s + Len(batch) <= Len(enq)
                       /\ \A i \in 1 .. Len(batch) : batch[i] = enq[s + i]
                       /\ \A i \in 1 .. s : enq[i] \in ids
  BY DEF InLine
<1>2. InLine(batch, enq, more)
  BY <1>1 DEF InLine
<1>3. PICK e : e = Append(enq, id)
  OBVIOUS
<1>4. Len(e) = Len(enq) + 1 /\ \A i \in 1 .. Len(enq) : e[i] = enq[i]
  BY <1>3, AppendFacts
<1>5. /\ s + Len(batch) <= Len(e)
      /\ \A i \in 1 .. Len(batch) : s + i \in 1 .. Len(enq)
      /\ \A i \in 1 .. s : i \in 1 .. Len(enq)
  BY <1>1, <1>4
<1>6. InLine(batch, e, more)
  <2>1. \A i \in 1 .. Len(batch) : batch[i] = e[s + i]
    BY <1>1, <1>4, <1>5
  <2>2. \A i \in 1 .. s : e[i] \in more
    BY <1>1, <1>4, <1>5
  <2> QED BY <1>1, <1>5, <2>1, <2>2 DEF InLine
<1> QED BY <1>2, <1>3, <1>6

(* Steps that neither enqueue nor store: enough that the outbox is as it   *)
(* was and no batch is new on the server.                                  *)
LEMMA QuietOInv ==
  ASSUME OInv, BInv, BInv', UNCHANGED <<rows, outbox, enqueued, crowded>>,
         post' = post \/ FreshPost(post', outbox'),
         \A h \in Handlers :
             /\ req'[h].phase \in {"post", "found"} =>
                    req[h].phase \in {"post", "found"} /\ req'[h].batch = req[h].batch
             /\ req'[h].phase \in {"message", "allocated"} =>
                    req[h].phase \in {"message", "allocated"}
  PROVE  OInv'
<1>1. OnlyPosts' /\ OutboxIsTail' /\ BatchesInLine' /\ StoredIsClosed' /\ StoredInOrder'
  <2>1. IdsOf(rows)' = IdsOf(rows)
    BY DEF IdsOf
  <2>2. OnlyPosts' /\ OutboxIsTail'
    BY <2>1 DEF OInv, OnlyPosts, OutboxIsTail
  <2>3. BatchesInLine'
    <3> SUFFICES ASSUME ~crowded', NEW h \in Handlers, req'[h].phase \in {"post", "found"}
                 PROVE  InLine(req'[h].batch, enqueued, IdsOf(rows))
      BY <2>1 DEF BatchesInLine
    <3>1. ~crowded /\ req[h].phase \in {"post", "found"} /\ req'[h].batch = req[h].batch
      OBVIOUS
    <3>2. InLine(req[h].batch, enqueued, IdsOf(rows))
      BY <3>1 DEF OInv, BatchesInLine
    <3> QED BY <3>1, <3>2
  <2>4. StoredIsClosed' /\ StoredInOrder'
    BY <2>1 DEF OInv, StoredIsClosed, StoredInOrder
  <2> QED BY <2>2, <2>3, <2>4
<1>2. PostIsFirst'
  BY DEF OInv, OutboxIsTail, PostIsFirst, FreshPost
<1> QED BY <1>1, <1>2 DEF OInv

LEMMA EnqueueOInv ==
  ASSUME OInv, IInv, BInv, NEW id \in AgentIds, Enqueue(id) \/ EnqueueQuietly(id)
  PROVE  OInv'
<1>1. /\ OutboxTypeOK /\ UNCHANGED storeVars /\ rows' = rows /\ req' = req
      /\ outbox' = Append(outbox, id) /\ enqueued' = Append(enqueued, id)
      /\ crowded' = (crowded \/ Len(outbox') > BatchSize)
  BY DEF BInv, Enqueue, EnqueueQuietly, storeVars
<1>2. post' = post \/ FreshPost(post', outbox')
  BY EnqueueSteps
<1>3. PICK box, enq : box = outbox' /\ enq = enqueued'
  OBVIOUS
<1>4. /\ box \in Seq(AgentIds) /\ Len(box) = Len(outbox) + 1
      /\ \A i \in 1 .. Len(outbox) : box[i] = outbox[i]
      /\ box[Len(outbox) + 1] = id
  BY <1>1, <1>3, AppendFacts DEF OutboxTypeOK
<1>5. /\ enq \in Seq(AgentIds) /\ Len(enq) = Len(enqueued) + 1
      /\ \A i \in 1 .. Len(enqueued) : enq[i] = enqueued[i]
      /\ enq[Len(enqueued) + 1] = id
      /\ Range(enq) = Range(enqueued) \union {id}
  BY <1>1, <1>3, AppendFacts DEF OutboxTypeOK
<1>6. OnlyPosts'
  BY <1>1 DEF OInv, OnlyPosts
<1>7. CASE crowded'
  BY <1>6, <1>7 DEF OInv, OutboxIsTail, PostIsFirst, BatchesInLine, StoredIsClosed,
                    StoredInOrder
<1>8. CASE ~crowded'
  <2>1. /\ ~crowded /\ Len(box) <= BatchSize
        /\ Len(outbox) \in Nat /\ Len(enqueued) \in Nat
        /\ outbox \in Seq(AgentIds) /\ enqueued \in Seq(AgentIds)
    <3>1. ~crowded /\ ~(Len(box) > BatchSize)
      BY <1>1, <1>3, <1>8
    <3>2. outbox \in Seq(AgentIds) /\ enqueued \in Seq(AgentIds) /\ Len(box) \in Nat
      BY <1>1, <1>4 DEF OutboxTypeOK
    <3> QED BY <3>1, <3>2, BatchSizeAssumption
  <2>2. /\ Len(outbox) <= Len(enqueued)
        /\ \A i \in 1 .. Len(outbox) : outbox[i] = enqueued[Len(enqueued) - Len(outbox) + i]
        /\ \A i \in 1 .. Len(enqueued) - Len(outbox) : enqueued[i] \in IdsOf(rows)
    BY <2>1 DEF OInv, OutboxIsTail
  <2>3. OutboxIsTail'
    <3>1. ASSUME NEW i \in 1 .. Len(box)  PROVE box[i] = enq[Len(enq) - Len(box) + i]
      <4>1. Len(enq) - Len(box) = Len(enqueued) - Len(outbox)
        BY <1>4, <1>5, <2>1
      <4>2. CASE i \in 1 .. Len(outbox)
        <5>1. Len(enqueued) - Len(outbox) + i \in 1 .. Len(enqueued)
          BY <2>1, <2>2, <4>2
        <5> QED BY <1>4, <1>5, <2>2, <4>1, <4>2, <5>1
      <4>3. CASE i = Len(outbox) + 1
        <5>1. Len(enqueued) - Len(outbox) + i = Len(enqueued) + 1
          BY <2>1, <4>3
        <5> QED BY <1>4, <1>5, <4>1, <4>3, <5>1
      <4> QED BY <1>4, <2>1, <4>2, <4>3
    <3>2. ASSUME NEW i \in 1 .. Len(enq) - Len(box)  PROVE enq[i] \in IdsOf(rows)
      <4>1. i \in 1 .. Len(enqueued) - Len(outbox) /\ i \in 1 .. Len(enqueued)
        BY <1>4, <1>5, <2>1
      <4> QED BY <1>5, <2>2, <4>1
    <3>3. Len(box) <= Len(enq)
      BY <1>4, <1>5, <2>1, <2>2
    <3>4. IdsOf(rows)' = IdsOf(rows)
      BY <1>1 DEF IdsOf
    <3> QED BY <1>3, <2>1, <3>1, <3>2, <3>3, <3>4 DEF OutboxIsTail
  <2>4. PostIsFirst'
    BY <1>2, <1>3, <2>1 DEF OInv, PostIsFirst, FreshPost
  <2>5. BatchesInLine'
    <3>1. ASSUME NEW h \in Handlers, req[h].phase \in {"post", "found"}
          PROVE  InLine(req[h].batch, enq, IdsOf(rows))
      <4>1. InLine(req[h].batch, enqueued, IdsOf(rows))
        BY <2>1, <3>1 DEF OInv, BatchesInLine
      <4>2. req[h].batch \in Seq(Ids) /\ enqueued \in Seq(Ids) /\ id \in Ids
        <5>1. req[h].batch \in Seq(Ids)
          BY DEF IInv, StoreTypeOK, Request
        <5>2. enqueued \in Seq(Ids)
          BY <2>1, AgentIdsAssumption, SeqMonotonic
        <5> QED BY <5>1, <5>2, AgentIdsAssumption
      <4> QED BY <1>1, <1>3, <4>1, <4>2, InLineStays
    <3>2. IdsOf(rows)' = IdsOf(rows)
      BY <1>1 DEF IdsOf
    <3> QED BY <1>1, <1>3, <3>1, <3>2 DEF BatchesInLine
  <2>6. ASSUME NEW q \in rows, NEW x, Precedes(enq, x, q.id)
        PROVE  Precedes(enqueued, x, q.id)
    <3>1. q.id \in Range(enqueued)
      BY <2>1 DEF OInv, StoredIsClosed
    <3>2. PICK k \in 1 .. Len(enqueued) : enqueued[k] = q.id
      BY <2>1, <3>1, MembersOfRange
    <3>3. PICK i \in 1 .. Len(enq) : enq[i] = x /\ \A j \in 1 .. i : enq[j] # q.id
      BY <1>5, <2>6 DEF Precedes
    <3>4. i \in 1 .. Len(enqueued)
      <4>1. k \in 1 .. Len(enq) /\ enq[k] = q.id
        BY <1>5, <2>1, <3>2
      <4>2. ~(k \in 1 .. i)
        BY <3>3, <4>1
      <4> QED BY <2>1, <3>2, <3>3, <4>2
    <3>5. enqueued[i] = x /\ \A j \in 1 .. i : enqueued[j] # q.id
      <4>1. ASSUME NEW j \in 1 .. i PROVE enqueued[j] # q.id
        <5>1. j \in 1 .. Len(enqueued)
          BY <2>1, <3>4
        <5> QED BY <1>5, <3>3, <5>1
      <4> QED BY <1>5, <3>3, <3>4, <4>1
    <3>6. i \in DOMAIN enqueued
      BY <2>1, <3>4
    <3> QED BY <3>5, <3>6 DEF Precedes
  <2>7. StoredIsClosed'
    <3>1. IdsOf(rows)' = IdsOf(rows)
      BY <1>1 DEF IdsOf
    <3>2. \A q \in rows : /\ q.id \in Range(enqueued)
                          /\ \A x : Precedes(enqueued, x, q.id) => x \in IdsOf(rows)
      BY <2>1 DEF OInv, StoredIsClosed
    <3>3. \A q \in rows : /\ q.id \in Range(enq)
                          /\ \A x : Precedes(enq, x, q.id) => x \in IdsOf(rows)
      BY <1>5, <2>6, <3>2
    <3> QED BY <1>1, <1>3, <3>1, <3>3 DEF StoredIsClosed
  <2>8. StoredInOrder'
    <3>1. \A r, q \in rows : Precedes(enqueued, r.id, q.id) => r.seq <= q.seq
      BY <2>1 DEF OInv, StoredInOrder
    <3>2. \A r, q \in rows : Precedes(enq, r.id, q.id) => r.seq <= q.seq
      BY <2>6, <3>1
    <3> QED BY <1>1, <1>3, <3>2 DEF StoredInOrder
  <2> QED BY <1>6, <2>3, <2>4, <2>5, <2>7, <2>8 DEF OInv
<1> QED BY <1>7, <1>8

LEMMA PostReachesOInv ==
  ASSUME OInv, IInv, BInv, NEW h \in Handlers, PostReaches(h)
  PROVE  OInv'
<1>1. /\ UNCHANGED <<rows, outbox, enqueued, crowded>>
      /\ \A g \in Handlers \ {h} : req'[g] = req[g]
      /\ post.phase = "sending" /\ post'.start = post.start
      /\ req'[h].batch = post.batch /\ req'[h].phase = "post"
  BY PostReachesStep
<1>2. IdsOf(rows)' = IdsOf(rows)
  BY <1>1 DEF IdsOf
<1>3. OnlyPosts' /\ OutboxIsTail' /\ PostIsFirst'
  BY <1>1, <1>2 DEF OInv, OnlyPosts, OutboxIsTail, PostIsFirst
<1>4. StoredIsClosed' /\ StoredInOrder'
  BY <1>1, <1>2 DEF OInv, StoredIsClosed, StoredInOrder
<1>5. BatchesInLine'
  <2> SUFFICES ASSUME ~crowded', NEW g \in Handlers, req'[g].phase \in {"post", "found"}
               PROVE  InLine(req'[g].batch, enqueued, IdsOf(rows))
    BY <1>1, <1>2 DEF BatchesInLine
  <2>1. ~crowded
    BY <1>1
  <2>2. CASE g # h
    BY <1>1, <2>1, <2>2 DEF OInv, BatchesInLine
  <2>3. CASE g = h
    <3> DEFINE s == Len(enqueued) - Len(outbox)
    <3>1. /\ outbox \in Seq(AgentIds) /\ enqueued \in Seq(AgentIds)
          /\ post.batch \in Seq(AgentIds) /\ post.start = 0
      BY <1>1, <2>1 DEF BInv, OutboxTypeOK, OInv, PostIsFirst
    <3>2. /\ Len(outbox) <= Len(enqueued)
          /\ \A i \in 1 .. Len(outbox) : outbox[i] = enqueued[s + i]
          /\ \A i \in 1 .. s : enqueued[i] \in IdsOf(rows)
      BY <2>1 DEF OInv, OutboxIsTail
    <3>3. /\ Len(post.batch) <= Len(outbox)
          /\ \A i \in 1 .. Len(post.batch) : post.batch[i] = outbox[i]
      BY <1>1, <3>1 DEF BInv, PostIsPlaced
    <3>4. s \in Nat /\ s + Len(post.batch) <= Len(enqueued)
      BY <3>1, <3>2, <3>3
    <3>5. \A i \in 1 .. Len(post.batch) : post.batch[i] = enqueued[s + i]
      BY <3>1, <3>2, <3>3
    <3> HIDE DEF s
    <3>6. InLine(post.batch, enqueued, IdsOf(rows))
      BY <3>2, <3>4, <3>5 DEF InLine
    <3> QED BY <1>1, <2>3, <3>6
  <2> QED BY <2>2, <2>3
<1> QED BY <1>3, <1>4, <1>5 DEF OInv

LEMMA PostOkOInv ==
  ASSUME OInv, IInv, BInv, PostOk
  PROVE  OInv'
<1>1. /\ BInv' /\ UNCHANGED <<rows, enqueued, crowded>>
      /\ post.phase = "waiting" /\ outbox' = Spliced(outbox, post.start, Len(post.batch))
      /\ FreshPost(post', outbox')
      /\ Range(post.batch) \subseteq IdsOf(rows)
      /\ \A g \in Handlers : req'[g].phase \in {"post", "found", "message", "allocated"}
                                 => req'[g] = req[g]
  BY PostOkStep
<1>2. IdsOf(rows)' = IdsOf(rows)
  BY <1>1 DEF IdsOf
<1>3. OnlyPosts'
  BY <1>1 DEF OInv, OnlyPosts
<1>4. StoredIsClosed' /\ StoredInOrder'
  BY <1>1, <1>2 DEF OInv, StoredIsClosed, StoredInOrder
<1>5. BatchesInLine'
  <2> SUFFICES ASSUME ~crowded', NEW g \in Handlers, req'[g].phase \in {"post", "found"}
               PROVE  InLine(req'[g].batch, enqueued, IdsOf(rows))
    BY <1>1, <1>2 DEF BatchesInLine
  <2>1. req'[g] = req[g] /\ ~crowded
    BY <1>1
  <2>2. InLine(req[g].batch, enqueued, IdsOf(rows))
    BY <2>1 DEF OInv, BatchesInLine
  <2> QED BY <2>1, <2>2
<1>6. OutboxIsTail'
  <2> SUFFICES ASSUME ~crowded PROVE OutboxIsTail'
    BY <1>1 DEF OutboxIsTail
  <2>1. PICK n, box : n = Len(post.batch) /\ box = outbox'
    OBVIOUS
  <2>2. /\ outbox \in Seq(AgentIds) /\ enqueued \in Seq(AgentIds)
        /\ post.batch \in Seq(AgentIds) /\ post.start = 0
        /\ n \in Nat /\ n <= Len(outbox) /\ Len(outbox) \in Nat /\ Len(enqueued) \in Nat
        /\ \A i \in 1 .. n : post.batch[i] = outbox[i]
    <3>1. /\ outbox \in Seq(AgentIds) /\ enqueued \in Seq(AgentIds)
          /\ post.batch \in Seq(AgentIds) /\ post.start = 0
      BY <1>1 DEF BInv, OutboxTypeOK, OInv, PostIsFirst
    <3> QED BY <1>1, <2>1, <3>1 DEF BInv, PostIsPlaced
  <2>3. box = Spliced(outbox, 0, n)
    BY <1>1, <2>1, <2>2
  <2>4. /\ Len(Spliced(outbox, 0, n)) = Len(outbox) - n
        /\ \A i \in 0 + 1 .. Len(outbox) - n : Spliced(outbox, 0, n)[i] = outbox[n + i]
    <3>1. 0 \in Nat /\ 0 + n <= Len(outbox)
      BY <2>2
    <3> QED BY <2>2, <3>1, SplicedFacts
  <2>5. Len(box) = Len(outbox) - n /\ \A i \in 1 .. Len(box) : box[i] = outbox[n + i]
    BY <2>3, <2>4
  <2>6. /\ Len(outbox) <= BatchSize /\ Len(outbox) <= Len(enqueued)
        /\ \A i \in 1 .. Len(outbox) : outbox[i] = enqueued[Len(enqueued) - Len(outbox) + i]
        /\ \A i \in 1 .. Len(enqueued) - Len(outbox) : enqueued[i] \in IdsOf(rows)
    BY DEF OInv, OutboxIsTail
  <2>7. ASSUME NEW i \in 1 .. Len(box)
        PROVE  box[i] = enqueued[Len(enqueued) - Len(box) + i]
    <3>1. /\ n + i \in 1 .. Len(outbox)
          /\ Len(enqueued) - Len(outbox) + (n + i) = Len(enqueued) - Len(box) + i
      BY <2>2, <2>5
    <3>2. outbox[n + i] = enqueued[Len(enqueued) - Len(outbox) + (n + i)]
      BY <2>6, <3>1
    <3> QED BY <2>5, <3>1, <3>2
  <2>8. ASSUME NEW i \in 1 .. Len(enqueued) - Len(box)
        PROVE  enqueued[i] \in IdsOf(rows)
    <3>1. CASE i \in 1 .. Len(enqueued) - Len(outbox)
      BY <2>6, <3>1
    <3>2. CASE ~(i \in 1 .. Len(enqueued) - Len(outbox))
      <4> DEFINE j == i - (Len(enqueued) - Len(outbox))
      <4>1. j \in 1 .. n /\ j \in 1 .. Len(outbox) /\ Len(enqueued) - Len(outbox) + j = i
        BY <2>2, <2>5, <2>6, <3>2
      <4>2. post.batch[j] \in Range(post.batch)
        BY <2>1, <2>2, <4>1, MembersOfRange
      <4> HIDE DEF j
      <4>3. enqueued[i] = post.batch[j]
        BY <2>2, <2>6, <4>1
      <4> QED BY <1>1, <4>2, <4>3
    <3> QED BY <3>1, <3>2
  <2>9. Len(box) <= BatchSize /\ Len(box) <= Len(enqueued)
    BY <2>2, <2>5, <2>6, BatchSizeAssumption
  <2> QED BY <1>1, <1>2, <2>1, <2>7, <2>8, <2>9 DEF OutboxIsTail
<1>7. PostIsFirst'
  BY <1>1, <1>6 DEF PostIsFirst, FreshPost, OutboxIsTail
<1> QED BY <1>3, <1>4, <1>5, <1>6, <1>7 DEF OInv

(* The commit of a batch in line: what precedes its new messages is stored *)
(* with or before them, with lower numbers.                                *)
LEMMA CommitOInv ==
  ASSUME OInv, IInv, BInv, NEW h \in Handlers, PostCommit(h), UNCHANGED outVars
  PROVE  OInv'
<1>1. IInv' /\ BInv' /\ rows \subseteq rows'
      /\ \A g \in Handlers : req'[g] = req[g] \/ Keeps(req[g], req'[g])
  BY ServerSteps DEF ServerStep
<1>2. UNCHANGED <<outbox, enqueued, crowded, post>>
  BY DEF outVars
<1>3. OnlyPosts'
  BY <1>1 DEF OInv, OnlyPosts, Keeps
<1>4. IdsOf(rows) \subseteq IdsOf(rows)'
  BY <1>1 DEF IdsOf
<1>5. PICK f \in Numberings(h) : rows' = rows \union Numbered(f)
  BY DEF PostCommit
<1>6. /\ req[h] \in Request /\ RequestSound(req[h], rows, sessionSeq)
      /\ req[h].batch \in Seq(Ids) /\ sessionSeq \in Nat /\ rows \subseteq Row
  BY DEF IInv, StoreTypeOK, RequestsSound, Request
<1> DEFINE new == Numbered(f)
           batch == req[h].batch
<1>7. /\ new \subseteq Row /\ IdsOf(new) = NewIds(h)
      /\ \A r \in new : r.id \in NewIds(h) /\ sessionSeq < r.seq
  BY <1>6, NumberedFacts
<1>8. /\ rows' = rows \union new
      /\ NewIds(h) \intersect IdsOf(rows) = {} /\ req[h].phase = "found"
      /\ NewIds(h) = Range(batch) \ IdsOf(req[h].found)
      /\ IdsOf(req[h].found) \subseteq IdsOf(rows)
      /\ batch \in Seq(Ids)
  BY <1>5, <1>6 DEF PostCommit, NewIds, RequestSound, IdsOf
<1>9. \A r, q \in new : Precedes(batch, r.id, q.id) => r.seq <= q.seq
  <2>1. \A x, y \in NewIds(h) : Precedes(req[h].batch, x, y) => f[x] <= f[y]
    BY DEF Numberings
  <2>2. \A r \in new : \E id \in NewIds(h) : r = [seq |-> f[id], id |-> id]
    BY DEF Numbered, Numberings
  <2> QED BY <2>1, <2>2
<1> HIDE DEF new, batch
<1>10. IdsOf(rows)' = IdsOf(rows) \union NewIds(h) /\ Range(batch) \subseteq IdsOf(rows)'
  <2>1. IdsOf(rows)' = IdsOf(rows \union new)
    BY <1>8 DEF IdsOf
  <2> QED BY <1>7, <1>8, <2>1, IdsOfUnion
<1>11. CASE crowded
  BY <1>2, <1>3, <1>11 DEF OInv, OutboxIsTail, PostIsFirst, BatchesInLine, StoredIsClosed,
                           StoredInOrder
<1>12. CASE ~crowded
  <2>1. PICK s \in Nat : /\ s + Len(batch) <= Len(enqueued)
                         /\ \A i \in 1 .. Len(batch) : batch[i] = enqueued[s + i]
                         /\ \A i \in 1 .. s : enqueued[i] \in IdsOf(rows)
    BY <1>8, <1>12 DEF OInv, BatchesInLine, InLine, batch
  <2>2. enqueued \in Seq(AgentIds) /\ Len(enqueued) \in Nat /\ Len(batch) \in Nat
    BY <1>8 DEF BInv, OutboxTypeOK
  <2>3. Range(batch) \subseteq Range(enqueued)
    <3> SUFFICES ASSUME NEW x \in Range(batch) PROVE x \in Range(enqueued)
      OBVIOUS
    <3>1. PICK i \in 1 .. Len(batch) : batch[i] = x
      BY <1>8, MembersOfRange
    <3>2. s + i \in 1 .. Len(enqueued) /\ enqueued[s + i] = x
      BY <2>1, <2>2, <3>1
    <3> QED BY <2>2, <3>2, MembersOfRange
  (* Before a new message comes what is stored, or what precedes it in the *)
  (* batch.                                                                *)
  <2>4. ASSUME NEW x, NEW y \in Range(batch), Precedes(enqueued, x, y)
        PROVE  x \in IdsOf(rows) \/ (x \in Range(batch) /\ Precedes(batch, x, y))
    <3>1. PICK i \in 1 .. Len(enqueued) : enqueued[i] = x /\ \A j \in 1 .. i : enqueued[j] # y
      BY <2>2, <2>4 DEF Precedes
    <3>2. PICK k \in 1 .. Len(batch) : batch[k] = y
      BY <1>8, MembersOfRange
    <3>3. CASE i <= s
      BY <2>1, <3>1, <3>3
    <3>4. CASE s < i
      <4>1. i < s + k
        <5>1. enqueued[s + k] = y
          BY <2>1, <3>2
        <5>2. ~(s + k \in 1 .. i)
          BY <3>1, <5>1
        <5> QED BY <2>2, <3>1, <3>2, <5>2
      <4>2. i - s \in 1 .. Len(batch) /\ s + (i - s) = i
        BY <2>2, <3>1, <3>2, <3>4, <4>1
      <4>3. batch[i - s] = x
        BY <2>1, <3>1, <4>2
      <4>4. ASSUME NEW j \in 1 .. i - s  PROVE batch[j] # y
        <5>1. j \in 1 .. Len(batch) /\ s + j \in 1 .. i
          BY <2>2, <3>1, <3>4, <4>2
        <5> QED BY <2>1, <3>1, <5>1
      <4>5. i - s \in DOMAIN batch
        BY <1>8, <4>2
      <4>6. Precedes(batch, x, y)
        BY <4>3, <4>4, <4>5 DEF Precedes
      <4> QED BY <1>8, <4>2, <4>3, <4>6, MembersOfRange
    <3> QED BY <2>2, <3>1, <3>3, <3>4
  <2>5. OutboxIsTail' /\ PostIsFirst'
    BY <1>2, <1>4 DEF OInv, OutboxIsTail, PostIsFirst
  <2>6. BatchesInLine'
    <3> SUFFICES ASSUME NEW g \in Handlers, req'[g].phase \in {"post", "found"}
                 PROVE  InLine(req'[g].batch, enqueued, IdsOf(rows)')
      BY <1>2 DEF BatchesInLine
    <3>1. req'[g].batch = req[g].batch /\ req[g].phase \in {"post", "found"}
      BY <1>1 DEF Keeps
    <3>2. InLine(req[g].batch, enqueued, IdsOf(rows))
      BY <1>12, <3>1 DEF OInv, BatchesInLine
    <3>3. InLine(req[g].batch, enqueued, IdsOf(rows)')
      BY <1>4, <3>2 DEF InLine
    <3> QED BY <3>1, <3>3
  <2>7. StoredIsClosed'
    <3>1. ASSUME NEW q \in rows
          PROVE  /\ q.id \in Range(enqueued)
                 /\ \A x : Precedes(enqueued, x, q.id) => x \in IdsOf(rows)'
      BY <1>4, <1>12 DEF OInv, StoredIsClosed
    <3>2. ASSUME NEW q \in new
          PROVE  /\ q.id \in Range(enqueued)
                 /\ \A x : Precedes(enqueued, x, q.id) => x \in IdsOf(rows)'
      <4>1. q.id \in Range(batch)
        BY <1>7, <1>8
      <4> QED BY <1>4, <1>10, <2>3, <2>4, <4>1
    <3> QED BY <1>2, <1>8, <3>1, <3>2 DEF StoredIsClosed
  <2>8. StoredInOrder'
    <3> SUFFICES ASSUME NEW r \in rows \union new, NEW q \in rows \union new,
                        Precedes(enqueued, r.id, q.id)
                 PROVE  r.seq <= q.seq
      BY <1>2, <1>8 DEF StoredInOrder
    <3>1. r \in Row /\ q \in Row
      BY <1>6, <1>7
    <3>2. CASE r \in rows /\ q \in rows
      BY <1>12, <3>2 DEF OInv, StoredInOrder
    <3>3. CASE r \in rows /\ q \in new
      <4>1. r.seq <= sessionSeq /\ sessionSeq < q.seq
        BY <1>7, <3>3 DEF IInv, SeqsAllocated
      <4> QED BY <1>6, <3>1, <4>1 DEF Row
    <3>4. CASE r \in new /\ q \in rows
      <4>1. r.id \in IdsOf(rows)
        BY <1>12, <3>4 DEF OInv, StoredIsClosed
      <4> QED BY <1>7, <1>8, <3>4, <4>1
    <3>5. CASE r \in new /\ q \in new
      <4>1. r.id \notin IdsOf(rows) /\ q.id \in Range(batch)
        BY <1>7, <1>8, <3>5
      <4>2. Precedes(batch, r.id, q.id)
        BY <2>4, <4>1
      <4> QED BY <1>9, <3>5, <4>2
    <3> QED BY <3>2, <3>3, <3>4, <3>5
  <2> QED BY <1>3, <2>5, <2>6, <2>7, <2>8 DEF OInv
<1> QED BY <1>11, <1>12

LEMMA OutboxOInv == OInv /\ IInv /\ BInv /\ [OutboxNext]_outboxVars => OInv'
<1> SUFFICES ASSUME OInv, IInv, BInv, [OutboxNext]_outboxVars PROVE OInv'
  OBVIOUS
<1>1. IInv' /\ BInv'
  BY OutboxInductive
<1>2. CASE \E id \in AgentIds : Enqueue(id) \/ EnqueueQuietly(id)
  BY <1>2, EnqueueOInv
<1>3. CASE \/ InvalidateAfterQuiet \/ SendRetry \/ SendSettle
           \/ PostThrows /\ UNCHANGED storeVars
  <2>1. /\ UNCHANGED <<rows, req, outbox, enqueued, crowded>>
        /\ post' = post \/ FreshPost(post', outbox')
    BY <1>3, LoopSteps DEF storeVars
  <2> QED BY <1>1, <2>1, QuietOInv
<1>4. CASE \E h \in Handlers : PostReaches(h)
  BY <1>4, PostReachesOInv
<1>5. CASE PostOk
  BY <1>5, PostOkOInv
<1>6. CASE PostThrows /\ ~UNCHANGED storeVars
  <2>1. /\ UNCHANGED <<rows, outbox, enqueued, crowded>>
        /\ FreshPost(post', outbox')
        /\ \A g \in Handlers : /\ req'[g].batch = req[g].batch \/ req'[g].phase = "free"
                               /\ req'[g].phase = req[g].phase \/ req'[g].phase = "free"
    BY <1>6, AbandonStep
  <2> QED BY <1>1, <2>1, QuietOInv
<1>7. CASE CloseSend
  <2>1. UNCHANGED <<rows, req, outbox, enqueued, crowded, post>>
    BY <1>7 DEF CloseSend, storeVars
  <2> QED BY <1>1, <2>1, QuietOInv
<1>8. CASE OutboxOthers
  <2>1. UNCHANGED outVars /\ UNCHANGED <<outbox, enqueued, crowded, post>>
        /\ \A g \in Handlers : req'[g] = req[g] \/ Keeps(req[g], req'[g])
    BY <1>8, ServerSteps DEF OutboxOthers, outVars
  <2>2. CASE \E h \in Handlers : PostCommit(h)
    BY <2>1, <2>2, CommitOInv
  <2>3. CASE ~\E h \in Handlers : PostCommit(h)
    <3>1. rows' = rows
      <4>1. CASE Crash
        BY <4>1 DEF Crash
      <4>2. ASSUME NEW h \in Handlers, ServerStep(h)  PROVE rows' = rows
        <5>1. ~MessageCreate(h) /\ ~PostCommit(h)
          BY <2>3 DEF OInv, OnlyPosts, MessageCreate
        <5> QED BY <4>2, <5>1 DEF ServerStep, PostFind, PostConflict, PostFail, Emit,
                                  MessageAllocate, MessageFail
      <4> QED BY <1>8, <4>1, <4>2 DEF OutboxOthers
    <3>2. \A g \in Handlers :
             /\ req'[g].phase \in {"post", "found"} =>
                    req[g].phase \in {"post", "found"} /\ req'[g].batch = req[g].batch
             /\ req'[g].phase \in {"message", "allocated"} =>
                    req[g].phase \in {"message", "allocated"}
      BY <2>1 DEF Keeps
    <3> QED BY <1>1, <2>1, <3>1, <3>2, QuietOInv
  <2> QED BY <2>2, <2>3
<1>9. CASE UNCHANGED outboxVars
  <2>1. UNCHANGED <<rows, req, outbox, enqueued, crowded, post>>
    BY <1>9 DEF outboxVars, outVars, storeVars
  <2> QED BY <1>1, <2>1, QuietOInv
<1> QED BY <1>2, <1>3, <1>4, <1>5, <1>6, <1>7, <1>8, <1>9 DEF OutboxNext, OutboxStep

LEMMA OutboxInitOInv == OutboxStart => OInv
<1> SUFFICES ASSUME OutboxStart PROVE OInv
  OBVIOUS
<1>1. OnlyPosts /\ BatchesInLine
  BY DEF OutboxStart, StoreInit, OnlyPosts, BatchesInLine, Free
<1>2. StoredIsClosed /\ StoredInOrder
  BY DEF OutboxStart, StoreInit, StoredIsClosed, StoredInOrder
<1>3. PostIsFirst
  BY DEF OutboxStart, OutboxInit, PostIsFirst, NoPost
<1>4. OutboxIsTail
  BY BatchSizeAssumption DEF OutboxStart, OutboxInit, OutboxIsTail
<1> QED BY <1>1, <1>2, <1>3, <1>4 DEF OInv

(* While one batch takes all that is outstanding, the outbox is the tail of*)
(* what was enqueued, and what flushOutbox sends is next in line.          *)
THEOREM OrderInvariant == OutboxSpec => []OInv
<1>1. OInv /\ (IInv /\ BInv) /\ [OutboxNext]_outboxVars => OInv'
  BY OutboxOInv
<1> QED BY <1>1, OutboxInitOInv, OutboxInvariant, PTL DEF OutboxSpec

(* A client that never has more than one batch outstanding gets its        *)
(* messages numbered in the order in which it first enqueued them: a late  *)
(* request of an abandoned try and its retry do not overtake each other.   *)
THEOREM OwnOrderIsKept == OutboxSpec => []StoredInOrder
<1>1. OInv => StoredInOrder
  BY DEF OInv
<1> QED BY <1>1, OrderInvariant, PTL

(* With the agent as its only writer the store is the log a cursor reader  *)
(* needs: what becomes visible is numbered beyond what is visible.         *)
THEOREM OutboxImplementsOrderedLog == OutboxSpec => ImplementsOrderedLog
<1>1. OutboxStart => Log!Init
  BY DEF OutboxStart, StoreInit, Log!Init
<1>2. ASSUME IInv, IInv', BInv, OnlyPosts, [OutboxNext]_outboxVars
      PROVE  [Log!AppendAtEnd]_rows
  <2>1. CASE OutboxOthers
    <3>1. [StoreNext]_storeVars
      BY <2>1 DEF OutboxOthers, StoreNext
    <3> QED BY <1>2, <3>1, StepAppendsAtEnd
  <2>2. CASE ~OutboxOthers
    <3>1. rows' = rows
      <4>1. CASE OutboxStep
        BY <1>2, <4>1, EnqueueSteps, LoopSteps, PostReachesStep, PostOkStep, AbandonStep
           DEF OutboxStep, Enqueue, EnqueueQuietly, storeVars
      <4> QED BY <1>2, <2>2, <4>1 DEF OutboxNext, CloseSend, outboxVars, storeVars
    <3> QED BY <3>1
  <2> QED BY <2>1, <2>2
<1>3. OInv => OnlyPosts
  BY DEF OInv
<1> QED BY <1>1, <1>2, <1>3, OutboxInvariant, OrderInvariant, PTL
        DEF OutboxSpec, ImplementsOrderedLog, Log!OrderedSpec

-----------------------------------------------------------------------------
(* Pages of rows.                                                          *)

(* Rows whose seqs tell them apart.                                        *)
Distinct(R) == R \subseteq Row /\ \A r, q \in R : r.seq = q.seq => r = q

Below(R, r) == {q \in R : q.seq < r.seq}

LEMMA RowsAreFinite ==
  ASSUME IInv
  PROVE  Distinct(rows) /\ IsFiniteSet(rows)
<1>1. rows \subseteq Row /\ sessionSeq \in Nat
  BY DEF IInv, StoreTypeOK
<1>2. Distinct(rows)
  BY <1>1 DEF IInv, OneRowPerMessage, Distinct
<1> DEFINE f == [r \in rows |-> r.seq]
<1>3. \A r \in rows : r.seq \in 0 .. sessionSeq
  BY <1>1 DEF IInv, SeqsAllocated, Row
<1>4. f \in Injection(rows, 0 .. sessionSeq)
  BY <1>2, <1>3 DEF Injection, IsInjective, Distinct
<1>5. IsFiniteSet(0 .. sessionSeq)
  BY <1>1, FS_Interval
<1> HIDE DEF f
<1>6. IsFiniteSet(rows)
  BY <1>4, <1>5, FS_Injection
<1> QED BY <1>2, <1>6

LEMMA RankFacts ==
  ASSUME NEW R, Distinct(R), IsFiniteSet(R)
  PROVE  /\ \A r \in R : Cardinality(Below(R, r)) \in 0 .. Cardinality(R) - 1
         /\ \A r, q \in R : r.seq < q.seq <=>
                Cardinality(Below(R, r)) < Cardinality(Below(R, q))
         /\ \A i \in 1 .. Cardinality(R) : \E r \in R : Cardinality(Below(R, r)) = i - 1
<1>1. \A r \in R : r.seq \in Nat
  BY DEF Distinct, Row
<1>2. Cardinality(R) \in Nat
  BY FS_CardinalityType
<1>3. ASSUME NEW r \in R
      PROVE  IsFiniteSet(Below(R, r)) /\ Cardinality(Below(R, r)) \in 0 .. Cardinality(R) - 1
  <2>1. Below(R, r) \in SUBSET R /\ r \notin Below(R, r)
    BY <1>1 DEF Below
  <2>2. /\ IsFiniteSet(Below(R, r)) /\ Cardinality(Below(R, r)) <= Cardinality(R)
        /\ Cardinality(R) # Cardinality(Below(R, r))
    BY <2>1, FS_Subset
  <2>3. Cardinality(Below(R, r)) \in Nat
    BY <2>2, FS_CardinalityType
  <2> QED BY <1>2, <2>2, <2>3
<1>4. ASSUME NEW r \in R, NEW q \in R, r.seq < q.seq
      PROVE  Cardinality(Below(R, r)) < Cardinality(Below(R, q))
  <2>1. r \notin Below(R, r) /\ Below(R, r) \union {r} \in SUBSET Below(R, q)
    BY <1>1, <1>4 DEF Below
  <2>2. Cardinality(Below(R, r) \union {r}) = Cardinality(Below(R, r)) + 1
    BY <1>3, <2>1, FS_AddElement
  <2>3. Cardinality(Below(R, r) \union {r}) <= Cardinality(Below(R, q))
    BY <1>3, <2>1, FS_Subset
  <2> QED BY <1>3, <2>2, <2>3
<1>5. ASSUME NEW r \in R, NEW q \in R, ~(r.seq < q.seq)
      PROVE  ~(Cardinality(Below(R, r)) < Cardinality(Below(R, q)))
  <2>1. CASE r = q
    BY <1>3, <2>1
  <2>2. CASE r # q
    <3>1. q.seq < r.seq
      BY <1>1, <1>5, <2>2 DEF Distinct
    <3>2. Cardinality(Below(R, q)) < Cardinality(Below(R, r))
      BY <1>4, <3>1
    <3> QED BY <1>3, <3>2
  <2> QED BY <2>1, <2>2
<1> DEFINE T == 0 .. Cardinality(R) - 1
           f == [r \in R |-> Cardinality(Below(R, r))]
<1>6. f \in Injection(R, T)
  <2>1. f \in [R -> T]
    BY <1>3
  <2>2. ASSUME NEW r \in R, NEW q \in R, f[r] = f[q]  PROVE r = q
    <3>1. ~(r.seq < q.seq) /\ ~(q.seq < r.seq)
      BY <1>3, <1>4, <2>2
    <3> QED BY <1>1, <3>1 DEF Distinct
  <2> QED BY <2>1, <2>2 DEF Injection, IsInjective
<1>7. IsFiniteSet(T) /\ Cardinality(T) = Cardinality(R)
  <2>1. 0 \in Int /\ Cardinality(R) - 1 \in Int
    BY <1>2
  <2>2. /\ IsFiniteSet(T)
        /\ Cardinality(T) = IF 0 > Cardinality(R) - 1 THEN 0 ELSE (Cardinality(R) - 1) - 0 + 1
    BY <2>1, FS_Interval
  <2> QED BY <1>2, <2>2
<1>8. f \in Surjection(R, T)
  <2> HIDE DEF f, T
  <2> QED BY <1>6, <1>7, FS_Injection
<1>9. \A i \in 1 .. Cardinality(R) : \E r \in R : Cardinality(Below(R, r)) = i - 1
  <2> SUFFICES ASSUME NEW i \in 1 .. Cardinality(R)
               PROVE  \E r \in R : Cardinality(Below(R, r)) = i - 1
    OBVIOUS
  <2>1. i - 1 \in T
    BY <1>2
  <2>2. \E r \in R : f[r] = i - 1
    BY <1>8, <2>1 DEF Surjection
  <2> QED BY <2>2
<1> QED BY <1>3, <1>4, <1>5, <1>9

(* The answer of a GET: the rows of the page, each once, by seq.           *)
LEMMA BySeqFacts ==
  ASSUME NEW R, Distinct(R), IsFiniteSet(R)
  PROVE  /\ BySeq(R) \in Seq(R) /\ Len(BySeq(R)) = Cardinality(R)
         /\ \A r \in R : \E i \in 1 .. Len(BySeq(R)) : BySeq(R)[i] = r
         /\ \A i, j \in 1 .. Len(BySeq(R)) : i < j => BySeq(R)[i].seq < BySeq(R)[j].seq
<1> DEFINE n == Cardinality(R)
           rank(r) == Cardinality(Below(R, r))
           s == BySeq(R)
<1>1. n \in Nat
  BY FS_CardinalityType
<1>2. /\ \A r \in R : rank(r) \in 0 .. n - 1
      /\ \A r, q \in R : r.seq < q.seq <=> rank(r) < rank(q)
      /\ \A i \in 1 .. n : \E r \in R : rank(r) = i - 1
  BY RankFacts
<1>3. s = [i \in 1 .. n |-> CHOOSE r \in R : rank(r) = i - 1]
  BY DEF BySeq, Below
<1> HIDE DEF s, rank, n
<1>4. \A i \in 1 .. n : s[i] \in R /\ rank(s[i]) = i - 1
  <2> SUFFICES ASSUME NEW i \in 1 .. n PROVE s[i] \in R /\ rank(s[i]) = i - 1
    OBVIOUS
  <2>1. s[i] = CHOOSE r \in R : rank(r) = i - 1
    BY <1>3
  <2> QED BY <1>2, <2>1
<1>5. s \in Seq(R) /\ Len(s) = n
  <2>1. s \in [1 .. n -> R]
    BY <1>3, <1>4
  <2> QED BY <1>1, <2>1
<1>6. ASSUME NEW i \in 1 .. n, NEW j \in 1 .. n, i < j  PROVE s[i].seq < s[j].seq
  <2>1. rank(s[i]) < rank(s[j])
    BY <1>1, <1>4, <1>6
  <2> QED BY <1>2, <1>4, <2>1
<1>7. ASSUME NEW r \in R  PROVE \E i \in 1 .. n : s[i] = r
  <2>1. PICK i \in 1 .. n : i - 1 = rank(r)
    <3>1. PICK k : k = rank(r)
      OBVIOUS
    <3>2. k \in 0 .. n - 1
      BY <1>2, <3>1
    <3>3. \E i \in 1 .. n : i - 1 = k
      BY <1>1, <3>2
    <3> QED BY <3>1, <3>3
  <2>2. s[i] \in R /\ rank(s[i]) = rank(r)
    BY <1>4, <2>1
  <2> DEFINE q == s[i]
  <2>3. q \in R /\ rank(q) = rank(r) /\ rank(r) \in Nat
    BY <1>1, <1>2, <2>2
  <2> HIDE DEF q
  <2>4. ~(q.seq < r.seq) /\ ~(r.seq < q.seq)
    BY <1>2, <2>3
  <2>5. q.seq \in Nat /\ r.seq \in Nat
    BY <2>3 DEF Distinct, Row
  <2>6. q = r
    BY <2>3, <2>4, <2>5 DEF Distinct
  <2> QED BY <2>6 DEF q
<1> QED BY <1>5, <1>6, <1>7 DEF s, n

(* maxSeq after a page: the highest seq of it, or the cursor it was asked  *)
(* after.                                                                  *)
LEMMA HighestFacts ==
  ASSUME NEW n \in Nat, NEW R, Distinct(R), IsFiniteSet(R), \A r \in R : n < r.seq
  PROVE  /\ Highest(n, R) \in Nat /\ n <= Highest(n, R)
         /\ \A r \in R : r.seq <= Highest(n, R)
         /\ R # {} => \E r \in R : r.seq = Highest(n, R)
<1>1. \A r \in R : r.seq \in Nat
  BY DEF Distinct, Row
<1>2. CASE R = {}
  BY <1>2 DEF Highest
<1>3. CASE R # {}
  <2> DEFINE l == Cardinality(R)
             s == BySeq(R)
  <2>1. /\ s \in Seq(R) /\ Len(s) = l
        /\ \A r \in R : \E i \in 1 .. Len(s) : s[i] = r
        /\ \A i, j \in 1 .. Len(s) : i < j => s[i].seq < s[j].seq
    BY BySeqFacts
  <2>2. l \in Nat /\ l # 0
    BY <1>3, FS_CardinalityType, FS_EmptySet
  <2> HIDE DEF l, s
  <2>3. s[l] \in R /\ s[l].seq \in Nat
    BY <1>1, <2>1, <2>2
  <2>4. ASSUME NEW r \in R  PROVE r.seq <= s[l].seq
    <3>1. PICK i \in 1 .. l : s[i] = r
      BY <2>1
    <3>2. CASE i = l
      BY <1>1, <3>1, <3>2
    <3>3. CASE i < l
      <4>1. s[i].seq < s[l].seq
        BY <2>1, <2>2, <3>3
      <4> QED BY <1>1, <2>3, <3>1, <4>1
    <3> QED BY <2>2, <3>2, <3>3
  <2> DEFINE m == Highest(n, R)
  <2>5. m = CHOOSE x \in {r.seq : r \in R} : \A r \in R : r.seq <= x
    BY <1>3 DEF Highest
  <2>6. m \in {r.seq : r \in R} /\ \A r \in R : r.seq <= m
    BY <2>3, <2>4, <2>5
  <2> HIDE DEF m
  <2>7. PICK r \in R : r.seq = m
    BY <2>6
  <2>8. m \in Nat /\ n <= m
    BY <1>1, <2>7
  <2> QED BY <2>6, <2>7, <2>8 DEF m
<1> QED BY <1>2, <1>3

(* A page leaves no row out between the cursor and its last one.           *)
LEMMA PageFacts ==
  ASSUME IInv, NEW n \in Nat
  PROVE  /\ Page(n, PageSize) \subseteq rows
         /\ \A r \in Page(n, PageSize) : n < r.seq
         /\ \A r \in rows : n < r.seq /\ (\E q \in Page(n, PageSize) : r.seq <= q.seq)
                                => r \in Page(n, PageSize)
<1> DEFINE A == After(n)
           page == Page(n, PageSize)
<1>1. /\ Distinct(rows) /\ IsFiniteSet(rows)
      /\ A \in SUBSET rows /\ \A r \in rows : r.seq \in Nat /\ (r \in A <=> n < r.seq)
  BY RowsAreFinite DEF After, IInv, StoreTypeOK, Row
<1>2. page = {r \in A : Cardinality(Below(A, r)) < PageSize}
  BY DEF Page, Below
<1>3. IsFiniteSet(A)
  BY <1>1, FS_Subset
<1> HIDE DEF A, page
<1>4. ASSUME NEW r \in rows, n < r.seq, NEW q \in page, r.seq <= q.seq
      PROVE  r \in page
  <2>1. r \in A /\ q \in A /\ Below(A, r) \in SUBSET Below(A, q) /\ Below(A, q) \in SUBSET A
    BY <1>1, <1>2, <1>4 DEF Below
  <2>2. IsFiniteSet(Below(A, q)) /\ IsFiniteSet(Below(A, r))
        /\ Cardinality(Below(A, r)) <= Cardinality(Below(A, q))
    BY <1>3, <2>1, FS_Subset
  <2>3. Cardinality(Below(A, r)) \in Nat /\ Cardinality(Below(A, q)) \in Nat
    BY <2>2, FS_CardinalityType
  <2> QED BY <1>2, <2>1, <2>2, <2>3, PageSizeAssumption
<1> QED BY <1>1, <1>2, <1>4 DEF page

-----------------------------------------------------------------------------
(* The receiving half, in a session nobody writes to through the socket.   *)

(* Before the client exists nothing was fetched, and nothing was sent to it*)
NotYetStarted ==
    ~started => /\ get.phase = "none" /\ receiveSync.phase = "idle"
                /\ Cli \notin online /\ chan[Cli] = <<>>

(* The cursor only moves forward, over numbers that were given out; a page *)
(* is asked for after some place it was at.                                *)
CursorInBounds ==
    /\ startSeq <= lastSeq /\ lastSeq <= sessionSeq
    /\ get.phase # "none" => startSeq <= get.after /\ get.after <= lastSeq

RoutedIsStored ==
    \A i \in DOMAIN routed : routed[i] \in rows /\ routed[i].seq <= lastSeq

(* An answered page has every row between the cursor it was asked after    *)
(* and its last one, those that were stored since it was read included:    *)
(* there are none.                                                         *)
PageIsWhole ==
    get.phase = "answered" =>
        /\ get.page \subseteq rows
        /\ \A r \in get.page : get.after < r.seq
        /\ \A r \in rows : get.after < r.seq /\ (\E q \in get.page : r.seq <= q.seq)
                               => r \in get.page

SInv == /\ OnlyPosts /\ InboxTypeOK /\ NotYetStarted /\ CursorInBounds /\ RoutedIsStored
        /\ PageIsWhole /\ NothingSkipped /\ NewsInOrder

(* The store only grows, at its end.                                       *)
Grows == /\ rows \subseteq rows' /\ sessionSeq <= sessionSeq'
         /\ \A r \in rows' \ rows : sessionSeq < r.seq

LEMMA SendKeepsStore ==
  ASSUME IInv, BInv, OnlyPosts, OutboxStep
  PROVE  /\ IInv' /\ BInv' /\ OnlyPosts'
         /\ UNCHANGED <<sessionSeq, rows, online, chan>>
<1>1. UNCHANGED <<sessionSeq, rows, online, chan>>
  <2>1. CASE UNCHANGED storeVars
    BY <2>1 DEF storeVars
  <2>2. CASE PostThrows /\ ~UNCHANGED storeVars
    BY <2>2 DEF PostThrows, Abandon
  <2> QED BY <2>1, <2>2 DEF OutboxStep, Enqueue, EnqueueQuietly, InvalidateAfterQuiet,
                           PostReaches, PostArrive, PostOk, TakeAnswer, SendRetry, SendSettle
<1>2. OnlyPosts'
  <2>1. CASE UNCHANGED storeVars
    BY <2>1 DEF storeVars, OnlyPosts
  <2>2. ASSUME NEW h \in Handlers, PostReaches(h)  PROVE OnlyPosts'
    BY <2>2, PostReachesStep DEF OnlyPosts
  <2>3. CASE PostOk
    BY <2>3, PostOkStep DEF OnlyPosts
  <2>4. CASE PostThrows /\ ~UNCHANGED storeVars
    BY <2>4, AbandonStep DEF OnlyPosts
  <2> QED BY <2>1, <2>2, <2>3, <2>4 DEF OutboxStep, Enqueue, EnqueueQuietly,
                                        InvalidateAfterQuiet, SendRetry, SendSettle
<1> QED BY <1>1, <1>2, SendingSteps

LEMMA ServerGrows ==
  ASSUME IInv, BInv, OnlyPosts, (\E h \in Handlers : ServerStep(h)) \/ Crash,
         UNCHANGED outVars
  PROVE  /\ IInv' /\ BInv' /\ OnlyPosts' /\ Grows
         /\ Cli \notin online /\ chan[Cli] = <<>> => Cli \notin online' /\ chan'[Cli] = <<>>
<1>1. IInv' /\ BInv' /\ \A h \in Handlers : req'[h] = req[h] \/ Keeps(req[h], req'[h])
  BY ServerSteps
<1>2. OnlyPosts'
  BY <1>1 DEF OnlyPosts, Keeps
<1>3. sessionSeq \in Nat /\ chan \in [Sockets -> Seq(Row)]
  BY DEF IInv, StoreTypeOK
<1>4. CASE Crash
  BY <1>1, <1>2, <1>3, <1>4, CliAssumption DEF Crash, Grows
<1>5. ASSUME NEW h \in Handlers, ServerStep(h)
      PROVE  Grows /\ (Cli \notin online /\ chan[Cli] = <<>> =>
                           Cli \notin online' /\ chan'[Cli] = <<>>)
  <2>1. ~MessageAllocate(h) /\ ~MessageCreate(h) /\ ~MessageFail(h)
    BY DEF OnlyPosts, MessageAllocate, MessageCreate, MessageFail
  <2>2. CASE PostFind(h) \/ PostConflict(h) \/ PostFail(h)
    BY <1>3, <2>2 DEF PostFind, PostConflict, PostFail, Grows
  <2>3. CASE Emit(h)
    <3>1. UNCHANGED <<sessionSeq, rows, online>> /\ \E r : chan' = Sent(h, r)
      BY <2>3 DEF Emit
    <3> QED BY <1>3, <3>1, CliAssumption DEF Grows, Sent
  <2>4. CASE PostCommit(h)
    <3>1. PICK f \in Numberings(h) : rows' = rows \union Numbered(f)
      BY <2>4 DEF PostCommit
    <3>2. req[h].batch \in Seq(Ids)
      BY DEF IInv, StoreTypeOK, Request
    <3>3. Cardinality(NewIds(h)) \in Nat /\ \A r \in Numbered(f) : sessionSeq < r.seq
      BY <1>3, <3>2, NumberedFacts
    <3>4. sessionSeq' = sessionSeq + Cardinality(NewIds(h)) /\ UNCHANGED <<online, chan>>
      BY <2>4 DEF PostCommit
    <3> QED BY <1>3, <3>1, <3>3, <3>4 DEF Grows
  <2> QED BY <1>5, <2>1, <2>2, <2>3, <2>4 DEF ServerStep
<1> QED BY <1>1, <1>2, <1>4, <1>5

(* Somebody else's POST arrives.                                           *)
LEMMA OthersArrive ==
  ASSUME SocketIds = {}, IInv, BInv, OnlyPosts, OthersStep, UNCHANGED outVars
  PROVE  /\ IInv' /\ BInv' /\ OnlyPosts'
         /\ UNCHANGED <<sessionSeq, rows, online, chan>>
<1>1. PICK h \in Handlers, batch \in Batches : PostArrive(h, batch, FALSE)
  BY DEF OthersStep
<1>2. batch \in Seq(Ids) /\ FALSE \in BOOLEAN
  BY BatchesAssumption
<1>3. /\ IInv' /\ \A g \in Handlers \ {h} : req'[g] = req[g]
      /\ req'[h].phase = "post" /\ req'[h].awaited = FALSE
  BY <1>1, <1>2, ArriveStep
<1>4. UNCHANGED <<sessionSeq, rows, online, chan>> /\ req[h].phase = "free"
  BY <1>1 DEF PostArrive
<1>5. ~req[h].awaited
  BY <1>4 DEF BInv, AwaitedIsBusy
<1>6. OnlyPosts' /\ AwaitedIsBusy'
  BY <1>3 DEF OnlyPosts, BInv, AwaitedIsBusy
<1>7. BInv'
  BY <1>3, <1>4, <1>5, <1>6, OthersKeep
<1> QED BY <1>3, <1>4, <1>6, <1>7

(* Sockets come, go and hear; requests and rows stay.                      *)
LEMMA SocketKeeps ==
  ASSUME IInv, BInv, OnlyPosts,
         \/ \E s \in Sockets : Connect(s) \/ Disconnect(s) \/ Deliver(s)
         \/ UNCHANGED storeVars
  PROVE  IInv' /\ OnlyPosts' /\ UNCHANGED <<sessionSeq, rows, req>> /\ Grows
<1>1. IInv'
  BY SocketSteps, StutterStep
<1>2. UNCHANGED <<sessionSeq, rows, req>>
  BY DEF Connect, Disconnect, Deliver, storeVars
<1>3. Grows
  BY <1>2 DEF Grows, IInv, StoreTypeOK
<1> QED BY <1>1, <1>2, <1>3 DEF OnlyPosts

(* Whoever moves while the receiving half does not: what it knows of the   *)
(* rows stays true of more of them.                                        *)
LEMMA InboxWaits ==
  ASSUME IInv, SInv, OnlyPosts', Grows, UNCHANGED inVars,
         Cli \notin online /\ chan[Cli] = <<>> => Cli \notin online' /\ chan'[Cli] = <<>>,
         sessionSeq' \in Nat, rows' \subseteq Row
  PROVE  SInv'
<1>1. /\ InboxTypeOK /\ sessionSeq \in Nat /\ rows \subseteq Row
      /\ \A r \in rows : r.seq <= sessionSeq
      /\ UNCHANGED <<started, lastSeq, receiveSync, get, routed, startSeq>>
  BY DEF IInv, StoreTypeOK, SeqsAllocated, SInv, inVars
<1>2. InboxTypeOK' /\ NotYetStarted'
  BY <1>1 DEF SInv, InboxTypeOK, NotYetStarted
<1>3. CursorInBounds'
  BY <1>1 DEF SInv, InboxTypeOK, CursorInBounds, Grows
<1>4. RoutedIsStored' /\ NewsInOrder'
  BY <1>1 DEF SInv, RoutedIsStored, NewsInOrder, Grows
<1>5. PageIsWhole'
  <2> SUFFICES ASSUME get.phase = "answered"
               PROVE  /\ get.page \subseteq rows'
                      /\ \A r \in get.page : get.after < r.seq
                      /\ \A r \in rows' : get.after < r.seq
                             /\ (\E q \in get.page : r.seq <= q.seq) => r \in get.page
    BY <1>1 DEF PageIsWhole
  <2>1. /\ get.page \subseteq rows /\ \A r \in get.page : get.after < r.seq
        /\ \A r \in rows : get.after < r.seq /\ (\E q \in get.page : r.seq <= q.seq)
                               => r \in get.page
    BY DEF SInv, PageIsWhole
  <2>2. ASSUME NEW r \in rows' \ rows, NEW q \in get.page, r.seq <= q.seq  PROVE FALSE
    <3>1. sessionSeq < r.seq /\ q.seq <= sessionSeq
      BY <1>1, <2>1 DEF Grows
    <3>2. r.seq \in Nat /\ q.seq \in Nat
      BY <1>1, <2>1 DEF Row
    <3> QED BY <1>1, <2>2, <3>1, <3>2
  <2> QED BY <2>1, <2>2 DEF Grows
<1>6. NothingSkipped'
  <2> SUFFICES ASSUME NEW r \in rows', startSeq < r.seq, r.seq <= lastSeq
               PROVE  r \in Range(routed)
    BY <1>1 DEF NothingSkipped
  <2>1. CASE r \in rows
    BY <2>1 DEF SInv, NothingSkipped
  <2>2. CASE r \notin rows
    <3>1. sessionSeq < r.seq /\ lastSeq <= sessionSeq /\ r.seq \in Nat /\ lastSeq \in Nat
      BY <1>1, <2>2 DEF Grows, SInv, CursorInBounds, Row, InboxTypeOK
    <3> QED BY <1>1, <3>1
  <2> QED BY <2>1, <2>2
<1> QED BY <1>2, <1>3, <1>4, <1>5, <1>6 DEF SInv

-----------------------------------------------------------------------------
(* The client's own steps.                                                 *)

GetState == [phase : {"none", "sent", "answered"}, after : Nat,
             page : SUBSET Row, more : BOOLEAN]

LEMMA GetsHaveTypes ==
  ASSUME NEW n \in Nat
  PROVE  /\ NoGet \in GetState /\ NoGet.phase = "none"
         /\ GetAfter(n) \in GetState /\ GetAfter(n).phase = "sent" /\ GetAfter(n).after = n
  BY DEF NoGet, GetAfter, GetState

(* Steps that leave rows, cursor and what was routed alone, and at most    *)
(* begin a fetch at the cursor or drop one.                                *)
LEMMA FetchBegins ==
  ASSUME IInv, SInv, OnlyPosts', started,
         UNCHANGED <<sessionSeq, rows, started, lastSeq, routed, startSeq>>,
         receiveSync' \in SyncState,
         get' = get \/ get' = NoGet \/ get' = GetAfter(lastSeq)
  PROVE  SInv'
<1>1. InboxTypeOK /\ lastSeq \in Nat /\ startSeq \in Nat /\ get \in GetState
  BY DEF SInv, InboxTypeOK, GetState
<1>2. /\ get' \in GetState
      /\ get' = get \/ get'.phase = "none" \/ (get'.phase = "sent" /\ get'.after = lastSeq)
  BY <1>1, GetsHaveTypes
<1>3. InboxTypeOK'
  BY <1>1, <1>2 DEF InboxTypeOK, GetState
<1>4. NotYetStarted'
  BY DEF NotYetStarted
<1>5. CursorInBounds'
  BY <1>1, <1>2 DEF SInv, CursorInBounds
<1>6. PageIsWhole'
  BY <1>2 DEF SInv, PageIsWhole
<1>7. RoutedIsStored' /\ NothingSkipped' /\ NewsInOrder'
  BY DEF SInv, RoutedIsStored, NothingSkipped, NewsInOrder
<1> QED BY <1>3, <1>4, <1>5, <1>6, <1>7 DEF SInv

LEMMA InvalidateReceiveStep ==
  ASSUME SInv, InvalidateReceive
  PROVE  receiveSync' \in SyncState /\ (get' = get \/ get' = GetAfter(lastSeq))
  BY SyncTypes DEF SInv, InboxTypeOK, InvalidateReceive, FetchStarts

LEMMA StartStep ==
  ASSUME IInv, SInv, OnlyPosts', Start
  PROVE  SInv'
<1>1. /\ InboxTypeOK /\ sessionSeq \in Nat /\ get.phase = "none"
      /\ UNCHANGED <<sessionSeq, rows, receiveSync, get, routed>>
      /\ started' /\ started' \in BOOLEAN /\ lastSeq' = sessionSeq /\ startSeq' = sessionSeq
  BY DEF SInv, IInv, StoreTypeOK, Start, storeVars, NotYetStarted
<1>2. InboxTypeOK' /\ NotYetStarted'
  BY <1>1 DEF InboxTypeOK, NotYetStarted
<1>3. CursorInBounds' /\ PageIsWhole' /\ NewsInOrder'
  BY <1>1 DEF CursorInBounds, PageIsWhole, SInv, NewsInOrder
<1>4. RoutedIsStored'
  BY <1>1 DEF SInv, RoutedIsStored, IInv, SeqsAllocated
<1>5. NothingSkipped'
  <2> SUFFICES ASSUME NEW r \in rows, sessionSeq < r.seq, r.seq <= sessionSeq PROVE FALSE
    BY <1>1 DEF NothingSkipped
  <2>1. r.seq \in Nat
    BY DEF IInv, StoreTypeOK, Row
  <2> QED BY <1>1, <2>1
<1> QED BY <1>2, <1>3, <1>4, <1>5 DEF SInv

(* The fast path: the next message in line is routed as it is heard.       *)
LEMMA UpdateStep ==
  ASSUME IInv, SInv, OnlyPosts', UpdateNewMessage
  PROVE  SInv'
<1>1. /\ InboxTypeOK /\ started /\ chan[Cli] # <<>> /\ Deliver(Cli)
      /\ UNCHANGED <<sessionSeq, rows, started, startSeq>>
  BY DEF SInv, NotYetStarted, UpdateNewMessage, Deliver
<1>2. PICK r : r = Head(chan[Cli])
  OBVIOUS
<1>3. CASE ~NextInLine(r)
  <2>1. InvalidateReceive /\ UNCHANGED <<routed, lastSeq>>
    BY <1>2, <1>3 DEF UpdateNewMessage
  <2> QED BY <1>1, <2>1, InvalidateReceiveStep, FetchBegins
<1>4. CASE NextInLine(r)
  <2>1. routed' = Append(routed, r) /\ lastSeq' = r.seq /\ UNCHANGED <<receiveSync, get>>
    BY <1>2, <1>4 DEF UpdateNewMessage
  <2>2. /\ routed \in Seq(Row) /\ lastSeq \in Nat /\ startSeq \in Nat /\ sessionSeq \in Nat
        /\ rows \subseteq Row /\ r.seq = lastSeq + 1
    BY <1>1, <1>4 DEF InboxTypeOK, IInv, StoreTypeOK, NextInLine
  <2>3. r \in rows
    <3>1. chan[Cli] \in Seq(Row) /\ 1 \in DOMAIN chan[Cli] /\ chan[Cli][1] = r
      BY <1>1, <1>2, CliAssumption DEF IInv, StoreTypeOK
    <3> QED BY <3>1, CliAssumption DEF IInv, UpdatesAreNews
  <2>4. r \in Row /\ r.seq <= sessionSeq
    BY <2>2, <2>3 DEF IInv, SeqsAllocated
  <2>5. PICK rt : rt = routed'
    OBVIOUS
  <2>6. /\ rt \in Seq(Row) /\ Len(rt) = Len(routed) + 1
        /\ \A i \in 1 .. Len(routed) : rt[i] = routed[i]
        /\ rt[Len(routed) + 1] = r
        /\ Range(rt) = Range(routed) \union {r}
    BY <2>1, <2>2, <2>4, <2>5, AppendFacts
  <2>7. \A i \in 1 .. Len(routed) : routed[i] \in rows /\ routed[i].seq <= lastSeq
    BY <2>2 DEF SInv, RoutedIsStored
  <2>8. InboxTypeOK'
    BY <1>1, <2>1, <2>2, <2>5, <2>6 DEF InboxTypeOK
  <2>9. NotYetStarted'
    BY <1>1 DEF NotYetStarted
  <2>10. CursorInBounds'
    <3>1. /\ startSeq <= lastSeq
          /\ get.phase # "none" => /\ startSeq <= get.after /\ get.after <= lastSeq
                                   /\ get.after \in Nat
      BY <1>1 DEF SInv, CursorInBounds, InboxTypeOK
    <3>2. startSeq <= r.seq /\ r.seq <= sessionSeq
      BY <2>2, <2>4, <3>1
    <3>3. get.phase # "none" => startSeq <= get.after /\ get.after <= r.seq
      BY <2>2, <3>1
    <3> QED BY <1>1, <2>1, <3>2, <3>3 DEF CursorInBounds
  <2>11. RoutedIsStored'
    <3> SUFFICES ASSUME NEW i \in 1 .. Len(rt)
                 PROVE  rt[i] \in rows /\ rt[i].seq <= r.seq
      BY <1>1, <2>1, <2>5, <2>6 DEF RoutedIsStored
    <3>1. CASE i \in 1 .. Len(routed)
      <4>1. rt[i] \in rows /\ rt[i].seq <= lastSeq /\ rt[i].seq \in Nat
        BY <2>2, <2>6, <2>7, <3>1 DEF Row
      <4> QED BY <2>2, <4>1
    <3>2. CASE i = Len(routed) + 1
      BY <2>2, <2>3, <2>6, <3>2
    <3> QED BY <2>2, <2>6, <3>1, <3>2
  <2>12. PageIsWhole'
    BY <1>1, <2>1 DEF SInv, PageIsWhole
  <2>13. NothingSkipped'
    <3> SUFFICES ASSUME NEW q \in rows, startSeq < q.seq, q.seq <= r.seq
                 PROVE  q \in Range(rt)
      BY <1>1, <2>1, <2>5 DEF NothingSkipped
    <3>1. q.seq \in Nat
      BY <2>2 DEF Row
    <3>2. CASE q.seq <= lastSeq
      BY <2>6, <3>2 DEF SInv, NothingSkipped
    <3>3. CASE q.seq = r.seq
      BY <2>3, <2>6, <3>3 DEF IInv, OneRowPerMessage
    <3> QED BY <2>2, <3>1, <3>2, <3>3
  <2>14. NewsInOrder'
    <3> SUFFICES ASSUME NEW j \in 1 .. Len(rt), NEW i \in 1 .. j - 1,
                        rt[i].seq > rt[j].seq
                 PROVE  \E k \in 1 .. i : rt[k] = rt[j]
      BY <2>5, <2>6 DEF NewsInOrder
    <3>1. i \in 1 .. Len(routed) /\ rt[i] = routed[i] /\ \A k \in 1 .. i : rt[k] = routed[k]
      BY <2>2, <2>6
    <3>2. CASE j \in 1 .. Len(routed)
      <4>1. \E k \in 1 .. i : routed[k] = routed[j]
        BY <2>2, <2>6, <3>1, <3>2 DEF SInv, NewsInOrder
      <4> QED BY <2>6, <3>1, <3>2, <4>1
    <3>3. CASE j = Len(routed) + 1
      <4>1. routed[i].seq <= lastSeq /\ routed[i].seq \in Nat /\ rt[j] = r
        BY <2>2, <2>6, <2>7, <3>1, <3>3 DEF Row
      <4> QED BY <2>2, <3>1, <4>1
    <3> QED BY <2>2, <2>6, <3>2, <3>3
  <2> QED BY <2>8, <2>9, <2>10, <2>11, <2>12, <2>13, <2>14 DEF SInv
<1> QED BY <1>3, <1>4

(* The server reads the page.                                              *)
LEMMA GetServedStep ==
  ASSUME IInv, SInv, OnlyPosts', GetServed
  PROVE  SInv'
<1>1. /\ InboxTypeOK /\ get \in GetState /\ get.phase = "sent" /\ started
      /\ UNCHANGED <<sessionSeq, rows, started, lastSeq, receiveSync, routed, startSeq>>
  BY DEF SInv, InboxTypeOK, GetState, GetServed, storeVars, NotYetStarted
<1> DEFINE page == Page(get.after, PageSize)
           g == [get EXCEPT !.phase = "answered", !.page = page,
                            !.more = HasMore(get.after, PageSize)]
<1>2. /\ page \subseteq rows
      /\ \A r \in page : get.after < r.seq
      /\ \A r \in rows : get.after < r.seq /\ (\E q \in page : r.seq <= q.seq) => r \in page
  BY <1>1, PageFacts DEF GetState
<1>3. get' = g
  BY DEF GetServed
<1> HIDE DEF page
<1>4. /\ g \in GetState /\ g.phase = "answered" /\ g.after = get.after /\ g.page = page
  <2>1. page \subseteq Row /\ HasMore(get.after, PageSize) \in BOOLEAN
    BY <1>2 DEF IInv, StoreTypeOK, HasMore
  <2> QED BY <1>1, <2>1 DEF GetState
<1> HIDE DEF g
<1>5. InboxTypeOK'
  BY <1>1, <1>3, <1>4 DEF InboxTypeOK, GetState
<1>6. PageIsWhole'
  BY <1>1, <1>2, <1>3, <1>4 DEF PageIsWhole
<1>7. NotYetStarted' /\ CursorInBounds'
  BY <1>1, <1>3, <1>4 DEF SInv, NotYetStarted, CursorInBounds
<1>8. RoutedIsStored' /\ NothingSkipped' /\ NewsInOrder'
  BY <1>1 DEF SInv, RoutedIsStored, NothingSkipped, NewsInOrder
<1> QED BY <1>5, <1>6, <1>7, <1>8 DEF SInv

(* The page arrives: its rows follow what was routed, in their order, and  *)
(* those that the fast path routed meanwhile are repetitions.              *)
LEMMA FetchContinuesStep ==
  ASSUME IInv, SInv, OnlyPosts', FetchContinues
  PROVE  SInv'
<1>1. /\ InboxTypeOK /\ get \in GetState /\ get.phase = "answered" /\ started
      /\ UNCHANGED <<sessionSeq, rows, started, startSeq>>
  BY DEF SInv, InboxTypeOK, GetState, FetchContinues, storeVars, NotYetStarted
<1>2. PICK page, after, m, s : /\ page = get.page /\ after = get.after
                               /\ m = Highest(after, page) /\ s = BySeq(page)
  OBVIOUS
<1>3. /\ routed' = routed \o s
      /\ lastSeq' = IF m > lastSeq THEN m ELSE lastSeq
      /\ \/ get' = GetAfter(m) /\ receiveSync' = receiveSync
         \/ get' = NoGet /\ receiveSync' = CommandReturned(receiveSync)
  BY <1>2 DEF FetchContinues
<1>4. /\ page \subseteq rows /\ \A r \in page : after < r.seq
      /\ \A r \in rows : after < r.seq /\ (\E q \in page : r.seq <= q.seq) => r \in page
  BY <1>1, <1>2 DEF SInv, PageIsWhole
<1>5. /\ routed \in Seq(Row) /\ lastSeq \in Nat /\ startSeq \in Nat /\ sessionSeq \in Nat
      /\ rows \subseteq Row /\ after \in Nat /\ Len(routed) \in Nat
      /\ startSeq <= after /\ after <= lastSeq /\ startSeq <= lastSeq
      /\ lastSeq <= sessionSeq /\ \A r \in rows : r.seq \in Nat /\ r.seq <= sessionSeq
  <2>1. /\ routed \in Seq(Row) /\ lastSeq \in Nat /\ startSeq \in Nat /\ after \in Nat
    BY <1>1, <1>2 DEF InboxTypeOK, GetState
  <2>2. sessionSeq \in Nat /\ rows \subseteq Row /\ \A r \in rows : r.seq <= sessionSeq
    BY DEF IInv, StoreTypeOK, SeqsAllocated
  <2>3. \A r \in rows : r.seq \in Nat
    BY <2>2 DEF Row
  <2>4. startSeq <= after /\ after <= lastSeq /\ startSeq <= lastSeq /\ lastSeq <= sessionSeq
    BY <1>1, <1>2 DEF SInv, CursorInBounds
  <2> QED BY <2>1, <2>2, <2>3, <2>4
<1>6. Distinct(page) /\ IsFiniteSet(page)
  BY <1>4, RowsAreFinite, FS_Subset DEF Distinct
<1>7. /\ m \in Nat /\ after <= m /\ \A r \in page : r.seq <= m
      /\ page # {} => \E r \in page : r.seq = m
  BY <1>2, <1>4, <1>5, <1>6, HighestFacts
<1>8. /\ s \in Seq(page) /\ Len(s) \in Nat
      /\ \A r \in page : \E i \in 1 .. Len(s) : s[i] = r
      /\ \A i, j \in 1 .. Len(s) : i < j => s[i].seq < s[j].seq
      /\ \A i \in 1 .. Len(s) : s[i] \in page
  <2>1. /\ s \in Seq(page)
        /\ \A r \in page : \E i \in 1 .. Len(s) : s[i] = r
        /\ \A i, j \in 1 .. Len(s) : i < j => s[i].seq < s[j].seq
    BY <1>2, <1>6, BySeqFacts
  <2> QED BY <2>1
<1>9. s \in Seq(Row)
  BY <1>4, <1>5, <1>8, SeqMonotonic
<1>10. PICK rt, last : rt = routed' /\ last = lastSeq'
  OBVIOUS
<1>11. /\ rt \in Seq(Row) /\ Len(rt) = Len(routed) + Len(s)
       /\ \A i \in 1 .. Len(routed) : rt[i] = routed[i]
       /\ \A i \in 1 .. Len(s) : rt[Len(routed) + i] = s[i]
  <2>1. /\ rt = routed \o s
        /\ routed \o s \in Seq(Row) /\ Len(routed \o s) = Len(routed) + Len(s)
        /\ \A i \in 1 .. Len(routed) + Len(s) :
               (routed \o s)[i] = IF i <= Len(routed) THEN routed[i] ELSE s[i - Len(routed)]
    BY <1>3, <1>5, <1>9, <1>10, ConcatProperties
  <2>2. /\ rt \in Seq(Row) /\ Len(rt) = Len(routed) + Len(s)
        /\ \A i \in 1 .. Len(routed) + Len(s) :
               rt[i] = IF i <= Len(routed) THEN routed[i] ELSE s[i - Len(routed)]
    BY <2>1, Zenon
  <2>3. ASSUME NEW i \in 1 .. Len(routed)  PROVE rt[i] = routed[i]
    <3>1. i \in 1 .. Len(routed) + Len(s) /\ i <= Len(routed)
      BY <1>5, <1>8
    <3> QED BY <2>2, <3>1
  <2>4. ASSUME NEW i \in 1 .. Len(s)  PROVE rt[Len(routed) + i] = s[i]
    <3>1. PICK k : k = Len(routed) + i
      OBVIOUS
    <3>2. k \in 1 .. Len(routed) + Len(s) /\ ~(k <= Len(routed)) /\ k - Len(routed) = i
      BY <1>5, <1>8, <3>1
    <3>3. rt[k] = s[k - Len(routed)]
      BY <2>2, <3>2
    <3> QED BY <3>1, <3>2, <3>3
  <2> QED BY <2>2, <2>3, <2>4
<1>12. ASSUME NEW i \in 1 .. Len(rt)
       PROVE  \/ i \in 1 .. Len(routed) /\ rt[i] = routed[i]
              \/ \E k \in 1 .. Len(s) : i = Len(routed) + k /\ rt[i] = s[k] /\ rt[i] \in page
  <2>1. CASE i \in 1 .. Len(routed)
    BY <1>11, <2>1
  <2>2. CASE ~(i \in 1 .. Len(routed))
    <3>1. PICK k : k = i - Len(routed)
      OBVIOUS
    <3>2. k \in 1 .. Len(s) /\ i = Len(routed) + k
      BY <1>5, <1>8, <1>11, <2>2, <3>1
    <3>3. rt[i] = s[k] /\ s[k] \in page
      BY <1>8, <1>11, <3>2
    <3> QED BY <3>2, <3>3
  <2> QED BY <2>1, <2>2
<1>13. /\ last \in Nat /\ lastSeq <= last /\ m <= last /\ last <= sessionSeq
       /\ startSeq <= last
  <2>1. m <= sessionSeq
    <3>1. CASE page = {}
      <4>1. m = after
        BY <1>2, <3>1 DEF Highest
      <4> QED BY <1>5, <4>1
    <3>2. CASE page # {}
      BY <1>4, <1>5, <1>7, <3>2
    <3> QED BY <3>1, <3>2
  <2> QED BY <1>3, <1>5, <1>7, <1>10, <2>1
<1>14. InboxTypeOK'
  <2>1. get' \in GetState /\ receiveSync' \in SyncState
    BY <1>1, <1>3, <1>7, GetsHaveTypes, SyncTypes DEF InboxTypeOK
  <2> QED BY <1>1, <1>10, <1>11, <1>13, <2>1 DEF InboxTypeOK, GetState
<1>15. NotYetStarted' /\ PageIsWhole'
  BY <1>1, <1>3, <1>7, GetsHaveTypes DEF NotYetStarted, PageIsWhole
<1>16. CursorInBounds'
  <2>1. get'.phase # "none" => get'.after = m
    BY <1>3, <1>7, GetsHaveTypes
  <2> QED BY <1>1, <1>5, <1>7, <1>10, <1>13, <2>1 DEF CursorInBounds
<1>17. \A i \in 1 .. Len(routed) : routed[i] \in rows /\ routed[i].seq <= lastSeq
  BY <1>5 DEF SInv, RoutedIsStored
<1>18. RoutedIsStored'
  <2> SUFFICES ASSUME NEW i \in 1 .. Len(rt) PROVE rt[i] \in rows /\ rt[i].seq <= last
    BY <1>1, <1>10, <1>11 DEF RoutedIsStored
  <2>1. CASE i \in 1 .. Len(routed) /\ rt[i] = routed[i]
    <3>1. rt[i] \in rows /\ rt[i].seq <= lastSeq /\ rt[i].seq \in Nat
      BY <1>5, <1>17, <2>1
    <3> QED BY <1>5, <1>13, <3>1
  <2>2. CASE rt[i] \in page
    <3>1. rt[i] \in rows /\ rt[i].seq <= m /\ rt[i].seq \in Nat
      BY <1>4, <1>5, <1>7, <2>2
    <3> QED BY <1>7, <1>13, <3>1
  <2> QED BY <1>12, <2>1, <2>2
<1>19. /\ \A x \in Range(routed) : x \in Range(rt)
       /\ \A x \in page : x \in Range(rt)
  <2>1. ASSUME NEW x \in Range(routed)  PROVE x \in Range(rt)
    <3>1. PICK i \in 1 .. Len(routed) : routed[i] = x
      BY <1>5, <2>1, MembersOfRange
    <3>2. i \in 1 .. Len(rt) /\ rt[i] = x
      BY <1>5, <1>8, <1>11, <3>1
    <3> QED BY <1>11, <3>2, MembersOfRange
  <2>2. ASSUME NEW x \in page  PROVE x \in Range(rt)
    <3>1. PICK i \in 1 .. Len(s) : s[i] = x
      BY <1>8
    <3>2. PICK k : k = Len(routed) + i
      OBVIOUS
    <3>3. k \in 1 .. Len(rt)
      BY <1>5, <1>8, <1>11, <3>1, <3>2
    <3>4. rt[k] = x
      BY <1>11, <3>1, <3>2
    <3> QED BY <1>11, <3>3, <3>4, MembersOfRange
  <2> QED BY <2>1, <2>2
<1>20. NothingSkipped'
  <2> SUFFICES ASSUME NEW r \in rows, startSeq < r.seq, r.seq <= last PROVE r \in Range(rt)
    BY <1>1, <1>10 DEF NothingSkipped
  <2>1. CASE r.seq <= lastSeq
    <3>1. r \in Range(routed)
      BY <2>1 DEF SInv, NothingSkipped
    <3> QED BY <1>19, <3>1
  <2>2. CASE lastSeq < r.seq
    <3>1. last = m /\ after < r.seq /\ r.seq <= m
      BY <1>3, <1>5, <1>7, <1>10, <2>2
    <3>2. page # {}
      BY <1>2, <1>5, <2>2, <3>1 DEF Highest
    <3>3. r \in page
      BY <1>4, <1>7, <3>1, <3>2
    <3> QED BY <1>19, <3>3
  <2> QED BY <1>5, <2>1, <2>2
<1>21. NewsInOrder'
  <2> SUFFICES ASSUME NEW j \in 1 .. Len(rt), NEW i \in 1 .. j - 1, rt[i].seq > rt[j].seq
               PROVE  \E k \in 1 .. i : rt[k] = rt[j]
    BY <1>10, <1>11 DEF NewsInOrder
  <2>1. i \in 1 .. Len(rt) /\ i < j
    BY <1>5, <1>8, <1>11
  <2>2. \A y \in 1 .. Len(routed) : \A x \in 1 .. y - 1 :
           routed[x].seq > routed[y].seq => \E k \in 1 .. x : routed[k] = routed[y]
    BY <1>5 DEF SInv, NewsInOrder
  (* Among what was routed before the page.                                *)
  <2>3. CASE j \in 1 .. Len(routed) /\ rt[j] = routed[j]
    <3>1. i \in 1 .. Len(routed) /\ rt[i] = routed[i]
      BY <1>5, <1>11, <2>1, <2>3
    <3>2. PICK k \in 1 .. i : routed[k] = routed[j]
      BY <2>2, <2>3, <3>1
    <3>3. k \in 1 .. Len(routed)
      BY <1>5, <3>1
    <3> QED BY <1>11, <2>3, <3>2, <3>3
  <2>4. CASE \E y \in 1 .. Len(s) : j = Len(routed) + y /\ rt[j] = s[y] /\ rt[j] \in page
    <3>1. PICK y \in 1 .. Len(s) : j = Len(routed) + y /\ rt[j] = s[y] /\ rt[j] \in page
      BY <2>4
    <3>2. rt[j] \in rows /\ after < rt[j].seq /\ rt[j].seq \in Nat
      BY <1>4, <1>5, <3>1
    (* Within the page the seqs ascend.                                    *)
    <3>3. CASE \E x \in 1 .. Len(s) : i = Len(routed) + x /\ rt[i] = s[x]
      <4>1. PICK x \in 1 .. Len(s) : i = Len(routed) + x /\ rt[i] = s[x]
        BY <3>3
      <4>2. x < y
        BY <1>5, <1>8, <2>1, <3>1, <4>1
      <4>3. s[x].seq < s[y].seq /\ s[x] \in page /\ s[x].seq \in Nat
        BY <1>4, <1>5, <1>8, <4>2
      <4>4. rt[i].seq < rt[j].seq /\ rt[i].seq \in Nat
        BY <3>1, <4>1, <4>3
      <4>5. ~(rt[i].seq > rt[j].seq)
        BY <3>2, <4>4
      <4> QED BY <2>1, <4>5
    (* A row of the page below a routed one was passed by the cursor, so   *)
    (* it was routed too: before that one, or after it as a repetition.    *)
    <3>4. CASE i \in 1 .. Len(routed) /\ rt[i] = routed[i]
      <4>1. routed[i] \in rows /\ routed[i].seq <= lastSeq /\ routed[i].seq \in Nat
        BY <1>5, <1>17, <3>4
      <4>2. startSeq < rt[j].seq /\ rt[j].seq <= lastSeq
        BY <1>5, <3>2, <3>4, <4>1
      <4>3. rt[j] \in Range(routed)
        BY <3>2, <4>2 DEF SInv, NothingSkipped
      <4>4. PICK z \in 1 .. Len(routed) : routed[z] = rt[j]
        BY <1>5, <4>3, MembersOfRange
      <4>5. CASE z <= i
        <5>1. z \in 1 .. i /\ rt[z] = rt[j]
          BY <1>5, <1>11, <4>4, <4>5
        <5> QED BY <5>1
      <4>6. CASE i < z
        <5>1. i \in 1 .. z - 1
          BY <1>5, <3>4, <4>4, <4>6
        <5>2. PICK k \in 1 .. i : routed[k] = routed[z]
          BY <2>2, <3>4, <4>4, <5>1
        <5>3. k \in 1 .. Len(routed)
          BY <1>5, <3>4, <5>2
        <5> QED BY <1>11, <4>4, <5>2, <5>3
      <4> QED BY <1>5, <4>5, <4>6
    <3> QED BY <1>12, <2>1, <3>3, <3>4
  <2> QED BY <1>12, <2>3, <2>4
<1> QED BY <1>14, <1>15, <1>16, <1>18, <1>20, <1>21 DEF SInv

LEMMA ReceivingSteps ==
  ASSUME IInv, SInv, OnlyPosts', IInv', Grows, InboxStep
  PROVE  SInv'
<1>1. CASE Start
  BY <1>1, StartStep
<1>2. CASE CliConnect
  <2>1. UNCHANGED <<sessionSeq, rows, started, lastSeq, routed, startSeq>>
        /\ started /\ InvalidateReceive
    BY <1>2 DEF CliConnect, Connect
  <2> QED BY <2>1, InvalidateReceiveStep, FetchBegins
<1>3. CASE CliDisconnect
  <2>1. Cli \in online /\ UNCHANGED inVars
    BY <1>3 DEF CliDisconnect, Disconnect
  <2> QED BY <2>1, InboxWaits DEF IInv, StoreTypeOK
<1>4. CASE UpdateNewMessage
  BY <1>4, UpdateStep
<1>5. CASE GetServed
  BY <1>5, GetServedStep
<1>6. CASE FetchContinues
  BY <1>6, FetchContinuesStep
<1>7. CASE FetchThrows
  <2>1. /\ UNCHANGED <<sessionSeq, rows, started, lastSeq, routed, startSeq>>
        /\ started /\ get' = NoGet /\ receiveSync' = CommandThrew(receiveSync)
    BY <1>7 DEF FetchThrows, storeVars, SInv, NotYetStarted
  <2>2. receiveSync' \in SyncState
    BY <2>1, SyncTypes DEF SInv, InboxTypeOK
  <2> QED BY <2>1, <2>2, FetchBegins
<1>8. CASE ReceiveRetry \/ ReceiveSettle
  <2>1. /\ UNCHANGED <<sessionSeq, rows, started, lastSeq, routed, startSeq>>
        /\ started /\ (get' = get \/ get' = GetAfter(lastSeq))
        /\ receiveSync' = Retried(receiveSync) \/ receiveSync' = Settled(receiveSync)
    BY <1>8 DEF ReceiveRetry, ReceiveSettle, FetchStarts, storeVars, SInv, NotYetStarted
  <2>2. receiveSync' \in SyncState
    BY <2>1, SyncTypes DEF SInv, InboxTypeOK
  <2> QED BY <2>1, <2>2, FetchBegins
<1> QED BY <1>1, <1>2, <1>3, <1>4, <1>5, <1>6, <1>7, <1>8 DEF InboxStep

LEMMA SessionInductive ==
  ASSUME SocketIds = {}, IInv, BInv, SInv, [SessionNext]_sessionVars
  PROVE  IInv' /\ BInv' /\ SInv'
<1>1. OnlyPosts /\ sessionSeq \in Nat
  BY DEF SInv, IInv, StoreTypeOK
<1>2. CASE started /\ SendStep
  <2>1. IInv' /\ BInv' /\ OnlyPosts' /\ UNCHANGED <<sessionSeq, rows, online, chan>>
    BY <1>1, <1>2, SendKeepsStore DEF SendStep
  <2>2. Grows /\ sessionSeq' \in Nat /\ rows' \subseteq Row
    BY <1>1, <2>1 DEF Grows, IInv, StoreTypeOK
  <2> QED BY <1>2, <2>1, <2>2, InboxWaits DEF SendStep
<1>3. CASE ReceiveStep
  <2>1. InboxStep /\ UNCHANGED outVars
    BY <1>3 DEF ReceiveStep
  <2>2. \/ \E s \in Sockets : Connect(s) \/ Disconnect(s) \/ Deliver(s)
        \/ UNCHANGED storeVars
    BY <2>1, CliAssumption DEF InboxStep, Start, CliConnect, CliDisconnect, UpdateNewMessage,
       GetServed, FetchContinues, FetchThrows, ReceiveRetry, ReceiveSettle
  <2>3. IInv' /\ OnlyPosts' /\ UNCHANGED <<sessionSeq, rows, req>> /\ Grows
    BY <1>1, <2>2, SocketKeeps
  <2>4. BInv'
    <3>1. AwaitedIsBusy' /\ rows \subseteq rows'
      BY <2>3 DEF BInv, AwaitedIsBusy
    <3> QED BY <2>1, <2>3, <3>1, OthersKeep
  <2> QED BY <2>1, <2>3, <2>4, ReceivingSteps
<1>4. CASE Others /\ OthersStep
  <2>1. IInv' /\ BInv' /\ OnlyPosts' /\ UNCHANGED <<sessionSeq, rows, online, chan>>
    BY <1>1, <1>4, OthersArrive DEF Others
  <2>2. Grows /\ sessionSeq' \in Nat /\ rows' \subseteq Row /\ UNCHANGED inVars
    BY <1>1, <1>4, <2>1 DEF Grows, IInv, StoreTypeOK, OthersStep
  <2> QED BY <2>1, <2>2, InboxWaits
<1>5. CASE Others /\ OthersConnect
  <2>1. PICK s \in Sockets \ {Cli} : Connect(s) \/ Disconnect(s) \/ Deliver(s)
    BY <1>5 DEF OthersConnect
  <2>2. IInv' /\ OnlyPosts' /\ UNCHANGED <<sessionSeq, rows, req>> /\ Grows
    BY <1>1, <2>1, SocketKeeps
  <2>3. BInv'
    <3>1. AwaitedIsBusy' /\ rows \subseteq rows' /\ UNCHANGED outVars
      BY <1>5, <2>2 DEF BInv, AwaitedIsBusy, Others
    <3> QED BY <2>2, <3>1, OthersKeep
  <2>4. Cli \notin online /\ chan[Cli] = <<>> => Cli \notin online' /\ chan'[Cli] = <<>>
    BY <2>1, CliAssumption DEF IInv, StoreTypeOK, Connect, Disconnect, Deliver
  <2>5. sessionSeq' \in Nat /\ rows' \subseteq Row /\ UNCHANGED inVars
    BY <1>5, <2>2 DEF IInv, StoreTypeOK, OthersConnect
  <2> QED BY <2>2, <2>3, <2>4, <2>5, InboxWaits
<1>6. CASE Others /\ InboxServer
  <2>1. /\ (\E h \in Handlers : ServerStep(h)) \/ Crash
        /\ UNCHANGED outVars /\ UNCHANGED inVars
    BY <1>6 DEF Others, InboxServer
  <2>2. /\ IInv' /\ BInv' /\ OnlyPosts' /\ Grows
        /\ Cli \notin online /\ chan[Cli] = <<>> => Cli \notin online' /\ chan'[Cli] = <<>>
    BY <1>1, <2>1, ServerGrows
  <2>3. sessionSeq' \in Nat /\ rows' \subseteq Row
    BY <2>2 DEF IInv, StoreTypeOK
  <2> QED BY <2>1, <2>2, <2>3, InboxWaits
<1>7. CASE Close
  <2>1. \/ \E s \in Sockets : Connect(s) \/ Disconnect(s) \/ Deliver(s)
        \/ UNCHANGED storeVars
    BY <1>7, CliAssumption DEF Close
  <2>2. IInv' /\ OnlyPosts' /\ UNCHANGED <<sessionSeq, rows, req>>
    BY <1>1, <2>1, SocketKeeps
  <2>3. BInv'
    BY <1>7, <2>2, CloseSendStep DEF Close
  <2>4. receiveSync' \in SyncState
    BY <1>7, SyncTypes DEF Close, SInv, InboxTypeOK
  <2>5. SInv'
    <3>1. started /\ UNCHANGED <<started, lastSeq, get, routed, startSeq>>
      BY <1>7 DEF Close
    <3> QED BY <2>2, <2>4, <3>1, FetchBegins
  <2> QED BY <2>2, <2>3, <2>5
<1>8. CASE UNCHANGED sessionVars
  <2>1. UNCHANGED storeVars /\ UNCHANGED outVars /\ UNCHANGED inVars
    BY <1>8 DEF sessionVars
  <2>2. IInv' /\ OnlyPosts' /\ UNCHANGED <<sessionSeq, rows, req>> /\ Grows
    BY <1>1, <2>1, SocketKeeps
  <2>3. BInv'
    <3>1. AwaitedIsBusy' /\ rows \subseteq rows'
      BY <2>2 DEF BInv, AwaitedIsBusy
    <3> QED BY <2>1, <2>2, <3>1, OthersKeep
  <2>4. online' = online /\ chan' = chan /\ sessionSeq' \in Nat /\ rows' \subseteq Row
    BY <2>1, <2>2 DEF storeVars, IInv, StoreTypeOK
  <2> QED BY <2>1, <2>2, <2>3, <2>4, InboxWaits
<1> QED BY <1>2, <1>3, <1>4, <1>5, <1>6, <1>7, <1>8 DEF SessionNext, Others

LEMMA SessionInitSInv == SessionInit => SInv
<1> SUFFICES ASSUME SessionInit PROVE SInv
  OBVIOUS
<1>1. OnlyPosts
  BY DEF SessionInit, StoreInit, OnlyPosts, Free
<1>2. InboxTypeOK
  <2>1. NewSync \in SyncState /\ NoGet \in GetState
    BY GetsHaveTypes DEF NewSync, SyncState
  <2>2. /\ started = FALSE /\ lastSeq = 0 /\ startSeq = 0 /\ receiveSync = NewSync
        /\ get = NoGet /\ routed = <<>> /\ <<>> \in Seq(Row)
    BY DEF SessionInit, InboxInit
  <2> QED BY <2>1, <2>2 DEF InboxTypeOK, GetState
<1>3. NotYetStarted
  BY CliAssumption DEF SessionInit, StoreInit, InboxInit, NotYetStarted, NoGet, NewSync
<1>4. CursorInBounds /\ PageIsWhole
  BY DEF SessionInit, StoreInit, InboxInit, CursorInBounds, PageIsWhole, NoGet
<1>5. RoutedIsStored /\ NothingSkipped /\ NewsInOrder
  BY DEF SessionInit, StoreInit, InboxInit, RoutedIsStored, NothingSkipped, NewsInOrder
<1> QED BY <1>1, <1>2, <1>3, <1>4, <1>5 DEF SInv

(* Without writers on the socket event, the invariants of the server and of*)
(* both halves of ApiSessionClient hold together.                          *)
THEOREM SessionInvariant ==
  ASSUME SocketIds = {}
  PROVE  SessionSpec => [](IInv /\ BInv /\ SInv)
<1>1. SessionInit => IInv /\ BInv /\ SInv
  BY InitIInv, OutboxInitBInv, SessionInitSInv DEF SessionInit
<1>2. IInv /\ BInv /\ SInv /\ [SessionNext]_sessionVars => IInv' /\ BInv' /\ SInv'
  BY SessionInductive
<1> QED BY <1>1, <1>2, PTL DEF SessionSpec

(* Every variable of the receiving half keeps its type.                    *)
THEOREM InboxTypeCorrect ==
  ASSUME SocketIds = {}
  PROVE  SessionSpec => []InboxTypeOK
<1>1. SInv => InboxTypeOK
  BY DEF SInv
<1> QED BY <1>1, SessionInvariant, PTL

(* The fast path of 'update' and the pages of fetchMessages move the cursor*)
(* past no message the client was not given, whatever interleaves with the *)
(* await of a page, however often the socket drops or the process dies.    *)
THEOREM CursorSkipsNothing ==
  ASSUME SocketIds = {}
  PROVE  SessionSpec => []NothingSkipped
<1>1. SInv => NothingSkipped
  BY DEF SInv
<1> QED BY <1>1, SessionInvariant, PTL

(* What is new to the agent comes in the order of the seqs: a page that was*)
(* overtaken by updates only repeats messages.                             *)
THEOREM NewsComesInOrder ==
  ASSUME SocketIds = {}
  PROVE  SessionSpec => []NewsInOrder
<1>1. SInv => NewsInOrder
  BY DEF SInv
<1> QED BY <1>1, SessionInvariant, PTL

(* The two halves together lose no message of the agent either, between    *)
(* other writers' and through close().                                     *)
THEOREM SessionLosesNothing ==
  ASSUME SocketIds = {}
  PROVE  SessionSpec => []NothingLost
<1>1. BInv => NothingLost
  BY DEF BInv
<1> QED BY <1>1, SessionInvariant, PTL

(* Every step of the session appends to the log at its end, or not at all. *)
LEMMA SessionAppendsAtEnd ==
  ASSUME SocketIds = {}, IInv, IInv', BInv, OnlyPosts, [SessionNext]_sessionVars
  PROVE  [Log!AppendAtEnd]_rows
<1>1. CASE Others /\ InboxServer
  <2>1. [StoreNext]_storeVars
    BY <1>1 DEF InboxServer, StoreNext
  <2> QED BY <2>1, StepAppendsAtEnd
<1>2. CASE started /\ SendStep
  BY <1>2, SendKeepsStore DEF SendStep
<1>3. CASE ReceiveStep
  <2>1. \/ \E s \in Sockets : Connect(s) \/ Disconnect(s) \/ Deliver(s)
        \/ UNCHANGED storeVars
    BY <1>3, CliAssumption DEF ReceiveStep, InboxStep, Start, CliConnect, CliDisconnect,
       UpdateNewMessage, GetServed, FetchContinues, FetchThrows, ReceiveRetry, ReceiveSettle
  <2> QED BY <2>1, SocketKeeps
<1>4. CASE Others /\ OthersStep
  BY <1>4, OthersArrive DEF Others
<1>5. CASE Others /\ OthersConnect
  <2>1. PICK s \in Sockets \ {Cli} : Connect(s) \/ Disconnect(s) \/ Deliver(s)
    BY <1>5 DEF OthersConnect
  <2> QED BY <2>1, SocketKeeps
<1>6. CASE Close
  <2>1. \/ \E s \in Sockets : Connect(s) \/ Disconnect(s) \/ Deliver(s)
        \/ UNCHANGED storeVars
    BY <1>6, CliAssumption DEF Close
  <2> QED BY <2>1, SocketKeeps
<1>7. CASE UNCHANGED sessionVars
  BY <1>7 DEF sessionVars, storeVars
<1> QED BY <1>1, <1>2, <1>3, <1>4, <1>5, <1>6, <1>7 DEF SessionNext, Others

(* With the agent and other writers on one server, every one of them over  *)
(* POST, the store is the log that fetchMessages relies on: what becomes   *)
(* visible is numbered beyond what is visible.                             *)
THEOREM SessionImplementsOrderedLog ==
  ASSUME SocketIds = {}
  PROVE  SessionSpec => ImplementsOrderedLog
<1>1. SessionInit => Log!Init
  BY DEF SessionInit, StoreInit, Log!Init
<1>2. IInv /\ IInv' /\ BInv /\ SInv /\ [SessionNext]_sessionVars => [Log!AppendAtEnd]_rows
  BY SessionAppendsAtEnd DEF SInv
<1> QED BY <1>1, <1>2, SessionInvariant, PTL
        DEF SessionSpec, ImplementsOrderedLog, Log!OrderedSpec

=============================================================================
