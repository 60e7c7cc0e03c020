-------------------------- MODULE AppOutbox_proof --------------------------
(***************************************************************************)
(* What the app sends is accounted for, whatever messages and attachments  *)
(* there are and however many: the invariants of AppOutbox, for every      *)
(* OwnIds, FileIds, Owner and Place.                                       *)
(***************************************************************************)
EXTENDS AppOutbox, SequenceTheorems, TLAPS

(* The loop of sendSync is never stopped, is at work exactly while it is   *)
(* invalidated, and awaits a POST exactly while its command runs.  The     *)
(* array a POST holds is the one in the Map unless it was aborted.         *)
LoopAndPost ==
    /\ ~sendSync.stopped
    /\ sendSync.invalidated <=> sendSync.phase # "idle"
    /\ post.phase # "none" <=> sendSync.phase = "running"
    /\ post.phase = "none" => ~post.aborted
    /\ post.phase # "none" =>
          post.array # 0 /\ post.batch # <<>> /\ (post.aborted <=> post.array # entry)

(* A POST that was not aborted carries the front of the outbox, so that    *)
(* cutting its length off the front cuts off what it carried.              *)
BatchIsFront ==
    post.phase # "none" /\ ~post.aborted =>
        /\ Len(post.batch) <= Len(Outbox)
        /\ \A i \in 1 .. Len(post.batch) : Outbox[i] = post.batch[i]

(* What a POST carried is stored once it is answered, and reported as      *)
(* failed once it is aborted.                                              *)
BatchIsSettled ==
    /\ post.phase \in {"stored", "answered"} => Range(post.batch) \subseteq stored
    /\ post.aborted => Range(post.batch) \subseteq failed

(* What the current run does not carry has asked for another run, or waits *)
(* for its text, which will.                                               *)
RestIsAskedFor ==
    sendSync.phase \in {"running", "settling"} /\ ~sendSync.double =>
        \A i \in 1 .. Len(Outbox) :
            \/ WaitsForText(Outbox[i])
            \/ post.phase # "none" /\ ~post.aborted /\ i <= Len(post.batch)

(* sendMessage holds an array for its attachments only until its text is   *)
(* pushed; the array has left the Map only with something in it settled.   *)
HeldIsMapped ==
    \A id \in OwnIds : held[id] # 0 =>
        id \notin typed /\ (held[id] # entry => failed \union stored # {})

IInv == /\ OutboxTypeOK /\ LoopAndPost /\ BatchIsFront /\ BatchIsSettled
        /\ RestIsAskedFor /\ HeldIsMapped /\ TypedIsAccountedFor

Watch == [armed : BOOLEAN, started : BOOLEAN, failing : BOOLEAN]
PostType(n) == [phase : {"none", "sending", "stored", "answered"}, batch : Seq(Items),
                array : 0 .. n, aborted : BOOLEAN]

-----------------------------------------------------------------------------
LEMMA RangeMembers ==
  ASSUME NEW q \in Seq(Items)
  PROVE  /\ Range(q) \subseteq Items
         /\ \A id : id \in Range(q) <=> \E i \in 1 .. Len(q) : q[i] = id
  BY DEF Range

LEMMA RangeAppend ==
  ASSUME NEW q \in Seq(Items), NEW id \in Items
  PROVE  /\ Append(q, id) \in Seq(Items)
         /\ Append(q, id) # <<>>
         /\ Range(Append(q, id)) = Range(q) \union {id}
<1> DEFINE r == Append(q, id)
<1>1. /\ r \in Seq(Items) /\ r # <<>> /\ Len(r) = Len(q) + 1
      /\ \A i \in 1 .. Len(q) : r[i] = q[i]
      /\ r[Len(q) + 1] = id
  BY AppendProperties
<1> HIDE DEF r
<1>2. \A x : x \in Range(r) <=> \E i \in 1 .. Len(r) : r[i] = x
  BY <1>1, RangeMembers
<1>3. \A x : x \in Range(q) <=> \E i \in 1 .. Len(q) : q[i] = x
  BY RangeMembers
<1>4. 1 .. Len(r) = (1 .. Len(q)) \union {Len(q) + 1}
  BY <1>1
<1>5. Range(r) = Range(q) \union {id}
  BY <1>1, <1>2, <1>3, <1>4
<1> QED BY <1>1, <1>5 DEF r

(* What is left of an outbox whose front is the batch: nothing but members *)
(* of the batch is gone.                                                   *)
LEMMA UnsentFacts ==
  ASSUME NEW box \in Seq(Items), NEW batch \in Seq(Items),
         Len(batch) <= Len(box),
         \A i \in 1 .. Len(batch) : box[i] = batch[i]
  PROVE  /\ Unsent(box, batch) \in Seq(Items)
         /\ \A i \in 1 .. Len(Unsent(box, batch)) :
               /\ Len(batch) + i \in 1 .. Len(box)
               /\ Unsent(box, batch)[i] = box[Len(batch) + i]
         /\ Unsent(box, batch) # <<>> => Len(batch) < Len(box)
         /\ Range(box) \subseteq Range(batch) \union Range(Unsent(box, batch))
<1> DEFINE m == Len(batch) + 1
           n == Len(box)
           rest == SubSeq(box, m, n)
<1>1. m \in Int /\ n \in Int /\ \A i \in m .. n : box[i] \in Items
  OBVIOUS
<1>2. /\ rest \in Seq(Items)
      /\ Len(rest) = IF m <= n THEN n - m + 1 ELSE 0
      /\ \A i \in 1 .. n - m + 1 : rest[i] = box[m + i - 1]
  BY <1>1, SubSeqProperties
<1> HIDE DEF rest
<1>3. rest # <<>> => Len(batch) < Len(box)
  BY <1>2, EmptySeq
<1>4. ASSUME NEW id \in Range(box)  PROVE id \in Range(batch) \union Range(rest)
  <2>1. PICK i \in 1 .. Len(box) : box[i] = id
    BY RangeMembers
  <2>2. CASE i <= Len(batch)
    BY <2>1, <2>2, RangeMembers
  <2>3. CASE i > Len(batch)
    <3>1. i - Len(batch) \in 1 .. n - m + 1 /\ m + (i - Len(batch)) - 1 = i
      BY <2>1, <2>3
    <3>2. rest[i - Len(batch)] = id /\ i - Len(batch) \in 1 .. Len(rest)
      BY <1>2, <2>1, <2>3, <3>1
    <3> QED BY <1>2, <3>2, RangeMembers
  <2> QED BY <2>1, <2>2, <2>3
<1>5. Unsent(box, batch) = rest
  BY DEF Unsent, rest
<1> QED BY <1>2, <1>3, <1>4, <1>5

(* The array of the Map is one of those made.                              *)
LEMMA OutboxIsArray ==
  ASSUME OutboxTypeOK
  PROVE  /\ Outbox \in Seq(Items)
         /\ Outbox # <<>> => entry \in 1 .. Len(arrays) /\ Outbox = arrays[entry]
<1> USE DEF OutboxTypeOK, Outbox
<1>1. CASE entry = 0
  BY <1>1, EmptySeq
<1>2. CASE entry # 0
  BY <1>2
<1> QED BY <1>1, <1>2

LEMMA NonEmptyRange ==
  ASSUME NEW q \in Seq(Items), q # <<>>
  PROVE  Range(q) # {}
<1>1. Len(q) \in Nat /\ Len(q) # 0
  BY EmptySeq
<1>2. q[1] \in Range(q)
  BY <1>1, RangeMembers
<1> QED BY <1>2

(* What sendMessage finds or makes in the Map holds what it held before.   *)
LEMMA EnsuredFacts ==
  ASSUME OutboxTypeOK
  PROVE  /\ EnsuredArrays \in Seq(Seq(Items))
         /\ EnsuredEntry \in 1 .. Len(EnsuredArrays)
         /\ EnsuredArrays[EnsuredEntry] = Outbox
         /\ Len(EnsuredArrays) >= Len(arrays)
         /\ EnsuredEntry = entry \/ (entry = 0 /\ EnsuredEntry = Len(arrays) + 1)
<1> USE DEF OutboxTypeOK, Outbox, EnsuredArrays, EnsuredEntry
<1>1. CASE entry = 0
  <2>1. <<>> \in Seq(Items)
    BY EmptySeq
  <2>2. /\ Append(arrays, <<>>) \in Seq(Seq(Items))
        /\ Len(Append(arrays, <<>>)) = Len(arrays) + 1
        /\ Append(arrays, <<>>)[Len(arrays) + 1] = <<>>
    BY <2>1, AppendProperties
  <2>3. Len(arrays) \in Nat
    BY LenProperties
  <2> QED BY <1>1, <2>2, <2>3
<1>2. CASE entry # 0
  BY <1>2, LenProperties
<1> QED BY <1>1, <1>2

(* flushOutbox, in a run that has just begun, with everything that is to be*)
(* sent.                                                                   *)
LEMMA FlushFacts ==
  ASSUME NEW STATE s, s \in SyncState, s.phase = "running", s.invalidated, ~s.stopped,
         NEW STATE w, w \in Watch,
         arrays' \in Seq(Seq(Items)), entry' \in 0 .. Len(arrays'), Outbox' \in Seq(Items),
         Flush(s, entry', Outbox', w)
  PROVE  /\ sendSync' \in SyncState /\ post' \in PostType(Len(arrays')) /\ watch' \in Watch
         /\ sendSync'.phase # "idle"
         /\ LoopAndPost' /\ BatchIsFront' /\ BatchIsSettled' /\ RestIsAskedFor'
<1> Len(arrays') \in Nat
  BY LenProperties
<1>1. CASE Outbox' = <<>>
  <2>1. post' = NoPost /\ sendSync' = [s EXCEPT !.phase = "settling"]
        /\ watch' = [w EXCEPT !.armed = FALSE, !.started = FALSE]
    BY <1>1 DEF Flush, CommandReturned
  <2>2. Len(Outbox') = 0 /\ <<>> \in Seq(Items)
    BY <1>1, EmptySeq
  <2>3. sendSync' \in SyncState /\ sendSync'.phase = "settling" /\ watch' \in Watch
        /\ sendSync'.invalidated /\ ~sendSync'.stopped
    BY <2>1 DEF SyncState, Watch
  <2>4. post' \in PostType(Len(arrays')) /\ post'.phase = "none" /\ ~post'.aborted
    BY <2>1, <2>2 DEF PostType, NoPost
  <2>5. LoopAndPost' /\ BatchIsFront' /\ BatchIsSettled' /\ RestIsAskedFor'
    BY <2>2, <2>3, <2>4 DEF LoopAndPost, BatchIsFront, BatchIsSettled, RestIsAskedFor
  <2> QED BY <2>3, <2>4, <2>5
<1>2. CASE Outbox' # <<>>
  <2>1. /\ post' = [phase |-> "sending", batch |-> Outbox', array |-> entry', aborted |-> FALSE]
        /\ sendSync' = s /\ watch' = w
    BY <1>2 DEF Flush
  <2>2. Len(Outbox') \in Nat /\ entry' # 0
    BY <1>2, LenProperties DEF Outbox
  <2>3. post' \in PostType(Len(arrays'))
    BY <2>1 DEF PostType
  <2>4. LoopAndPost' /\ BatchIsFront' /\ BatchIsSettled'
    BY <1>2, <2>1, <2>2 DEF LoopAndPost, BatchIsFront, BatchIsSettled
  <2>5. RestIsAskedFor'
    BY <2>1, <2>2 DEF RestIsAskedFor
  <2> QED BY <2>1, <2>3, <2>4, <2>5
<1> QED BY <1>1, <1>2

LEMMA WatchFacts ==
  ASSUME OutboxTypeOK
  PROVE  /\ watch \in Watch /\ Cleared \in Watch
         /\ \A away, pending \in BOOLEAN : Watching(away, pending) \in Watch
         /\ HasPending \in BOOLEAN
  BY DEF OutboxTypeOK, Watching, Cleared, Watch, HasPending

(* invalidate(): a new run that carries everything, or one more asked for. *)
LEMMA InvalidateFacts ==
  ASSUME IInv, NEW STATE w, w \in Watch,
         arrays' \in Seq(Seq(Items)), Len(arrays') >= Len(arrays), entry' \in 0 .. Len(arrays'),
         Outbox' \in Seq(Items), Len(Outbox') >= Len(Outbox),
         \A i \in 1 .. Len(Outbox) : Outbox'[i] = Outbox[i],
         entry' = entry \/ (entry = 0 /\ entry' = Len(arrays) + 1),
         stored' = stored, failed' = failed,
         InvalidateSend(entry', Outbox', w)
  PROVE  /\ sendSync' \in SyncState /\ post' \in PostType(Len(arrays')) /\ watch' \in Watch
         /\ sendSync'.phase # "idle"
         /\ LoopAndPost' /\ BatchIsFront' /\ BatchIsSettled' /\ RestIsAskedFor'
<1> USE DEF IInv, OutboxTypeOK
<1>1. CASE Starts(sendSync)
  <2> DEFINE s == Invalidated(sendSync)
  <2>1. s \in SyncState /\ s.phase = "running" /\ s.invalidated /\ ~s.stopped
    BY <1>1 DEF Invalidated, Starts, SyncState, LoopAndPost
  <2>2. Flush(s, entry', Outbox', w)
    BY <1>1 DEF InvalidateSend
  <2> HIDE DEF s
  <2> QED BY <2>1, <2>2, FlushFacts
<1>2. CASE ~Starts(sendSync)
  <2>1. sendSync' = [sendSync EXCEPT !.double = TRUE] /\ post' = post /\ watch' = w
    BY <1>2 DEF InvalidateSend, Invalidated, Starts, LoopAndPost
  <2>2. sendSync.phase # "idle"
    BY <1>2 DEF Starts, LoopAndPost
  <2>3. /\ sendSync' \in SyncState /\ sendSync'.phase = sendSync.phase /\ sendSync'.double
        /\ sendSync'.stopped = sendSync.stopped /\ sendSync'.invalidated = sendSync.invalidated
    BY <2>1 DEF SyncState
  <2>4. Len(arrays) \in Nat /\ Len(arrays') \in Nat /\ Len(Outbox) \in Nat
        /\ Len(Outbox') \in Nat /\ Len(post.batch) \in Nat
    BY LenProperties, OutboxIsArray
  <2>5. post.phase # "none" => (post.array # entry <=> post.array # entry')
    BY <2>4 DEF LoopAndPost
  <2>6. LoopAndPost' /\ BatchIsSettled' /\ RestIsAskedFor'
    BY <2>1, <2>3, <2>5 DEF LoopAndPost, BatchIsSettled, RestIsAskedFor
  <2>7. BatchIsFront'
    BY <2>1, <2>4 DEF BatchIsFront
  <2>8. post' \in PostType(Len(arrays'))
    BY <2>1, <2>4 DEF PostType
  <2> QED BY <2>1, <2>2, <2>3, <2>6, <2>7, <2>8
<1> QED BY <1>1, <1>2

-----------------------------------------------------------------------------
LEMMA InitIInv == OutboxInit => IInv
<1> SUFFICES ASSUME OutboxInit  PROVE IInv
  OBVIOUS
<1>1. <<>> \in Seq(Items) /\ <<>> \in Seq(Seq(Items)) /\ Len(<<>>) = 0
  BY EmptySeq
<1>2. Outbox = <<>> /\ Len(Outbox) = 0 /\ Range(Outbox) = {}
  BY <1>1 DEF OutboxInit, Outbox, Range
<1>3. OutboxTypeOK
  <2>1. arrays = <<>> /\ entry = 0 /\ held = [id \in OwnIds |-> 0] /\ sendSync = NewSync
        /\ post = NoPost /\ watch = NoWatch
    BY DEF OutboxInit
  <2>2. held \in [OwnIds -> 0 .. Len(arrays)] /\ entry \in 0 .. Len(arrays)
    BY <1>1, <2>1
  <2>3. sendSync \in SyncState
    BY <2>1 DEF NewSync, SyncState
  <2>4. post \in [phase : {"none", "sending", "stored", "answered"}, batch : Seq(Items),
                 array : 0 .. Len(arrays), aborted : BOOLEAN]
    BY <1>1, <2>1 DEF NoPost
  <2>5. watch \in [armed : BOOLEAN, started : BOOLEAN, failing : BOOLEAN]
    BY <2>1 DEF NoWatch
  <2> QED BY <1>1, <1>2, <2>1, <2>2, <2>3, <2>4, <2>5 DEF OutboxInit, OutboxTypeOK
<1>4. LoopAndPost /\ BatchIsFront /\ BatchIsSettled /\ RestIsAskedFor /\ HeldIsMapped
  BY <1>1, <1>2 DEF OutboxInit, LoopAndPost, BatchIsFront, BatchIsSettled, RestIsAskedFor,
                    HeldIsMapped, NewSync, NoPost
<1>5. TypedIsAccountedFor
  BY DEF OutboxInit, TypedIsAccountedFor
<1> QED BY <1>3, <1>4, <1>5 DEF IInv

LEMMA EmptyRange ==
  /\ <<>> \in Seq(Items) /\ Len(<<>>) = 0 /\ Range(<<>>) = {}
<1>1. <<>> \in Seq(Items) /\ Len(<<>>) = 0
  BY EmptySeq
<1>2. \A id : id \in Range(<<>>) <=> \E i \in 1 .. Len(<<>>) : <<>>[i] = id
  BY <1>1, RangeMembers
<1>3. 1 .. Len(<<>>) = {}
  BY <1>1
<1> QED BY <1>1, <1>2, <1>3

(* A POST's batch lies in the outbox whose front it is.                    *)
LEMMA FrontRange ==
  ASSUME NEW box \in Seq(Items), NEW batch \in Seq(Items),
         Len(batch) <= Len(box),
         \A i \in 1 .. Len(batch) : box[i] = batch[i]
  PROVE  Range(batch) \subseteq Range(box)
<1> SUFFICES ASSUME NEW id \in Range(batch)  PROVE id \in Range(box)
  OBVIOUS
<1>1. PICK i \in 1 .. Len(batch) : batch[i] = id
  BY RangeMembers
<1>2. i \in 1 .. Len(box) /\ box[i] = id
  BY <1>1, LenProperties
<1> QED BY <1>2, RangeMembers

LEMMA UnsentType ==
  ASSUME NEW box \in Seq(Items), NEW batch \in Seq(Items)
  PROVE  Unsent(box, batch) \in Seq(Items)
<1> DEFINE m == Len(batch) + 1
           n == Len(box)
<1>1. m \in Int /\ n \in Int /\ \A i \in m .. n : box[i] \in Items
  OBVIOUS
<1>2. SubSeq(box, m, n) \in Seq(Items)
  BY <1>1, SubSeqProperties
<1> QED BY <1>2 DEF Unsent

(* Nothing that waits for its text stops waiting but by that text.         *)
LEMMA WaitsOn ==
  ASSUME typed' \subseteq typed \union FileIds
  PROVE  \A id : WaitsForText(id) => id \in FileIds /\ Owner[id] \notin typed'
  BY FilesAssumption DEF WaitsForText

(* failPendingOutboxMessages: what it drops it reports.                    *)
LEMMA FailFacts ==
  ASSUME IInv, FailPending, UNCHANGED <<held, sendSync, stored, typed, dropped>>
  PROVE  /\ arrays' \in Seq(Seq(Items)) /\ Len(arrays') = Len(arrays)
         /\ entry' \in 0 .. Len(arrays') /\ Range(Outbox') = {}
         /\ failed' \subseteq Items /\ post' \in PostType(Len(arrays'))
         /\ LoopAndPost' /\ BatchIsFront' /\ BatchIsSettled' /\ RestIsAskedFor'
         /\ HeldIsMapped' /\ TypedIsAccountedFor'
<1> USE DEF IInv, OutboxTypeOK
<1>1. Outbox \in Seq(Items) /\ Len(Outbox) \in Nat /\ Len(arrays) \in Nat
      /\ (Outbox # <<>> => entry \in 1 .. Len(arrays)) /\ <<>> \in Seq(Items)
  BY OutboxIsArray, LenProperties, EmptySeq
<1>2. /\ arrays' \in Seq(Seq(Items)) /\ Len(arrays') = Len(arrays)
      /\ entry' \in {0, entry} /\ Outbox' = <<>>
      /\ (Outbox # <<>> => entry' = 0) /\ (Outbox = <<>> => entry' = entry)
      /\ failed' = failed \union Range(Outbox)
  <2>1. CASE Outbox = <<>>
    BY <2>1 DEF FailPending, Outbox
  <2>2. CASE Outbox # <<>>
    <3>1. arrays' = [arrays EXCEPT ![entry] = <<>>] /\ entry' = 0
      BY <2>2 DEF FailPending
    <3>2. arrays' \in Seq(Seq(Items)) /\ Len(arrays') = Len(arrays)
      BY <1>1, <2>2, <3>1, ExceptSeq
    <3> QED BY <3>1, <3>2 DEF FailPending, Outbox
  <2> QED BY <2>1, <2>2
<1>3. /\ Range(Outbox') = {} /\ Len(Outbox') = 0 /\ failed' \subseteq Items
      /\ Range(Outbox) \subseteq failed'
      /\ (Outbox # <<>> => failed' # {})
  BY <1>1, <1>2, EmptyRange, RangeMembers, NonEmptyRange
<1>4. /\ post'.phase = post.phase /\ post'.batch = post.batch /\ post'.array = post.array
      /\ post'.aborted = (post.phase # "none")
      /\ post' \in PostType(Len(arrays'))
  <2>1. CASE post.phase = "none"
    BY <1>2, <2>1 DEF FailPending, LoopAndPost, PostType
  <2>2. CASE post.phase # "none"
    <3>1. post' = [post EXCEPT !.aborted = TRUE]
      BY <2>2 DEF FailPending
    <3> QED BY <1>2, <2>2, <3>1 DEF PostType
  <2> QED BY <2>1, <2>2
<1>5. post.phase # "none" /\ ~post.aborted => /\ Outbox # <<>>
                                              /\ Range(post.batch) \subseteq Range(Outbox)
  <2> SUFFICES ASSUME post.phase # "none", ~post.aborted
               PROVE  Outbox # <<>> /\ Range(post.batch) \subseteq Range(Outbox)
    OBVIOUS
  <2>1. Range(post.batch) \subseteq Range(Outbox)
    BY <1>1, FrontRange DEF BatchIsFront
  <2>2. Len(post.batch) \in Nat /\ Len(post.batch) # 0
    BY LenProperties, EmptySeq DEF LoopAndPost
  <2>3. Len(Outbox) # 0
    BY <1>1, <2>2 DEF BatchIsFront
  <2> QED BY <2>1, <2>3, EmptySeq
<1>6. LoopAndPost' /\ BatchIsFront' /\ BatchIsSettled' /\ RestIsAskedFor'
  <2>1. LoopAndPost'
    BY <1>2, <1>4, <1>5 DEF LoopAndPost
  <2>2. BatchIsFront'
    BY <1>4 DEF BatchIsFront
  <2>3. BatchIsSettled'
    BY <1>2, <1>3, <1>4, <1>5 DEF BatchIsSettled
  <2>4. RestIsAskedFor'
    BY <1>3 DEF RestIsAskedFor
  <2> QED BY <2>1, <2>2, <2>3, <2>4
<1>7. HeldIsMapped'
  BY <1>2, <1>3 DEF HeldIsMapped
<1>8. TypedIsAccountedFor'
  BY <1>2, <1>3 DEF TypedIsAccountedFor
<1> QED BY <1>2, <1>3, <1>4, <1>6, <1>7, <1>8

-----------------------------------------------------------------------------
(* flushOutbox after the answer: with the array of the Map what remains is *)
(* what the POST did not carry; with another one the POST was aborted.     *)
LEMMA PostOkStep == IInv /\ PostOk => IInv'
<1> SUFFICES ASSUME IInv, PostOk  PROVE IInv'
  OBVIOUS
<1> USE DEF IInv, OutboxTypeOK
<1> DEFINE box == arrays[post.array]
           rest == Unsent(box, post.batch)
<1>1. /\ post.phase = "answered" /\ post' = NoPost
      /\ arrays' = [arrays EXCEPT ![post.array] = rest]
      /\ entry' = (IF rest = <<>> THEN 0 ELSE entry)
      /\ dropped' = (IF rest = <<>> /\ entry # post.array
                     THEN dropped \union Range(Outbox) ELSE dropped)
      /\ sendSync' = [sendSync EXCEPT !.phase = "settling"]
      /\ watch' \in {Cleared, Watching(background, TRUE)}
      /\ UNCHANGED <<stored, late, held, background, typed, failed>>
  BY DEF PostOk, CommandReturned, serverVars
<1>2. /\ post.array \in 1 .. Len(arrays) /\ Len(arrays) \in Nat /\ post.batch \in Seq(Items)
      /\ box \in Seq(Items) /\ Outbox \in Seq(Items) /\ <<>> \in Seq(Items)
      /\ Len(post.batch) \in Nat /\ Len(Outbox) \in Nat
  BY <1>1, OutboxIsArray, LenProperties, EmptySeq DEF LoopAndPost
<1>3. rest \in Seq(Items)
  BY <1>2, UnsentType
<1> HIDE DEF rest
<1>4. /\ arrays' \in Seq(Seq(Items)) /\ Len(arrays') = Len(arrays)
      /\ arrays'[post.array] = rest
      /\ \A i \in 1 .. Len(arrays) : i # post.array => arrays'[i] = arrays[i]
  BY <1>1, <1>2, <1>3, ExceptSeq
<1>5. entry' \in 0 .. Len(arrays') /\ watch' \in Watch
  <2>1. Cleared \in Watch /\ Watching(background, TRUE) \in Watch
    BY WatchFacts
  <2>2. entry' \in 0 .. Len(arrays')
    BY <1>1, <1>2, <1>4
  <2>3. watch' \in Watch
    BY <1>1, <2>1
  <2> QED BY <2>2, <2>3
<1>6. post' \in PostType(Len(arrays')) /\ post'.phase = "none" /\ ~post'.aborted
  BY <1>1, <1>2, <1>4 DEF NoPost, PostType
<1>7. /\ sendSync' \in SyncState /\ sendSync'.phase = "settling"
      /\ sendSync'.double = sendSync.double /\ sendSync'.invalidated /\ ~sendSync'.stopped
  BY <1>1 DEF SyncState, LoopAndPost
<1>8. Range(post.batch) \subseteq stored /\ Range(post.batch) # {}
  BY <1>1, <1>2, NonEmptyRange DEF LoopAndPost, BatchIsSettled
<1>9. LoopAndPost' /\ BatchIsFront' /\ BatchIsSettled'
  BY <1>6, <1>7 DEF LoopAndPost, BatchIsFront, BatchIsSettled
<1>10. HeldIsMapped'
  BY <1>1, <1>8 DEF HeldIsMapped
<1>11. \A id : WaitsForText(id) => id \in FileIds /\ Owner[id] \notin typed'
  BY <1>1, WaitsOn
<1>12. CASE ~post.aborted
  <2>1. post.array = entry /\ box = Outbox /\ entry # 0
    BY <1>1, <1>2, <1>12 DEF LoopAndPost, Outbox
  <2>2. /\ \A i \in 1 .. Len(rest) : /\ Len(post.batch) + i \in 1 .. Len(Outbox)
                                     /\ rest[i] = Outbox[Len(post.batch) + i]
        /\ Range(Outbox) \subseteq Range(post.batch) \union Range(rest)
    <3>1. rest = Unsent(Outbox, post.batch)
      BY <2>1 DEF rest
    <3>2. /\ Len(post.batch) <= Len(Outbox)
          /\ \A i \in 1 .. Len(post.batch) : Outbox[i] = post.batch[i]
      BY <1>1, <1>12 DEF BatchIsFront
    <3> HIDE DEF box, IInv, OutboxTypeOK
    <3> QED BY <1>2, <3>1, <3>2, UnsentFacts
  <2>3. Outbox' = rest
    BY <1>1, <1>4, <2>1 DEF Outbox
  <2>4. RestIsAskedFor'
    <3> SUFFICES ASSUME ~sendSync.double, NEW i \in 1 .. Len(Outbox')
                 PROVE  WaitsForText(Outbox[i])'
      BY <1>7 DEF RestIsAskedFor
    <3>1. /\ Len(post.batch) + i \in 1 .. Len(Outbox)
          /\ Outbox'[i] = Outbox[Len(post.batch) + i]
      BY <2>2, <2>3
    <3>2. ~(Len(post.batch) + i <= Len(post.batch))
      BY <1>2
    <3>3. WaitsForText(Outbox[Len(post.batch) + i])
      BY <1>1, <3>1, <3>2 DEF RestIsAskedFor, LoopAndPost
    <3> QED BY <1>11, <3>1, <3>3 DEF WaitsForText
  <2>5. TypedIsAccountedFor' /\ dropped' \subseteq Items
    BY <1>1, <1>8, <2>1, <2>2, <2>3 DEF TypedIsAccountedFor
  <2> QED BY <1>1, <1>3, <1>4, <1>5, <1>6, <1>7, <1>9, <1>10, <2>3, <2>4, <2>5
          DEF Watch, PostType
<1>13. CASE post.aborted
  <2>1. entry # post.array /\ Range(post.batch) \subseteq failed \cap stored
        /\ failed \cap stored # {}
    BY <1>1, <1>8, <1>13 DEF LoopAndPost, BatchIsSettled
  <2>2. Outbox' = IF rest = <<>> THEN <<>> ELSE Outbox
    BY <1>1, <1>4, <2>1 DEF Outbox
  <2>3. Range(Outbox) \subseteq Items /\ Len(<<>>) = 0
    BY <1>2, RangeMembers, EmptySeq
  <2>4. RestIsAskedFor'
    <3> SUFFICES ASSUME ~sendSync.double, NEW i \in 1 .. Len(Outbox'), Outbox' = Outbox
                 PROVE  WaitsForText(Outbox[i])'
      BY <1>7, <2>2, EmptyRange DEF RestIsAskedFor
    <3>1. WaitsForText(Outbox[i])
      BY <1>1, <1>13 DEF RestIsAskedFor, LoopAndPost
    <3> QED BY <1>11, <3>1 DEF WaitsForText
  <2>5. TypedIsAccountedFor' /\ dropped' \subseteq Items
    BY <1>1, <2>1, <2>2, <2>3 DEF TypedIsAccountedFor
  <2> QED BY <1>1, <1>2, <1>4, <1>5, <1>6, <1>7, <1>9, <1>10, <2>2, <2>4, <2>5
          DEF Watch, PostType
<1> QED BY <1>12, <1>13

(* A step that leaves the arrays alone leaves the outbox alone.            *)
LEMMA SameOutbox ==
  ASSUME UNCHANGED <<arrays, entry>>
  PROVE  Outbox' = Outbox
  BY DEF Outbox

(* Such a step, with the same POST, loop and messages, keeps the invariant.*)
LEMMA QuietStep ==
  ASSUME IInv,
         UNCHANGED <<late, arrays, entry, held, sendSync, typed, failed, dropped>>,
         stored \subseteq stored', stored' \subseteq Items,
         post' \in PostType(Len(arrays)),
         post'.batch = post.batch, post'.array = post.array, post'.aborted = post.aborted,
         post'.phase # "none" <=> post.phase # "none",
         post'.phase \in {"stored", "answered"} => Range(post.batch) \subseteq stored',
         background' \in BOOLEAN, watch' \in Watch
  PROVE  IInv'
<1> USE DEF IInv
<1>1. Outbox' = Outbox
  BY SameOutbox
<1>2. OutboxTypeOK'
  BY <1>1 DEF OutboxTypeOK, PostType, Watch, WaitsForText
<1>3. LoopAndPost' /\ BatchIsFront' /\ BatchIsSettled'
  BY <1>1 DEF LoopAndPost, BatchIsFront, BatchIsSettled
<1>4. RestIsAskedFor'
  BY <1>1 DEF RestIsAskedFor, WaitsForText
<1>5. HeldIsMapped'
  BY DEF HeldIsMapped
<1>6. TypedIsAccountedFor'
  BY <1>1 DEF TypedIsAccountedFor
<1> QED BY <1>2, <1>3, <1>4, <1>5, <1>6

(* A step of the loop that only starts the command.                        *)
LEMMA LoopStep ==
  ASSUME IInv,
         UNCHANGED <<stored, late, arrays, entry, held, background, typed, failed, dropped>>,
         sendSync' \in SyncState, post' \in PostType(Len(arrays')), watch' \in Watch,
         sendSync'.phase # "idle",
         LoopAndPost', BatchIsFront', BatchIsSettled', RestIsAskedFor'
  PROVE  IInv'
<1> USE DEF IInv
<1>1. Outbox' = Outbox
  BY SameOutbox
<1>2. OutboxTypeOK'
  BY <1>1 DEF OutboxTypeOK, PostType, Watch
<1>3. HeldIsMapped'
  BY DEF HeldIsMapped
<1>4. TypedIsAccountedFor'
  BY <1>1 DEF TypedIsAccountedFor
<1> QED BY <1>2, <1>3, <1>4

LEMMA HeapIsSame ==
  ASSUME IInv, UNCHANGED <<arrays, entry>>
  PROVE  /\ arrays' \in Seq(Seq(Items)) /\ Len(arrays') >= Len(arrays)
         /\ entry' \in 0 .. Len(arrays') /\ Outbox' = Outbox
         /\ Outbox' \in Seq(Items) /\ Len(Outbox') >= Len(Outbox)
<1>1. Outbox' = Outbox /\ Outbox \in Seq(Items)
  BY SameOutbox, OutboxIsArray DEF IInv
<1>2. Len(Outbox) \in Nat /\ Len(arrays) \in Nat
  BY <1>1, LenProperties DEF IInv, OutboxTypeOK
<1> QED BY <1>1, <1>2 DEF IInv, OutboxTypeOK

LEMMA SendStep ==
  ASSUME IInv, NEW id \in OwnIds, SendMessage(id)
  PROVE  IInv'
<1> USE DEF IInv
<1> DEFINE box == EnsuredArrays[EnsuredEntry]
<1>1. /\ id \notin typed /\ typed' = typed \union {id}
      /\ arrays' = [EnsuredArrays EXCEPT ![EnsuredEntry] = Append(box, id)]
      /\ entry' = EnsuredEntry /\ held' = [held EXCEPT ![id] = 0]
      /\ InvalidateSend(entry', Outbox', Watching(background, TRUE))
      /\ UNCHANGED <<stored, late, background, failed, dropped>>
  BY DEF SendMessage, serverVars
<1>2. /\ EnsuredArrays \in Seq(Seq(Items)) /\ EnsuredEntry \in 1 .. Len(EnsuredArrays)
      /\ box = Outbox /\ Len(EnsuredArrays) >= Len(arrays)
      /\ EnsuredEntry = entry \/ (entry = 0 /\ EnsuredEntry = Len(arrays) + 1)
      /\ Outbox \in Seq(Items) /\ Len(arrays) \in Nat /\ Len(EnsuredArrays) \in Nat
      /\ Len(Outbox) \in Nat
  <2>1. Outbox \in Seq(Items)
    BY OutboxIsArray
  <2>2. EnsuredArrays \in Seq(Seq(Items))
    BY EnsuredFacts
  <2> QED BY <2>1, <2>2, EnsuredFacts, LenProperties DEF OutboxTypeOK
<1> HIDE DEF box
<1>3. /\ Append(Outbox, id) \in Seq(Items) /\ Append(Outbox, id) # <<>>
      /\ Range(Append(Outbox, id)) = Range(Outbox) \union {id}
      /\ Len(Append(Outbox, id)) = Len(Outbox) + 1
      /\ \A i \in 1 .. Len(Outbox) : Append(Outbox, id)[i] = Outbox[i]
  <2>1. id \in Items
    BY DEF Items
  <2> QED BY <1>2, <2>1, RangeAppend, AppendProperties
<1>4. /\ arrays' \in Seq(Seq(Items)) /\ Len(arrays') = Len(EnsuredArrays)
      /\ arrays'[EnsuredEntry] = Append(Outbox, id)
  BY <1>1, <1>2, <1>3, ExceptSeq
<1>5. entry' \in 1 .. Len(arrays') /\ Outbox' = Append(Outbox, id)
  BY <1>1, <1>2, <1>4 DEF Outbox
<1>6. Watching(background, TRUE) \in Watch
  BY WatchFacts DEF OutboxTypeOK
<1>7. /\ sendSync' \in SyncState /\ post' \in PostType(Len(arrays')) /\ watch' \in Watch
      /\ sendSync'.phase # "idle"
      /\ LoopAndPost' /\ BatchIsFront' /\ BatchIsSettled' /\ RestIsAskedFor'
  <2> DEFINE w == Watching(background, TRUE)
  <2>1. InvalidateSend(entry', Outbox', w)
    BY <1>1
  <2>2. /\ Len(arrays') >= Len(arrays) /\ entry' \in 0 .. Len(arrays')
        /\ Len(Outbox') >= Len(Outbox) /\ Outbox' \in Seq(Items)
        /\ \A i \in 1 .. Len(Outbox) : Outbox'[i] = Outbox[i]
        /\ entry' = entry \/ (entry = 0 /\ entry' = Len(arrays) + 1)
    BY <1>1, <1>2, <1>3, <1>4, <1>5
  <2>3. w \in Watch
    BY <1>6
  <2> HIDE DEF w
  <2> QED BY <1>1, <1>4, <2>1, <2>2, <2>3, InvalidateFacts
<1>8. held' \in [OwnIds -> 0 .. Len(arrays')]
  BY <1>1, <1>2, <1>4 DEF OutboxTypeOK
<1>9. OutboxTypeOK'
  BY <1>1, <1>4, <1>5, <1>7, <1>8 DEF OutboxTypeOK, PostType, Watch, Items
<1>10. HeldIsMapped'
  BY <1>1, <1>2 DEF HeldIsMapped, OutboxTypeOK
<1>11. TypedIsAccountedFor'
  BY <1>1, <1>3, <1>5 DEF TypedIsAccountedFor
<1> QED BY <1>7, <1>9, <1>10, <1>11

LEMMA BeginStep ==
  ASSUME IInv, NEW id \in OwnIds, BeginAttachments(id)
  PROVE  IInv'
<1> USE DEF IInv
<1>1. /\ id \notin typed /\ arrays' = EnsuredArrays /\ entry' = EnsuredEntry
      /\ held' = [held EXCEPT ![id] = EnsuredEntry]
      /\ UNCHANGED <<stored, late, sendSync, post, background, watch, typed, failed, dropped>>
  BY DEF BeginAttachments, serverVars
<1>2. /\ EnsuredArrays \in Seq(Seq(Items)) /\ EnsuredEntry \in 1 .. Len(EnsuredArrays)
      /\ EnsuredArrays[EnsuredEntry] = Outbox /\ Len(EnsuredArrays) >= Len(arrays)
      /\ EnsuredEntry = entry \/ (entry = 0 /\ EnsuredEntry = Len(arrays) + 1)
      /\ Len(arrays) \in Nat /\ Len(EnsuredArrays) \in Nat
  <2>1. EnsuredArrays \in Seq(Seq(Items))
    BY EnsuredFacts
  <2> QED BY <2>1, EnsuredFacts, LenProperties DEF OutboxTypeOK
<1>3. Outbox' = Outbox
  BY <1>1, <1>2 DEF Outbox
<1>4. held' \in [OwnIds -> 0 .. Len(arrays')] /\ entry' \in 0 .. Len(arrays')
  BY <1>1, <1>2 DEF OutboxTypeOK
<1>5. post' \in PostType(Len(arrays'))
  BY <1>1, <1>2 DEF OutboxTypeOK, PostType
<1>6. OutboxTypeOK'
  BY <1>1, <1>2, <1>3, <1>4, <1>5 DEF OutboxTypeOK, PostType, WaitsForText
<1>7. LoopAndPost'
  BY <1>1, <1>2 DEF LoopAndPost, OutboxTypeOK
<1>8. BatchIsFront' /\ BatchIsSettled'
  BY <1>1, <1>3 DEF BatchIsFront, BatchIsSettled
<1>9. RestIsAskedFor'
  BY <1>1, <1>3 DEF RestIsAskedFor, WaitsForText
<1>10. HeldIsMapped'
  BY <1>1, <1>2 DEF HeldIsMapped, OutboxTypeOK
<1>11. TypedIsAccountedFor'
  BY <1>1, <1>3 DEF TypedIsAccountedFor
<1> QED BY <1>6, <1>7, <1>8, <1>9, <1>10, <1>11

LEMMA PushStep ==
  ASSUME IInv, NEW f \in FileIds, PushFile(f)
  PROVE  IInv'
<1> USE DEF IInv
<1> DEFINE array == held[Owner[f]]
<1>1. /\ array # 0 /\ f \notin typed /\ typed' = typed \union {f}
      /\ arrays' = [arrays EXCEPT ![array] = Append(arrays[array], f)]
      /\ dropped' = (IF array = entry THEN dropped ELSE dropped \union {f})
      /\ UNCHANGED <<stored, late, entry, held, sendSync, post, background, watch, failed>>
  BY DEF PushFile, serverVars
<1>2. /\ Owner[f] \in OwnIds /\ f \in Items /\ f \notin OwnIds
      /\ array \in 1 .. Len(arrays) /\ arrays[array] \in Seq(Items)
      /\ Outbox \in Seq(Items) /\ Len(Outbox) \in Nat
  <2>1. Outbox \in Seq(Items)
    BY OutboxIsArray
  <2> QED BY <1>1, <2>1, FilesAssumption, LenProperties DEF OutboxTypeOK, Items
<1> HIDE DEF array
<1>3. Append(arrays[array], f) \in Seq(Items)
  BY <1>2, RangeAppend
<1>4. /\ arrays' \in Seq(Seq(Items)) /\ Len(arrays') = Len(arrays)
      /\ arrays'[array] = Append(arrays[array], f)
      /\ \A j \in 1 .. Len(arrays) : j # array => arrays'[j] = arrays[j]
  BY <1>1, <1>2, <1>3, ExceptSeq DEF OutboxTypeOK
<1>5. /\ array = entry => Outbox' = Append(Outbox, f)
      /\ array # entry => Outbox' = Outbox
  BY <1>1, <1>2, <1>4 DEF Outbox, OutboxTypeOK
<1>6. Owner[f] \notin typed /\ (array # entry => failed \union stored # {})
  BY <1>1, <1>2 DEF HeldIsMapped, array
<1>7. /\ \A id : WaitsForText(id) => id \in FileIds /\ Owner[id] \notin typed'
      /\ f \in FileIds /\ Owner[f] \notin typed'
  BY <1>1, <1>2, <1>6, WaitsOn
<1>8. /\ Append(Outbox, f) \in Seq(Items)
      /\ Range(Append(Outbox, f)) = Range(Outbox) \union {f}
      /\ Len(Append(Outbox, f)) = Len(Outbox) + 1
      /\ Append(Outbox, f)[Len(Outbox) + 1] = f
      /\ \A i \in 1 .. Len(Outbox) : Append(Outbox, f)[i] = Outbox[i]
  BY <1>2, RangeAppend, AppendProperties
<1>9. /\ Range(Outbox') \subseteq Range(Outbox) \union {f}
      /\ Range(Outbox) \subseteq Range(Outbox')
      /\ array = entry => f \in Range(Outbox')
      /\ Len(Outbox) <= Len(Outbox') /\ Len(Outbox') <= Len(Outbox) + 1
      /\ \A i \in 1 .. Len(Outbox) : Outbox'[i] = Outbox[i]
  <2>1. CASE array = entry
    <3>1. Outbox' = Append(Outbox, f)
      BY <1>5, <2>1
    <3>2. Range(Outbox') = Range(Outbox) \union {f}
      BY <1>8, <3>1
    <3> QED BY <1>2, <1>8, <2>1, <3>1, <3>2
  <2>2. CASE array # entry
    <3>1. Outbox' = Outbox
      BY <1>5, <2>2
    <3> QED BY <1>2, <2>2, <3>1
  <2> QED BY <2>1, <2>2
<1>10. \A id \in Range(Outbox') : sendSync'.phase # "idle" \/ WaitsForText(id)'
  <2> SUFFICES ASSUME NEW id \in Range(Outbox'), sendSync.phase = "idle"
               PROVE  id \in FileIds /\ Owner[id] \notin typed'
    BY <1>1 DEF WaitsForText
  <2>1. CASE id = f
    BY <1>7, <2>1
  <2>2. CASE id # f
    <3>1. id \in Range(Outbox)
      BY <1>9, <2>2
    <3> QED BY <1>7, <3>1 DEF OutboxTypeOK
  <2> QED BY <2>1, <2>2
<1>11. typed' \subseteq Items /\ dropped' \subseteq Items
  BY <1>1, <1>2 DEF OutboxTypeOK
<1>12. OutboxTypeOK'
  BY <1>1, <1>4, <1>10, <1>11 DEF OutboxTypeOK
<1>13. LoopAndPost' /\ BatchIsSettled'
  BY <1>1 DEF LoopAndPost, BatchIsSettled
<1>14. BatchIsFront'
  <2>1. Len(post.batch) \in Nat
    BY LenProperties DEF OutboxTypeOK
  <2>2. Len(Outbox') \in Nat
    BY <1>2, <1>5, <1>8
  <2> SUFFICES ASSUME post.phase # "none", ~post.aborted
               PROVE  /\ Len(post.batch) <= Len(Outbox')
                      /\ \A i \in 1 .. Len(post.batch) : Outbox'[i] = post.batch[i]
    BY <1>1 DEF BatchIsFront
  <2>3. /\ Len(post.batch) <= Len(Outbox)
        /\ \A i \in 1 .. Len(post.batch) : Outbox[i] = post.batch[i]
    BY DEF BatchIsFront
  <2>4. \A i \in 1 .. Len(post.batch) : i \in 1 .. Len(Outbox)
    BY <1>2, <2>1, <2>3
  <2> QED BY <1>2, <1>9, <2>1, <2>2, <2>3, <2>4
<1>15. RestIsAskedFor'
  <2> SUFFICES ASSUME sendSync.phase \in {"running", "settling"}, ~sendSync.double,
                      NEW i \in 1 .. Len(Outbox')
               PROVE  \/ Outbox'[i] \in FileIds /\ Owner[Outbox'[i]] \notin typed'
                      \/ post.phase # "none" /\ ~post.aborted /\ i <= Len(post.batch)
    BY <1>1 DEF RestIsAskedFor, WaitsForText
  <2>1. CASE i \in 1 .. Len(Outbox)
    <3>1. Outbox'[i] = Outbox[i]
      BY <1>5, <1>8, <2>1
    <3> QED BY <1>7, <2>1, <3>1 DEF RestIsAskedFor
  <2>2. CASE i \notin 1 .. Len(Outbox)
    <3>1. Outbox' = Append(Outbox, f) /\ i = Len(Outbox) + 1
      BY <1>2, <1>5, <1>8, <2>2
    <3> QED BY <1>7, <1>8, <3>1
  <2> QED BY <2>1, <2>2
<1>16. HeldIsMapped'
  BY <1>1, <1>2 DEF HeldIsMapped
<1>17. TypedIsAccountedFor'
  <2>1. typed' \subseteq Range(Outbox') \union stored' \union failed' \union dropped'
    BY <1>1, <1>9 DEF TypedIsAccountedFor
  <2> QED BY <1>1, <1>2, <1>6, <2>1 DEF TypedIsAccountedFor
<1> QED BY <1>12, <1>13, <1>14, <1>15, <1>16, <1>17

LEMMA StepIInv == IInv /\ [OutboxNext]_outboxVars => IInv'
<1> SUFFICES ASSUME IInv, [OutboxNext]_outboxVars  PROVE IInv'
  OBVIOUS
<1> DEFINE untouched == <<late, arrays, entry, held, sendSync, typed, failed, dropped>>
<1>0. /\ watch \in Watch /\ post \in PostType(Len(arrays)) /\ background \in BOOLEAN
      /\ stored \subseteq Items
  BY WatchFacts DEF IInv, OutboxTypeOK, PostType
<1>1. ASSUME NEW id \in OwnIds, SendMessage(id)  PROVE IInv'
  BY <1>1, SendStep
<1>2. ASSUME NEW id \in OwnIds, BeginAttachments(id)  PROVE IInv'
  BY <1>2, BeginStep
<1>3. ASSUME NEW f \in FileIds, PushFile(f)  PROVE IInv'
  BY <1>3, PushStep
<1>4. ASSUME NEW batch \in late, LateStored(batch)  PROVE IInv'
  <2>1. /\ stored' = stored \union Range(batch) /\ late' = late \ {batch}
        /\ UNCHANGED <<arrays, entry, held, sendSync, post, background, watch, typed, failed,
                       dropped>>
    BY <1>4 DEF LateStored, heapVars
  <2>2. stored' \subseteq Items /\ late' \subseteq Seq(Items)
    BY <2>1, RangeMembers DEF IInv, OutboxTypeOK
  <2>3. Outbox' = Outbox
    BY <2>1, SameOutbox
  <2>4. OutboxTypeOK'
    BY <2>1, <2>2, <2>3 DEF IInv, OutboxTypeOK, WaitsForText
  <2>5. LoopAndPost' /\ BatchIsFront' /\ BatchIsSettled' /\ HeldIsMapped'
    BY <2>1, <2>3 DEF IInv, LoopAndPost, BatchIsFront, BatchIsSettled, HeldIsMapped
  <2>6. RestIsAskedFor' /\ TypedIsAccountedFor'
    BY <2>1, <2>3 DEF IInv, RestIsAskedFor, WaitsForText, TypedIsAccountedFor
  <2> QED BY <2>4, <2>5, <2>6 DEF IInv
<1>5. CASE PostStored
  <2>1. /\ post.phase = "sending" /\ post' = [post EXCEPT !.phase = "stored"]
        /\ stored' = stored \union Range(post.batch)
        /\ UNCHANGED <<untouched, background, watch>>
    BY <1>5 DEF PostStored, heapVars
  <2>2. stored' \subseteq Items
    BY <1>0, <2>1, RangeMembers DEF PostType
  <2>3. /\ post' \in PostType(Len(arrays)) /\ post'.phase = "stored"
        /\ post'.batch = post.batch /\ post'.array = post.array /\ post'.aborted = post.aborted
    BY <1>0, <2>1 DEF PostType
  <2> QED BY <1>0, <2>1, <2>2, <2>3, QuietStep
<1>6. CASE PostAnswered
  <2>1. /\ post.phase = "stored" /\ post' = [post EXCEPT !.phase = "answered"]
        /\ UNCHANGED <<stored, untouched, background, watch>>
    BY <1>6 DEF PostAnswered, heapVars, serverVars
  <2>2. /\ post' \in PostType(Len(arrays)) /\ post'.phase = "answered"
        /\ post'.batch = post.batch /\ post'.array = post.array /\ post'.aborted = post.aborted
    BY <1>0, <2>1 DEF PostType
  <2>3. Range(post.batch) \subseteq stored
    BY <2>1 DEF IInv, BatchIsSettled
  <2> QED BY <1>0, <2>1, <2>2, <2>3, QuietStep
<1>7. CASE PostOk
  BY <1>7, PostOkStep
<1>8. CASE PostThrows
  <2>1. /\ post.phase # "none" /\ post' = NoPost
        /\ late' \subseteq late \union {post.batch}
        /\ sendSync' = [sendSync EXCEPT !.phase = "backoff"]
        /\ watch' = Watching(background, HasPending)
        /\ UNCHANGED <<stored, arrays, entry, held, background, typed, failed, dropped>>
    BY <1>8 DEF PostThrows, CommandThrew, heapVars
  <2>2. watch' \in Watch
    BY <1>0, <2>1, WatchFacts DEF IInv
  <2>3. post' \in PostType(Len(arrays')) /\ post'.phase = "none" /\ ~post'.aborted
    <3>1. Len(arrays) \in Nat /\ <<>> \in Seq(Items)
      BY LenProperties, EmptySeq DEF IInv, OutboxTypeOK
    <3> QED BY <2>1, <3>1 DEF NoPost, PostType
  <2>4. Outbox' = Outbox
    BY <2>1, SameOutbox
  <2>5. /\ sendSync' \in SyncState /\ sendSync'.phase = "backoff"
        /\ sendSync'.invalidated /\ ~sendSync'.stopped
    BY <2>1 DEF IInv, OutboxTypeOK, SyncState, LoopAndPost
  <2>6. OutboxTypeOK'
    BY <1>0, <2>1, <2>2, <2>3, <2>4, <2>5 DEF IInv, OutboxTypeOK, Watch, PostType
  <2>7. LoopAndPost' /\ BatchIsFront' /\ BatchIsSettled' /\ RestIsAskedFor'
    BY <2>3, <2>5 DEF LoopAndPost, BatchIsFront, BatchIsSettled, RestIsAskedFor
  <2>8. HeldIsMapped' /\ TypedIsAccountedFor'
    BY <2>1, <2>4 DEF IInv, HeldIsMapped, TypedIsAccountedFor
  <2> QED BY <2>6, <2>7, <2>8 DEF IInv
<1>9. CASE SendRetry
  <2> DEFINE s == Retried(sendSync)
  <2>1. /\ sendSync.phase = "backoff" /\ Flush(s, entry', Outbox', watch)
        /\ UNCHANGED <<stored, late, arrays, entry, held, background, typed, failed, dropped>>
    BY <1>9, SameOutbox DEF SendRetry, heapVars, serverVars
  <2>2. s \in SyncState /\ s.phase = "running" /\ s.invalidated /\ ~s.stopped
    BY <2>1 DEF Retried, SyncState, IInv, OutboxTypeOK, LoopAndPost
  <2> HIDE DEF s
  <2> QED BY <1>0, <2>1, <2>2, FlushFacts, HeapIsSame, LoopStep
<1>10. CASE SendSettle
  <2>1. /\ sendSync.phase = "settling"
        /\ UNCHANGED <<stored, late, arrays, entry, held, background, typed, failed, dropped>>
    BY <1>10 DEF SendSettle, heapVars, serverVars
  <2>2. CASE Reruns(sendSync)
    <3> DEFINE s == Settled(sendSync)
    <3>1. s \in SyncState /\ s.phase = "running" /\ s.invalidated /\ ~s.stopped
      BY <2>1, <2>2 DEF Settled, Reruns, SyncState, IInv, OutboxTypeOK, LoopAndPost
    <3>2. Flush(s, entry', Outbox', watch)
      BY <1>10, <2>1, <2>2, SameOutbox DEF SendSettle
    <3> HIDE DEF s
    <3> QED BY <1>0, <2>1, <3>1, <3>2, FlushFacts, HeapIsSame, LoopStep
  <2>3. CASE ~Reruns(sendSync)
    <3>1. /\ sendSync' = [sendSync EXCEPT !.invalidated = FALSE, !.phase = "idle"]
          /\ UNCHANGED <<post, watch>>
      BY <1>10, <2>3 DEF SendSettle, Settled, IInv, LoopAndPost
    <3>2. /\ sendSync' \in SyncState /\ sendSync'.phase = "idle"
          /\ ~sendSync'.invalidated /\ ~sendSync'.stopped
      BY <3>1 DEF SyncState, IInv, OutboxTypeOK, LoopAndPost
    <3>3. Outbox' = Outbox /\ Outbox \in Seq(Items) /\ post.phase = "none"
      BY <2>1, SameOutbox, OutboxIsArray DEF IInv, LoopAndPost
    <3>4. \A id \in Range(Outbox) : WaitsForText(id)
      <4>1. \A i \in 1 .. Len(Outbox) : WaitsForText(Outbox[i])
        BY <2>1, <2>3, <3>3 DEF Reruns, IInv, LoopAndPost, RestIsAskedFor
      <4> QED BY <3>3, <4>1, RangeMembers
    <3>5. OutboxTypeOK'
      BY <2>1, <3>1, <3>2, <3>3, <3>4 DEF IInv, OutboxTypeOK, WaitsForText
    <3>6. LoopAndPost' /\ BatchIsFront' /\ BatchIsSettled' /\ RestIsAskedFor'
      BY <2>1, <3>1, <3>2, <3>3
         DEF IInv, LoopAndPost, BatchIsFront, BatchIsSettled, RestIsAskedFor
    <3>7. HeldIsMapped' /\ TypedIsAccountedFor'
      BY <2>1, <3>3 DEF IInv, HeldIsMapped, TypedIsAccountedFor
    <3> QED BY <3>5, <3>6, <3>7 DEF IInv
  <2> QED BY <2>2, <2>3
<1>11. CASE Reconnect
  <2>1. /\ InvalidateSend(entry', Outbox', watch)
        /\ UNCHANGED <<stored, late, arrays, entry, held, background, typed, failed, dropped>>
    BY <1>11, SameOutbox DEF Reconnect, heapVars, serverVars
  <2>2. /\ sendSync' \in SyncState /\ post' \in PostType(Len(arrays')) /\ watch' \in Watch
        /\ sendSync'.phase # "idle"
        /\ LoopAndPost' /\ BatchIsFront' /\ BatchIsSettled' /\ RestIsAskedFor'
    BY <1>0, <2>1, HeapIsSame, InvalidateFacts
  <2> QED BY <2>1, <2>2, LoopStep
<1>12. CASE GoBackground
  <2>1. /\ background' = TRUE /\ watch' = Watching(TRUE, HasPending)
        /\ UNCHANGED <<stored, untouched, post>>
    BY <1>12 DEF GoBackground, heapVars, serverVars
  <2>2. watch' \in Watch
    BY <2>1, WatchFacts DEF IInv
  <2> QED BY <1>0, <2>1, <2>2, QuietStep DEF IInv, BatchIsSettled
<1>13. CASE GoActive
  <2>1. /\ watch' = Cleared /\ background' = FALSE
        /\ UNCHANGED <<stored, late, held, sendSync, typed, dropped>>
        /\ FailPending \/ UNCHANGED <<arrays, entry, post, failed>>
    BY <1>13 DEF GoActive, serverVars
  <2>2. watch' \in Watch
    BY <2>1, WatchFacts DEF IInv
  <2>3. CASE FailPending
    BY <2>1, <2>2, <2>3, FailFacts DEF IInv, OutboxTypeOK, PostType, Watch
  <2>4. CASE UNCHANGED <<arrays, entry, post, failed>>
    BY <1>0, <2>1, <2>2, <2>4, QuietStep DEF IInv, BatchIsSettled
  <2> QED BY <2>1, <2>3, <2>4
<1>14. CASE WatchdogFires
  <2>1. /\ watch' = [armed |-> FALSE, started |-> watch.started /\ HasPending,
                     failing |-> watch.failing \/ HasPending]
        /\ UNCHANGED <<stored, untouched, post, background>>
    BY <1>14 DEF WatchdogFires, heapVars, serverVars
  <2>2. watch' \in Watch
    BY <1>0, <2>1, WatchFacts DEF IInv, Watch
  <2> QED BY <1>0, <2>1, <2>2, QuietStep DEF IInv, BatchIsSettled
<1>15. CASE WatchdogFails
  <2>1. /\ FailPending /\ watch' = [watch EXCEPT !.failing = FALSE, !.started = FALSE]
        /\ UNCHANGED <<stored, late, held, sendSync, background, typed, dropped>>
    BY <1>15 DEF WatchdogFails, serverVars
  <2>2. watch' \in Watch
    BY <1>0, <2>1 DEF Watch
  <2> QED BY <2>1, <2>2, FailFacts DEF IInv, OutboxTypeOK, PostType, Watch
<1>16. CASE UNCHANGED outboxVars
  BY <1>0, <1>16, QuietStep DEF outboxVars, serverVars, heapVars, IInv, BatchIsSettled
<1> QED BY <1>1, <1>2, <1>3, <1>4, <1>5, <1>6, <1>7, <1>8, <1>9, <1>10, <1>11, <1>12, <1>13,
           <1>14, <1>15, <1>16 DEF OutboxNext

-----------------------------------------------------------------------------
LEMMA AlwaysIInv == OutboxSpec => []IInv
<1> QED BY InitIInv, StepIInv, PTL DEF OutboxSpec

(* Every variable has its type, and while the outbox holds something the   *)
(* loop of sendSync is at work on it or a text is still to come that will  *)
(* wake it (sync.ts, sendMessage and flushOutbox).                         *)
THEOREM OutboxTypeCorrect == OutboxSpec => []OutboxTypeOK
<1>1. IInv => OutboxTypeOK
  BY DEF IInv
<1> QED BY <1>1, AlwaysIInv, PTL

(* What the user sent is in the outbox, stored at the server or reported as*)
(* failed, through lost answers, late POSTs and aborts; a text is dropped  *)
(* without a word only after a POST that the watchdog failed although it   *)
(* was answered, an attachment only after something was settled while it   *)
(* was on its way to the outbox (sync.ts, sendMessage, flushOutbox and     *)
(* failPendingOutboxMessages).                                             *)
THEOREM TypedIsNeverJustDropped == OutboxSpec => []TypedIsAccountedFor
<1>1. IInv => TypedIsAccountedFor
  BY DEF IInv
<1> QED BY <1>1, AlwaysIInv, PTL

(* A batch that is taken off the outbox was its front, so that nothing goes*)
(* that the POST did not carry; an aborted POST does not touch the array of*)
(* the Map with its splice.                                                *)
THEOREM BatchIsAlwaysFront == OutboxSpec => []BatchIsFront
<1>1. IInv => BatchIsFront
  BY DEF IInv
<1> QED BY <1>1, AlwaysIInv, PTL
=============================================================================
