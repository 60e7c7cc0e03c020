--------------------------- MODULE AppMessages_proof ---------------------------
(***************************************************************************)
(* What the app's two cursors promise, for any messages, any of them to be *)
(* shown or not, any page size, and any interleaving of fetches, the load  *)
(* of older pages, live updates, own POSTs, failures and disconnects:      *)
(* nothing between the cursors is missing, apart from what an own POST     *)
(* jumped over, and the end of the history is only shown at its end.       *)
(***************************************************************************)
EXTENDS AppMessages, SequenceTheorems, FiniteSetTheorems, TLAPS

FetchState == [phase : {"none", "asking", "read"}, from : Nat \union {Undefined},
               page : SUBSET Row, more : BOOLEAN]
OlderState == [phase : {"none", "locking", "asking", "read"}, by : {"user", "prefetch"},
               before : Nat \union {Undefined}, page : SUBSET Row, more : BOOLEAN]
View == [shown : SUBSET Ids, entry : BOOLEAN, more : BOOLEAN]

(* The loop of messagesSync is never stopped, and at work while invalidated*)
On(s) == s \in SyncState /\ ~s.stopped /\ (s.invalidated <=> s.phase # "idle")

LogTypes ==
    /\ rows \subseteq Row /\ IsFiniteSet(rows) /\ news \subseteq rows
    /\ \A r, q \in rows : r.seq = q.seq => r = q
    /\ unsent \subseteq OwnIds /\ unanswered \subseteq OwnIds

ReadTypes ==
    /\ On(msgSync)
    /\ fetch \in FetchState /\ fetch.page \subseteq rows
    /\ older \in OlderState /\ older.page \subseteq rows
    /\ prefetch \in {"off", "on", "failed"}
    /\ queue \subseteq Ids /\ proc \in {"no", "waiting", "finishing"}
    /\ view \in View
    /\ lastSeq \in Nat \union {Undefined} /\ oldestSeq \in Nat \union {Undefined}
    /\ jumped \subseteq rows /\ blind \in BOOLEAN

(* Who waits for the session's lock or holds it stands in its line, once;  *)
(* only the first is at work.                                              *)
Parties == {"fetch", "older", "queue"}
Waits(lk, p) == \E i \in DOMAIN lk : lk[i] = p
Holds(lk, p) == lk # <<>> /\ Head(lk) = p

LockLine ==
    /\ lock \in Seq(Parties) /\ IsInjective(lock)
    /\ Waits(lock, "fetch") <=> msgSync.phase = "running"
    /\ Waits(lock, "older") <=> older.phase # "none"
    /\ Waits(lock, "queue") <=> proc = "waiting"
    /\ fetch.phase # "none" => Holds(lock, "fetch")
    /\ older.phase \in {"asking", "read"} => Holds(lock, "older")

(* No cursor is beyond the log, and there is no older page before a first. *)
Reached(n) == n <= 0 \/ \E r \in rows : n <= r.seq

CursorsInLog ==
    /\ Reached(lastSeq) /\ Reached(oldestSeq)
    /\ lastSeq = Undefined => oldestSeq = Undefined
    /\ ~view.entry => oldestSeq = Undefined
    /\ older.phase # "none" => oldestSeq # Undefined

(* What a fetch has read is whole: nothing of the log is missing between   *)
(* where it starts and the last row of its page.                           *)
FetchIsWhole ==
    /\ fetch.phase # "none" =>
         /\ fetch.from <= lastSeq
         /\ fetch.from = Undefined => oldestSeq = Undefined
    /\ fetch.phase = "read" /\ fetch.from # Undefined =>
         \A p \in fetch.page, r \in rows : fetch.from < r.seq /\ r.seq <= p.seq => r \in fetch.page
    /\ fetch.phase = "read" /\ fetch.from = Undefined =>
         /\ \A p, q \in fetch.page, r \in rows : p.seq <= r.seq /\ r.seq <= q.seq => r \in fetch.page
         /\ ~fetch.more => \A p \in fetch.page, r \in rows : r \in fetch.page \/ p.seq <= r.seq

(* An older page is whole from its first row up to the cursor, which nobody*)
(* moves meanwhile; when it says that nothing is left, it holds the rest.  *)
OlderIsWhole ==
    /\ older.phase \in {"asking", "read"} => older.before = oldestSeq
    /\ older.phase = "read" =>
         /\ \A p \in older.page, r \in rows :
               p.seq <= r.seq /\ r.seq < older.before => r \in older.page
         /\ ~OlderMore => \A r \in rows : r.seq < older.before => r \in older.page

(* What the user has typed is shown, or about to be.                       *)
OwnIsLoaded == unsent \union unanswered \subseteq Loaded

IInv == /\ LogTypes /\ ReadTypes /\ LockLine /\ CursorsInLog
        /\ FetchIsWhole /\ OlderIsWhole /\ OwnIsLoaded
        /\ CursorCovers /\ HistoryIsComplete

-----------------------------------------------------------------------------
(* Finite sets of rows.                                                    *)

(* A strict order has a last element on a finite set that is not empty.    *)
LEMMA HasLast ==
  ASSUME NEW S, IsFiniteSet(S), S # {}, NEW G,
         \A a \in S : <<a, a>> \notin G,
         \A a, b, c \in S : <<a, b>> \in G /\ <<b, c>> \in G => <<a, c>> \in G
  PROVE  \E m \in S : \A s \in S : <<m, s>> \notin G
<1> DEFINE after(s) == {t \in S : <<s, t>> \in G}
           T == {after(s) : s \in S}
<1>1. IsWellFoundedOn(StrictSubsetOrdering(S), FiniteSubsetsOf(S))
  BY FS_StrictSubsetOrderingWellFounded
<1>2. T \subseteq FiniteSubsetsOf(S) /\ T # {}
  <2>1. \A s \in S : after(s) \in SUBSET S
    OBVIOUS
  <2>2. \A s \in S : IsFiniteSet(after(s))
    BY <2>1, FS_Subset
  <2>3. \A s \in S : after(s) \in FiniteSubsetsOf(S)
    BY <2>1, <2>2 DEF FiniteSubsetsOf
  <2> HIDE DEF after
  <2>4. \A y \in T : y \in FiniteSubsetsOf(S)
    BY <2>3
  <2>5. PICK s \in S : TRUE
    OBVIOUS
  <2>6. after(s) \in T
    OBVIOUS
  <2> QED BY <2>4, <2>6
<1>3. PICK x \in T : \A y \in T : <<y, x>> \notin StrictSubsetOrdering(S)
  <2> HIDE DEF T
  <2> QED BY <1>1, <1>2, WFMin
<1>4. PICK m \in S : x = after(m)
  OBVIOUS
<1>5. ASSUME NEW s \in S, <<m, s>> \in G  PROVE FALSE
  <2>1. after(s) \subseteq after(m) /\ s \in after(m) /\ s \notin after(s)
    BY <1>5
  <2>2. after(s) \in T /\ after(s) \in SUBSET S /\ after(m) \in SUBSET S
    OBVIOUS
  <2>3. <<after(s), after(m)>> \in StrictSubsetOrdering(S)
    BY <2>1, <2>2 DEF StrictSubsetOrdering
  <2> QED BY <1>3, <1>4, <2>2, <2>3
<1> QED BY <1>5

LEMMA HasHighest ==
  ASSUME NEW R \in SUBSET Row, IsFiniteSet(R), R # {}
  PROVE  \E m \in R : \A r \in R : r.seq <= m.seq
<1> DEFINE G == {e \in R \X R : e[1].seq < e[2].seq}
<1>1. \A r \in R : r.seq \in Nat
  BY DEF Row
<1>2. \A a, b \in R : <<a, b>> \in G <=> a.seq < b.seq
  OBVIOUS
<1> HIDE DEF G
<1>3. \A a \in R : <<a, a>> \notin G
  BY <1>1, <1>2
<1>4. \A a, b, c \in R : <<a, b>> \in G /\ <<b, c>> \in G => <<a, c>> \in G
  BY <1>1, <1>2
<1>5. PICK m \in R : \A r \in R : <<m, r>> \notin G
  BY <1>3, <1>4, HasLast
<1>6. ASSUME NEW r \in R  PROVE r.seq <= m.seq
  <2>1. r.seq \in Nat /\ m.seq \in Nat
    BY <1>1
  <2>2. ~(m.seq < r.seq)
    BY <1>2, <1>5
  <2> QED BY <2>1, <2>2
<1> QED BY <1>6

LEMMA HasLowest ==
  ASSUME NEW R \in SUBSET Row, IsFiniteSet(R), R # {}
  PROVE  \E m \in R : \A r \in R : m.seq <= r.seq
<1> DEFINE G == {e \in R \X R : e[2].seq < e[1].seq}
<1>1. \A r \in R : r.seq \in Nat
  BY DEF Row
<1>2. \A a, b \in R : <<a, b>> \in G <=> b.seq < a.seq
  OBVIOUS
<1> HIDE DEF G
<1>3. \A a \in R : <<a, a>> \notin G
  BY <1>1, <1>2
<1>4. \A a, b, c \in R : <<a, b>> \in G /\ <<b, c>> \in G => <<a, c>> \in G
  BY <1>1, <1>2
<1>5. PICK m \in R : \A r \in R : <<m, r>> \notin G
  BY <1>3, <1>4, HasLast
<1>6. ASSUME NEW r \in R  PROVE m.seq <= r.seq
  <2>1. r.seq \in Nat /\ m.seq \in Nat
    BY <1>1
  <2>2. ~(r.seq < m.seq)
    BY <1>2, <1>5
  <2> QED BY <2>1, <2>2
<1> QED BY <1>6

LEMMA TopFacts ==
  ASSUME NEW R \in SUBSET Row, IsFiniteSet(R), NEW n \in Int
  PROVE  /\ Top(R, n) \in Int /\ n <= Top(R, n)
         /\ \A r \in R : r.seq <= Top(R, n)
         /\ Top(R, n) = n \/ \E r \in R : Top(R, n) = r.seq
<1>1. \A r \in R : r.seq \in Nat
  BY DEF Row
<1>2. CASE \E r \in R : r.seq > n
  <2>1. PICK m \in R : \A r \in R : r.seq <= m.seq
    BY <1>2, HasHighest
  <2>2. Top(R, n) = CHOOSE k \in {r.seq : r \in R} : \A r \in R : r.seq <= k
    BY <1>2 DEF Top
  <2>3. \E k \in {r.seq : r \in R} : \A r \in R : r.seq <= k
    BY <2>1
  <2>4. Top(R, n) \in {r.seq : r \in R} /\ \A r \in R : r.seq <= Top(R, n)
    BY <2>2, <2>3
  <2> QED BY <1>1, <1>2, <2>4
<1>3. CASE ~\E r \in R : r.seq > n
  BY <1>1, <1>3 DEF Top
<1> QED BY <1>2, <1>3

LEMMA BottomFacts ==
  ASSUME NEW R \in SUBSET Row, IsFiniteSet(R), NEW n \in Int
  PROVE  /\ Bottom(R, n) \in Int /\ Bottom(R, n) <= n
         /\ \A r \in R : Bottom(R, n) <= r.seq
         /\ Bottom(R, n) = n \/ \E r \in R : Bottom(R, n) = r.seq
<1>1. \A r \in R : r.seq \in Nat
  BY DEF Row
<1>2. CASE \E r \in R : r.seq < n
  <2>1. PICK m \in R : \A r \in R : m.seq <= r.seq
    BY <1>2, HasLowest
  <2>2. Bottom(R, n) = CHOOSE k \in {r.seq : r \in R} : \A r \in R : k <= r.seq
    BY <1>2 DEF Bottom
  <2>3. \E k \in {r.seq : r \in R} : \A r \in R : k <= r.seq
    BY <2>1
  <2>4. Bottom(R, n) \in {r.seq : r \in R} /\ \A r \in R : Bottom(R, n) <= r.seq
    BY <2>2, <2>3
  <2> QED BY <1>1, <1>2, <2>4
<1>3. CASE ~\E r \in R : r.seq < n
  BY <1>1, <1>3 DEF Bottom
<1> QED BY <1>2, <1>3

(* A forward page has every row from its start up to each of its rows.     *)
LEMMA ForwardFacts ==
  ASSUME LogTypes, NEW n \in Int
  PROVE  /\ Forward(n) \subseteq rows
         /\ \A p \in Forward(n), r \in rows :
               n < r.seq /\ r.seq <= p.seq => r \in Forward(n)
<1> DEFINE R == {r \in rows : r.seq > n}
           nearer(r) == {q \in R : q.seq < r.seq}
<1>1. \A r \in rows : r.seq \in Nat
  BY DEF LogTypes, Row
<1>2. Forward(n) = {r \in R : Cardinality(nearer(r)) < PageSize}
  BY DEF Forward, Closest
<1>3. ASSUME NEW p \in Forward(n), NEW r \in rows, n < r.seq, r.seq <= p.seq
      PROVE  r \in Forward(n)
  <2>1. p \in R /\ Cardinality(nearer(p)) < PageSize /\ r \in R
    BY <1>1, <1>2, <1>3
  <2>2. nearer(r) \in SUBSET nearer(p) /\ nearer(p) \in SUBSET rows
    BY <1>1, <1>3, <2>1
  <2>3. IsFiniteSet(nearer(p))
    BY <2>2, FS_Subset DEF LogTypes
  <2>4. Cardinality(nearer(r)) <= Cardinality(nearer(p)) /\ IsFiniteSet(nearer(r))
    BY <2>2, <2>3, FS_Subset
  <2>5. Cardinality(nearer(r)) \in Nat /\ Cardinality(nearer(p)) \in Nat
    BY <2>3, <2>4, FS_CardinalityType
  <2>6. Cardinality(nearer(r)) < PageSize
    BY <2>1, <2>4, <2>5, PageSizeAssumption
  <2> QED BY <1>2, <2>1, <2>6
<1> QED BY <1>2, <1>3

(* A backward page has every row from each of its rows up to its start, and*)
(* something if there is something.                                        *)
LEMMA BackwardFacts ==
  ASSUME LogTypes, NEW R \in SUBSET rows
  PROVE  /\ Backward(R) \subseteq R
         /\ \A p \in Backward(R), r \in R : p.seq <= r.seq => r \in Backward(R)
         /\ Backward(R) = {} => R = {}
<1> DEFINE nearer(r) == {q \in R : q.seq > r.seq}
<1>1. \A r \in rows : r.seq \in Nat
  BY DEF LogTypes, Row
<1>2. Backward(R) = {r \in R : Cardinality(nearer(r)) < PageSize}
  BY DEF Backward, Closest
<1>3. ASSUME NEW p \in Backward(R), NEW r \in R, p.seq <= r.seq
      PROVE  r \in Backward(R)
  <2>1. p \in R /\ Cardinality(nearer(p)) < PageSize
    BY <1>2, <1>3
  <2>2. nearer(r) \in SUBSET nearer(p) /\ nearer(p) \in SUBSET rows
    BY <1>1, <1>3, <2>1
  <2>3. IsFiniteSet(nearer(p))
    BY <2>2, FS_Subset DEF LogTypes
  <2>4. Cardinality(nearer(r)) <= Cardinality(nearer(p)) /\ IsFiniteSet(nearer(r))
    BY <2>2, <2>3, FS_Subset
  <2>5. Cardinality(nearer(r)) \in Nat /\ Cardinality(nearer(p)) \in Nat
    BY <2>3, <2>4, FS_CardinalityType
  <2>6. Cardinality(nearer(r)) < PageSize
    BY <2>1, <2>4, <2>5, PageSizeAssumption
  <2> QED BY <1>2, <2>6
<1>4. ASSUME R # {}  PROVE Backward(R) # {}
  <2>1. R \in SUBSET Row /\ IsFiniteSet(R)
    BY FS_Subset DEF LogTypes
  <2>2. PICK m \in R : \A r \in R : r.seq <= m.seq
    BY <1>4, <2>1, HasHighest
  <2>3. nearer(m) = {}
    BY <1>1, <2>2
  <2>4. Cardinality(nearer(m)) < PageSize
    BY <2>3, FS_EmptySet, PageSizeAssumption
  <2> QED BY <1>2, <2>4
<1> QED BY <1>2, <1>3, <1>4

-----------------------------------------------------------------------------
(* The lock's line.                                                        *)

LEMMA LineJoins ==
  ASSUME NEW l \in Seq(Parties), IsInjective(l), NEW p \in Parties, ~Waits(l, p)
  PROVE  /\ Append(l, p) \in Seq(Parties) /\ IsInjective(Append(l, p))
         /\ \A o \in Parties : Waits(Append(l, p), o) <=> (o = p \/ Waits(l, o))
         /\ \A o \in Parties : Holds(l, o) => Holds(Append(l, p), o)
<1> DEFINE a == Append(l, p)
<1>1. /\ a \in Seq(Parties) /\ a # <<>> /\ Len(a) = Len(l) + 1 /\ Len(l) \in Nat
      /\ \A i \in 1 .. Len(l) : a[i] = l[i]
      /\ a[Len(l) + 1] = p
  BY AppendProperties, LenProperties
<1>2. DOMAIN a = 1 .. Len(l) + 1 /\ DOMAIN l = 1 .. Len(l)
  BY <1>1, LenProperties
<1> HIDE DEF a
<1>3. \A i \in 1 .. Len(l) + 1 : i \in 1 .. Len(l) \/ i = Len(l) + 1
  BY <1>1
<1>4. IsInjective(a)
  BY <1>1, <1>2, <1>3 DEF IsInjective, Waits
<1>5. Len(l) + 1 \in 1 .. Len(l) + 1 /\ \A i \in 1 .. Len(l) : i \in 1 .. Len(l) + 1
  BY <1>1
<1>6. ASSUME NEW o \in Parties  PROVE Waits(a, o) <=> (o = p \/ Waits(l, o))
  BY <1>1, <1>2, <1>3, <1>5 DEF Waits
<1>7. ASSUME NEW o \in Parties, Holds(l, o)  PROVE Holds(a, o)
  <2>1. l # <<>> /\ Len(l) >= 1 /\ Head(l) = l[1]
    BY <1>1, <1>7, EmptySeq DEF Holds
  <2>2. 1 \in 1 .. Len(l) /\ Head(a) = a[1]
    BY <1>1, <2>1
  <2> QED BY <1>1, <1>7, <2>1, <2>2 DEF Holds
<1> QED BY <1>1, <1>4, <1>6, <1>7 DEF a

LEMMA LineMovesOn ==
  ASSUME NEW l \in Seq(Parties), IsInjective(l), NEW p \in Parties, Holds(l, p)
  PROVE  /\ Tail(l) \in Seq(Parties) /\ IsInjective(Tail(l))
         /\ \A o \in Parties : Waits(Tail(l), o) <=> (o # p /\ Waits(l, o))
<1> DEFINE t == Tail(l)
           n == Len(l)
<1>1. /\ t \in Seq(Parties) /\ Len(t) = n - 1 /\ n \in Nat /\ n >= 1
      /\ \A i \in 1 .. n - 1 : t[i] = l[i + 1]
      /\ l[1] = p
  <2>1. l # <<>> /\ Head(l) = p
    BY DEF Holds
  <2>2. n \in Nat /\ n >= 1
    BY <2>1, EmptySeq
  <2> QED BY <2>1, <2>2, HeadTailProperties
<1>2. DOMAIN t = 1 .. n - 1 /\ DOMAIN l = 1 .. n
  BY <1>1, LenProperties
<1> HIDE DEF t, n
<1>3. /\ \A i \in 1 .. n - 1 : i + 1 \in 1 .. n /\ i + 1 # 1
      /\ \A i, j \in 1 .. n - 1 : i + 1 = j + 1 => i = j
      /\ \A i \in 1 .. n : i = 1 \/ \E j \in 1 .. n - 1 : i = j + 1
      /\ 1 \in 1 .. n
  <2>1. \A i \in 1 .. n : i = 1 \/ (i - 1 \in 1 .. n - 1 /\ i = (i - 1) + 1)
    BY <1>1
  <2> QED BY <1>1, <2>1
<1>4. IsInjective(t)
  <2>1. ASSUME NEW i \in 1 .. n - 1, NEW j \in 1 .. n - 1, t[i] = t[j]  PROVE i = j
    <3>1. l[i + 1] = l[j + 1] /\ i + 1 \in 1 .. n /\ j + 1 \in 1 .. n
      BY <1>1, <1>3, <2>1
    <3>2. i + 1 = j + 1
      BY <1>2, <3>1 DEF IsInjective
    <3> QED BY <1>3, <3>2
  <2> QED BY <1>2, <2>1 DEF IsInjective
<1>5. ASSUME NEW o \in Parties  PROVE Waits(t, o) => o # p /\ Waits(l, o)
  BY <1>1, <1>2, <1>3 DEF Waits, IsInjective
<1>6. ASSUME NEW o \in Parties, o # p, Waits(l, o)  PROVE Waits(t, o)
  <2>1. PICK i \in 1 .. n : l[i] = o
    BY <1>2, <1>6 DEF Waits
  <2>2. PICK j \in 1 .. n - 1 : i = j + 1
    BY <1>1, <1>3, <1>6, <2>1
  <2> QED BY <1>1, <1>2, <2>1, <2>2 DEF Waits
<1> QED BY <1>1, <1>4, <1>5, <1>6 DEF t

LEMMA LineFacts ==
  ASSUME NEW l \in Seq(Parties)
  PROVE  /\ \A p, o \in Parties : Holds(l, p) /\ Holds(l, o) => p = o
         /\ \A p \in Parties : Waits(l, p) => l # <<>>
         /\ \A p \in Parties : Holds(l, p) => Waits(l, p)
<1>1. \A p, o \in Parties : Holds(l, p) /\ Holds(l, o) => p = o
  BY DEF Holds
<1>2. \A p \in Parties : Waits(l, p) => l # <<>>
  <2>1. DOMAIN l = 1 .. Len(l)
    BY LenProperties
  <2> QED BY <2>1, EmptySeq DEF Waits
<1>3. ASSUME NEW p \in Parties, Holds(l, p)  PROVE Waits(l, p)
  <2>1. l # <<>> /\ l[1] = p /\ Len(l) \in Nat /\ Len(l) # 0
    BY <1>3, EmptySeq DEF Holds
  <2> QED BY <2>1 DEF Waits
<1> QED BY <1>1, <1>2, <1>3

LEMMA SyncFacts ==
  ASSUME NEW s, On(s)
  PROVE  /\ On(Invalidated(s)) /\ ~Starts(Invalidated(s))
         /\ Starts(s) => s.phase = "idle" /\ Invalidated(s).phase = "running"
         /\ ~Starts(s) => Invalidated(s).phase = s.phase
         /\ s.phase = "running" =>
              /\ On(CommandReturned(s)) /\ CommandReturned(s).phase = "settling"
              /\ On(CommandThrew(s)) /\ CommandThrew(s).phase = "backoff"
         /\ s.phase = "backoff" => On(Retried(s)) /\ Retried(s).phase = "running"
         /\ s.phase = "settling" =>
              /\ On(Settled(s))
              /\ Settled(s).phase = IF Reruns(s) THEN "running" ELSE "idle"
<1>1. /\ On(Invalidated(s)) /\ ~Starts(Invalidated(s))
      /\ Starts(s) => s.phase = "idle" /\ Invalidated(s).phase = "running"
      /\ ~Starts(s) => Invalidated(s).phase = s.phase
  BY DEF On, Starts, Invalidated, SyncState
<1>2. s.phase = "running" =>
              /\ On(CommandReturned(s)) /\ CommandReturned(s).phase = "settling"
              /\ On(CommandThrew(s)) /\ CommandThrew(s).phase = "backoff"
  BY DEF On, CommandReturned, CommandThrew, SyncState
<1>3. s.phase = "backoff" => On(Retried(s)) /\ Retried(s).phase = "running"
  BY DEF On, Retried, SyncState
<1>4. s.phase = "settling" =>
              /\ On(Settled(s))
              /\ Settled(s).phase = IF Reruns(s) THEN "running" ELSE "idle"
  BY DEF On, Settled, Reruns, SyncState
<1> QED BY <1>1, <1>2, <1>3, <1>4

Twice(s) == Invalidated(Invalidated(s))

LEMMA InvalidateJoins ==
  ASSUME On(msgSync), NEW l \in Seq(Parties), IsInjective(l),
         Waits(l, "fetch") <=> msgSync.phase = "running",
         NEW s \in {Invalidated(msgSync), Twice(msgSync)},
         MessagesInvalidated(s, l)
  PROVE  /\ On(msgSync') /\ lock' \in Seq(Parties) /\ IsInjective(lock')
         /\ Waits(lock', "fetch") <=> msgSync'.phase = "running"
         /\ \A o \in Parties : o # "fetch" => (Waits(lock', o) <=> Waits(l, o))
         /\ \A o \in Parties : Holds(l, o) => Holds(lock', o)
<1>1. msgSync' = s /\ lock' = IF Starts(msgSync) THEN Append(l, "fetch") ELSE l
  BY DEF MessagesInvalidated
<1>2. On(s) /\ s.phase = Invalidated(msgSync).phase
  BY SyncFacts DEF Twice
<1>3. CASE Starts(msgSync)
  <2>1. ~Waits(l, "fetch") /\ s.phase = "running" /\ "fetch" \in Parties
    BY <1>2, <1>3, SyncFacts DEF Parties
  <2>2. lock' = Append(l, "fetch")
    BY <1>1, <1>3
  <2> QED BY <1>1, <1>2, <2>1, <2>2, LineJoins
<1>4. CASE ~Starts(msgSync)
  <2>1. s.phase = msgSync.phase /\ lock' = l
    BY <1>1, <1>2, <1>4, SyncFacts
  <2> QED BY <1>1, <1>2, <2>1
<1> QED BY <1>3, <1>4

(* What the line of the lock looks like after a step, when nobody but p and*)
(* o change their minds about it.                                          *)
LEMMA QueueJoins ==
  ASSUME LockLine
  PROVE  /\ LockWithQueue \in Seq(Parties) /\ IsInjective(LockWithQueue)
         /\ Waits(LockWithQueue, "queue") <=> proc \in {"no", "waiting"}
         /\ \A o \in Parties : o # "queue" => (Waits(LockWithQueue, o) <=> Waits(lock, o))
         /\ \A o \in Parties : Holds(lock, o) => Holds(LockWithQueue, o)
<1>1. "queue" \in Parties
  BY DEF Parties
<1>2. CASE proc = "no"
  <2>1. ~Waits(lock, "queue") /\ LockWithQueue = Append(lock, "queue")
    BY <1>2 DEF LockLine, LockWithQueue
  <2> QED BY <1>1, <1>2, <2>1, LineJoins DEF LockLine
<1>3. CASE proc # "no"
  BY <1>3 DEF LockLine, LockWithQueue
<1> QED BY <1>2, <1>3

-----------------------------------------------------------------------------
(* What a step leaves alone.                                               *)

Data == CursorsInLog /\ FetchIsWhole /\ OlderIsWhole
Cover == OwnIsLoaded /\ CursorCovers /\ HistoryIsComplete

LEMMA LogStays ==
  ASSUME LogTypes, rows' = rows, news' \subseteq news,
         unsent' \subseteq OwnIds, unanswered' \subseteq OwnIds
  PROVE  LogTypes'
  BY DEF LogTypes

LEMMA DataStays ==
  ASSUME Data, UNCHANGED <<rows, fetch, older, lastSeq, oldestSeq>>,
         view.entry => view'.entry
  PROVE  Data'
<1>1. CursorsInLog'
  BY DEF Data, CursorsInLog, Reached
<1>2. FetchIsWhole'
  BY DEF Data, FetchIsWhole
<1>3. OlderIsWhole'
  BY DEF Data, OlderIsWhole, OlderMore
<1> QED BY <1>1, <1>2, <1>3 DEF Data

LEMMA CoverStays ==
  ASSUME IInv, UNCHANGED <<rows, lastSeq, oldestSeq, blind>>, jumped \subseteq jumped',
         Loaded \subseteq Loaded', view'.more = view.more,
         unsent' \union unanswered' \subseteq unsent \union unanswered \union Loaded'
  PROVE  Cover'
<1>1. OwnIsLoaded'
  BY DEF IInv, OwnIsLoaded
<1>2. CursorCovers'
  BY DEF IInv, CursorCovers
<1>3. HistoryIsComplete'
  <2>1. CASE view.entry
    BY <2>1 DEF IInv, HistoryIsComplete
  <2>2. CASE ~view.entry
    BY <2>2 DEF IInv, CursorsInLog, HistoryIsComplete, LogTypes, Row, Undefined
  <2> QED BY <2>1, <2>2
<1> QED BY <1>1, <1>2, <1>3 DEF Cover

LEMMA Parts == IInv <=> LogTypes /\ ReadTypes /\ LockLine /\ Data /\ Cover
  BY DEF IInv, Data, Cover

-----------------------------------------------------------------------------
(* The log, own messages and the queue.                                    *)

LEMMA StoreStep ==
  ASSUME IInv, NEW id \in Ids, ServerStores(id), UNCHANGED <<lockVars, readVars>>,
         unsent' \subseteq OwnIds, unanswered' \subseteq OwnIds,
         unsent' \union unanswered' \subseteq unsent \union unanswered
  PROVE  IInv'
<1> DEFINE new == [seq |-> Top(rows, 0) + 1, id |-> id]
<1>1. rows' = rows \union {new} /\ news' = news \union {new}
  BY DEF ServerStores
<1>2. UNCHANGED <<lock, queue, proc, msgSync, fetch, older, prefetch, view,
                  lastSeq, oldestSeq, jumped, blind>>
  BY DEF lockVars, readVars
<1>3. /\ new \in Row /\ \A r \in rows : r.seq < new.seq /\ r.seq \in Nat
  <2>1. Top(rows, 0) \in Int /\ 0 <= Top(rows, 0) /\ \A r \in rows : r.seq <= Top(rows, 0)
    BY TopFacts DEF IInv, LogTypes
  <2>2. \A r \in rows : r.seq \in Nat
    BY DEF IInv, LogTypes, Row
  <2> QED BY <2>1, <2>2 DEF Row
<1> HIDE DEF new
<1>4. LogTypes'
  <2>1. IsFiniteSet(rows')
    BY <1>1, FS_AddElement DEF IInv, LogTypes
  <2>2. \A r, q \in rows' : r.seq = q.seq => r = q
    BY <1>1, <1>3 DEF IInv, LogTypes
  <2> QED BY <1>1, <1>3, <2>1, <2>2 DEF IInv, LogTypes
<1>5. ReadTypes'
  BY <1>1, <1>2 DEF IInv, ReadTypes
<1>6. LockLine'
  BY <1>2 DEF IInv, LockLine
<1>7. lastSeq < new.seq /\ oldestSeq <= new.seq /\ new.seq \in Nat
  BY <1>3 DEF IInv, CursorsInLog, Reached, ReadTypes, Row, Undefined
<1>8. CursorsInLog'
  BY <1>1, <1>2 DEF IInv, CursorsInLog, Reached
<1>9. FetchIsWhole'
  <2>1. \A p \in fetch.page : p \in rows /\ p.seq < new.seq /\ p.seq \in Nat
    BY <1>3 DEF IInv, ReadTypes
  <2>2. /\ \A r \in rows' : r \in rows \/ r = new
        /\ \A p \in fetch.page : ~(new.seq <= p.seq) /\ p.seq <= new.seq
    BY <1>1, <1>3, <2>1 DEF Row
  <2>3. ASSUME fetch.phase = "read", fetch.from # Undefined,
               NEW p \in fetch.page, NEW r \in rows', fetch.from < r.seq, r.seq <= p.seq
        PROVE  r \in fetch.page
    BY <2>2, <2>3 DEF IInv, FetchIsWhole
  <2>4. ASSUME fetch.phase = "read", fetch.from = Undefined
        PROVE  /\ \A p, q \in fetch.page, r \in rows' :
                     p.seq <= r.seq /\ r.seq <= q.seq => r \in fetch.page
               /\ ~fetch.more => \A p \in fetch.page, r \in rows' :
                     r \in fetch.page \/ p.seq <= r.seq
    BY <2>2, <2>4 DEF IInv, FetchIsWhole
  <2>5. fetch.phase # "none" => /\ fetch.from <= lastSeq
                                /\ fetch.from = Undefined => oldestSeq = Undefined
    BY DEF IInv, FetchIsWhole
  <2> QED BY <1>2, <2>3, <2>4, <2>5 DEF FetchIsWhole
<1>10. OlderIsWhole'
  <2>1. \A p \in older.page : p \in rows /\ p.seq < new.seq /\ p.seq \in Nat
    BY <1>3 DEF IInv, ReadTypes
  <2>2. older.phase = "read" => ~(new.seq < older.before)
    BY <1>7 DEF IInv, OlderIsWhole, ReadTypes, Undefined
  <2>3. OlderMore' <=> OlderMore
    BY <1>2 DEF OlderMore
  <2> QED BY <1>1, <1>2, <1>3, <2>1, <2>2, <2>3 DEF IInv, OlderIsWhole
<1>11. OwnIsLoaded'
  BY <1>2 DEF IInv, OwnIsLoaded, Loaded
<1>12. CursorCovers'
  BY <1>1, <1>2, <1>7 DEF IInv, CursorCovers, Loaded, ReadTypes, Undefined
<1>13. HistoryIsComplete'
  BY <1>1, <1>2, <1>7 DEF IInv, HistoryIsComplete
<1> QED BY <1>4, <1>5, <1>6, <1>8, <1>9, <1>10, <1>11, <1>12, <1>13 DEF IInv

LEMMA OthersWriteStep ==
  ASSUME IInv, NEW id \in OtherIds, OthersWrite(id)
  PROVE  IInv'
<1>1. id \in Ids /\ ServerStores(id) /\ UNCHANGED <<unsent, unanswered>>
      /\ UNCHANGED <<lockVars, readVars>>
  BY DEF OthersWrite, Ids
<1> QED BY <1>1, StoreStep DEF IInv, LogTypes

LEMMA PostStoredStep ==
  ASSUME IInv, NEW id \in OwnIds, PostStored(id)
  PROVE  IInv'
<1>1. id \in Ids /\ ServerStores(id) /\ UNCHANGED <<lockVars, readVars>>
      /\ unsent' = unsent \ {id} /\ unanswered' = unanswered \union {id} /\ id \in unsent
  BY DEF PostStored, Ids
<1> QED BY <1>1, StoreStep DEF IInv, LogTypes

LEMMA DisconnectStep ==
  ASSUME IInv, Disconnect
  PROVE  IInv'
<1>1. /\ UNCHANGED <<rows, unsent, unanswered, lock, queue, proc, msgSync, fetch, older,
                     prefetch, view, lastSeq, oldestSeq, jumped, blind>>
      /\ news' = {}
  BY DEF Disconnect, lockVars, readVars
<1>2. LogTypes' /\ ReadTypes' /\ LockLine'
  BY <1>1 DEF IInv, LogTypes, ReadTypes, LockLine
<1>3. Data' /\ Cover'
  BY <1>1, DataStays, CoverStays, Parts DEF Loaded
<1> QED BY <1>2, <1>3, Parts DEF IInv, Data, Cover

LEMMA QueueDrainsStep ==
  ASSUME IInv, QueueDrains
  PROVE  IInv'
<1>1. /\ UNCHANGED <<rows, news, unsent, unanswered, msgSync, fetch, older, prefetch,
                     lastSeq, oldestSeq, jumped, blind>>
      /\ view' = [view EXCEPT !.shown = @ \union queue, !.entry = @ \/ queue # {}]
      /\ queue' = {} /\ proc' = "finishing" /\ lock' = Tail(lock)
      /\ proc = "waiting" /\ Head(lock) = "queue"
  BY DEF QueueDrains, serverVars
<1>2. /\ view' \in View /\ view'.shown = view.shown \union queue
      /\ view.entry => view'.entry
      /\ view'.more = view.more
  BY <1>1 DEF IInv, ReadTypes, View
<1>3. Holds(lock, "queue") /\ "queue" \in Parties /\ lock \in Seq(Parties) /\ IsInjective(lock)
  <2>1. "queue" \in Parties /\ lock \in Seq(Parties) /\ IsInjective(lock)
        /\ Waits(lock, "queue")
    BY <1>1 DEF IInv, LockLine, Parties
  <2>2. lock # <<>>
    BY <2>1, LineFacts
  <2> QED BY <1>1, <2>1, <2>2 DEF Holds
<1>4. LogTypes' /\ ReadTypes'
  BY <1>1, <1>2 DEF IInv, LogTypes, ReadTypes
<1>5. LockLine'
  <2>1. /\ lock' \in Seq(Parties) /\ IsInjective(lock')
        /\ \A o \in Parties : Waits(lock', o) <=> (o # "queue" /\ Waits(lock, o))
    BY <1>1, <1>3, LineMovesOn
  <2>2. fetch.phase = "none" /\ older.phase \notin {"asking", "read"}
    BY <1>3, LineFacts DEF IInv, LockLine, Parties
  <2> QED BY <1>1, <2>1, <2>2 DEF IInv, LockLine, Parties
<1>6. Data'
  BY <1>1, <1>2, DataStays, Parts
<1>7. Loaded' = Loaded
  BY <1>1, <1>2 DEF Loaded
<1>8. Cover'
  BY <1>1, <1>2, <1>7, CoverStays
<1> QED BY <1>4, <1>5, <1>6, <1>8 DEF IInv, Data, Cover

LEMMA QueueFinishesStep ==
  ASSUME IInv, QueueFinishes
  PROVE  IInv'
<1>1. /\ UNCHANGED <<rows, news, unsent, unanswered, queue, msgSync, fetch, older, prefetch,
                     view, lastSeq, oldestSeq, jumped, blind>>
      /\ proc = "finishing"
      /\ \/ proc' = "no" /\ lock' = lock
         \/ proc' = "waiting" /\ lock' = Append(lock, "queue")
  BY DEF QueueFinishes, serverVars, readVars
<1>2. LogTypes' /\ ReadTypes'
  BY <1>1 DEF IInv, LogTypes, ReadTypes
<1>3. LockLine'
  <2>1. CASE proc' = "no" /\ lock' = lock
    BY <1>1, <2>1 DEF IInv, LockLine
  <2>2. CASE proc' = "waiting" /\ lock' = Append(lock, "queue")
    <3>1. "queue" \in Parties /\ lock \in Seq(Parties) /\ IsInjective(lock)
          /\ ~Waits(lock, "queue")
      BY <1>1 DEF IInv, LockLine, Parties
    <3>2. /\ lock' \in Seq(Parties) /\ IsInjective(lock')
          /\ \A o \in Parties : Waits(lock', o) <=> (o = "queue" \/ Waits(lock, o))
          /\ \A o \in Parties : Holds(lock, o) => Holds(lock', o)
      BY <2>2, <3>1, LineJoins
    <3> QED BY <1>1, <2>2, <3>2 DEF IInv, LockLine, Parties
  <2> QED BY <1>1, <2>1, <2>2
<1>4. Data'
  BY <1>1, DataStays, Parts
<1>5. Loaded' = Loaded
  BY <1>1 DEF Loaded
<1>6. Cover'
  BY <1>1, <1>5, CoverStays
<1> QED BY <1>2, <1>3, <1>4, <1>6 DEF IInv, Data, Cover

LEMMA SendMessageStep ==
  ASSUME IInv, NEW id \in OwnIds, SendMessage(id)
  PROVE  IInv'
<1>1. /\ UNCHANGED <<rows, news, unanswered, msgSync, fetch, older, prefetch,
                     view, lastSeq, oldestSeq, jumped, blind>>
      /\ queue' = queue \union {id} /\ unsent' = unsent \union {id}
      /\ proc' = IF proc = "no" THEN "waiting" ELSE proc
      /\ lock' = LockWithQueue
  BY DEF SendMessage, Enqueued, readVars
<1>2. LogTypes' /\ ReadTypes'
  BY <1>1 DEF IInv, LogTypes, ReadTypes, Ids
<1>3. LockLine'
  <2>1. /\ LockWithQueue \in Seq(Parties) /\ IsInjective(LockWithQueue)
        /\ Waits(LockWithQueue, "queue") <=> proc \in {"no", "waiting"}
        /\ \A o \in Parties : o # "queue" => (Waits(LockWithQueue, o) <=> Waits(lock, o))
        /\ \A o \in Parties : Holds(lock, o) => Holds(LockWithQueue, o)
    BY QueueJoins DEF IInv
  <2> QED BY <1>1, <2>1 DEF IInv, LockLine, Parties, ReadTypes
<1>4. Data'
  BY <1>1, DataStays, Parts
<1>5. Loaded' = Loaded \union {id}
  BY <1>1 DEF Loaded
<1>6. Cover'
  BY <1>1, <1>5, CoverStays
<1> QED BY <1>2, <1>3, <1>4, <1>6 DEF IInv, Data, Cover

(* The answer to an own POST moves lastSeq up to the own row; what it jumps*)
(* over is remembered, and the own row has been shown since it was typed.  *)
LEMMA PostAnsweredStep ==
  ASSUME IInv, NEW id \in OwnIds, PostAnswered(id)
  PROVE  IInv'
<1> DEFINE own == {r \in rows : r.id = id}
           n == LastSeqOrZero
           l == Top(own, n)
<1>1. /\ UNCHANGED <<rows, news, unsent, lock, queue, proc, msgSync, fetch, older, prefetch,
                     view, oldestSeq, blind>>
      /\ id \in unanswered /\ unanswered' = unanswered \ {id}
      /\ lastSeq' = l
      /\ jumped' = jumped \union {r \in rows : n < r.seq /\ r.seq < l}
  BY DEF PostAnswered, lockVars
<1>2. own \in SUBSET Row /\ IsFiniteSet(own) /\ \A r \in rows : r.seq \in Nat \ {0}
  BY FS_Subset DEF IInv, LogTypes, Row
<1>3. n \in Nat /\ lastSeq <= n /\ (lastSeq # Undefined => n = lastSeq)
      /\ (lastSeq = Undefined => n = 0) /\ lastSeq \in Int
  BY DEF LastSeqOrZero, IInv, ReadTypes, Undefined
<1> HIDE DEF n, own
<1>4. /\ l \in Int /\ n <= l
      /\ l = n \/ \E r \in own : l = r.seq
  BY <1>2, <1>3, TopFacts
<1> HIDE DEF l
<1>5. lastSeq' \in Nat /\ lastSeq <= lastSeq' /\ lastSeq' # Undefined
  BY <1>1, <1>3, <1>4 DEF Undefined
<1>6. LogTypes'
  BY <1>1 DEF IInv, LogTypes
<1>7. ReadTypes'
  BY <1>1, <1>5 DEF IInv, ReadTypes
<1>8. LockLine'
  BY <1>1 DEF IInv, LockLine
<1>9. CursorsInLog'
  <2>1. Reached(lastSeq')
    <3>1. CASE l = n
      <4>1. Reached(lastSeq) /\ Reached(0)
        BY DEF IInv, CursorsInLog, Reached
      <4>2. lastSeq' = lastSeq \/ lastSeq' = 0
        BY <1>1, <1>3, <3>1
      <4> QED BY <4>1, <4>2
    <3>2. CASE \E r \in own : l = r.seq
      <4>1. PICK r \in own : l = r.seq
        BY <3>2
      <4>2. r \in rows /\ lastSeq' <= r.seq
        BY <1>1, <1>2, <4>1 DEF own
      <4> QED BY <4>2 DEF Reached
    <3> QED BY <1>4, <3>1, <3>2
  <2> QED BY <1>1, <1>5, <2>1 DEF IInv, CursorsInLog, Reached
<1>10. FetchIsWhole'
  <2>1. fetch.phase # "none" => fetch.from <= lastSeq'
    BY <1>3, <1>5 DEF IInv, FetchIsWhole, ReadTypes, FetchState, Undefined
  <2> QED BY <1>1, <2>1 DEF IInv, FetchIsWhole
<1>11. OlderIsWhole'
  BY <1>1 DEF IInv, OlderIsWhole, OlderMore
<1>12. Loaded' = Loaded
  BY <1>1 DEF Loaded
<1>13. OwnIsLoaded'
  BY <1>1, <1>12 DEF IInv, OwnIsLoaded
<1>14. CursorCovers'
  <2> SUFFICES ASSUME NEW r \in rows, r \notin jumped', oldestSeq <= r.seq, r.seq <= lastSeq'
               PROVE  r.id \in Loaded
    BY <1>1, <1>12 DEF CursorCovers
  <2>1. r \notin jumped /\ ~(n < r.seq /\ r.seq < l) /\ r.seq \in Nat \ {0}
    BY <1>1, <1>2
  <2>2. CASE r.seq <= n
    <3>1. lastSeq # Undefined /\ n = lastSeq
      BY <1>3, <2>1, <2>2
    <3> QED BY <2>1, <2>2, <3>1 DEF IInv, CursorCovers
  <2>3. CASE r.seq = l /\ l # n
    <3>1. PICK q \in own : l = q.seq
      BY <1>4, <2>3
    <3>2. q \in rows /\ q.id = id
      BY <3>1 DEF own
    <3>3. r = q
      BY <2>3, <3>1, <3>2 DEF IInv, LogTypes
    <3> QED BY <1>1, <3>2, <3>3 DEF IInv, OwnIsLoaded
  <2> QED BY <1>1, <1>3, <1>4, <2>1, <2>2, <2>3
<1>15. HistoryIsComplete'
  BY <1>1 DEF IInv, HistoryIsComplete
<1> QED BY <1>6, <1>7, <1>8, <1>9, <1>10, <1>11, <1>13, <1>14, <1>15 DEF IInv

LEMMA SessionVisibleStep ==
  ASSUME IInv, SessionVisible
  PROVE  IInv'
<1>1. /\ UNCHANGED <<rows, news, unsent, unanswered, queue, proc, fetch, older, prefetch,
                     view, lastSeq, oldestSeq, jumped, blind>>
      /\ MessagesInvalidated(Invalidated(msgSync), lock)
  BY DEF SessionVisible, serverVars
<1>2. /\ On(msgSync') /\ lock' \in Seq(Parties) /\ IsInjective(lock')
      /\ Waits(lock', "fetch") <=> msgSync'.phase = "running"
      /\ \A o \in Parties : o # "fetch" => (Waits(lock', o) <=> Waits(lock, o))
      /\ \A o \in Parties : Holds(lock, o) => Holds(lock', o)
  BY <1>1, InvalidateJoins DEF IInv, LockLine, ReadTypes
<1>3. LogTypes' /\ ReadTypes'
  BY <1>1, <1>2 DEF IInv, LogTypes, ReadTypes
<1>4. LockLine'
  BY <1>1, <1>2 DEF IInv, LockLine, Parties
<1>5. Data'
  BY <1>1, DataStays, Parts
<1>6. Loaded' = Loaded
  BY <1>1 DEF Loaded
<1>7. Cover'
  BY <1>1, <1>6, CoverStays
<1> QED BY <1>3, <1>4, <1>5, <1>7 DEF IInv, Data, Cover

(* The next row in line, if there is something to show of it, goes to the  *)
(* queue with the cursor; for any other the fetch loop is invalidated.     *)
LEMMA NewsArrivesStep ==
  ASSUME IInv, NEW r \in news, NewsArrives(r)
  PROVE  IInv'
<1> DEFINE next == IsNext(r) /\ r.id \notin Hidden
<1>1. /\ UNCHANGED <<rows, unsent, unanswered, fetch, older, prefetch, view, oldestSeq,
                     jumped, blind>>
      /\ news' = news \ {r} /\ r \in rows
  BY DEF NewsArrives, IInv, LogTypes
<1>2. LogTypes'
  BY <1>1 DEF IInv, LogTypes
<1>3. CASE next
  <2>1. /\ queue' = queue \union {r.id} /\ proc' = IF proc = "no" THEN "waiting" ELSE proc
        /\ lastSeq # Undefined /\ r.seq = lastSeq + 1 /\ lastSeq' = r.seq
        /\ MessagesInvalidated(Invalidated(msgSync), LockWithQueue)
    BY <1>3 DEF NewsArrives, Enqueued, IsNext
  <2>2. /\ LockWithQueue \in Seq(Parties) /\ IsInjective(LockWithQueue)
        /\ Waits(LockWithQueue, "queue") <=> proc \in {"no", "waiting"}
        /\ \A o \in Parties : o # "queue" => (Waits(LockWithQueue, o) <=> Waits(lock, o))
        /\ \A o \in Parties : Holds(lock, o) => Holds(LockWithQueue, o)
    BY QueueJoins DEF IInv
  <2>3. /\ On(msgSync') /\ lock' \in Seq(Parties) /\ IsInjective(lock')
        /\ Waits(lock', "fetch") <=> msgSync'.phase = "running"
        /\ \A o \in Parties : o # "fetch" => (Waits(lock', o) <=> Waits(LockWithQueue, o))
        /\ \A o \in Parties : Holds(LockWithQueue, o) => Holds(lock', o)
    <3>1. Waits(LockWithQueue, "fetch") <=> msgSync.phase = "running"
      BY <2>2 DEF IInv, LockLine, Parties
    <3>2. On(msgSync)
      BY DEF IInv, ReadTypes
    <3> QED BY <2>1, <2>2, <3>1, <3>2, InvalidateJoins
  <2>4. lastSeq \in Nat /\ r \in Row /\ lastSeq' \in Nat /\ lastSeq <= lastSeq'
        /\ lastSeq' # Undefined
    BY <1>1, <2>1 DEF IInv, LogTypes, ReadTypes, Row, Undefined
  <2>5. ReadTypes'
    BY <1>1, <2>1, <2>3, <2>4 DEF IInv, ReadTypes, Row
  <2>6. LockLine'
    BY <1>1, <2>1, <2>2, <2>3 DEF IInv, LockLine, Parties, ReadTypes
  <2>7. CursorsInLog'
    <3>1. Reached(lastSeq')
      BY <1>1, <2>1, <2>4 DEF Reached
    <3> QED BY <1>1, <2>4, <3>1 DEF IInv, CursorsInLog, Reached
  <2>8. FetchIsWhole'
    <3>1. fetch.phase # "none" => fetch.from <= lastSeq'
      BY <2>4 DEF IInv, FetchIsWhole, ReadTypes, FetchState, Undefined
    <3> QED BY <1>1, <3>1 DEF IInv, FetchIsWhole
  <2>9. OlderIsWhole'
    BY <1>1 DEF IInv, OlderIsWhole, OlderMore
  <2>10. Loaded' = Loaded \union {r.id}
    BY <1>1, <2>1 DEF Loaded
  <2>11. OwnIsLoaded' /\ HistoryIsComplete'
    BY <1>1, <2>10 DEF IInv, OwnIsLoaded, HistoryIsComplete
  <2>12. CursorCovers'
    <3> SUFFICES ASSUME NEW q \in rows, q \notin jumped, oldestSeq <= q.seq, q.seq <= lastSeq'
                 PROVE  q.id \in Loaded'
      BY <1>1 DEF CursorCovers
    <3>1. q.seq \in Nat
      BY DEF IInv, LogTypes, Row
    <3>2. CASE q.seq = r.seq
      BY <1>1, <2>10, <3>2 DEF IInv, LogTypes
    <3>3. CASE q.seq # r.seq
      <4>1. q.seq <= lastSeq
        BY <2>1, <2>4, <3>1, <3>3
      <4> QED BY <2>1, <2>10, <4>1 DEF IInv, CursorCovers
    <3> QED BY <3>2, <3>3
  <2> QED BY <1>2, <2>5, <2>6, <2>7, <2>8, <2>9, <2>11, <2>12 DEF IInv
<1>4. CASE ~next
  <2>1. /\ UNCHANGED <<queue, proc, lastSeq>>
        /\ MessagesInvalidated(Twice(msgSync), lock)
    BY <1>4 DEF NewsArrives, Twice
  <2>2. /\ On(msgSync') /\ lock' \in Seq(Parties) /\ IsInjective(lock')
        /\ Waits(lock', "fetch") <=> msgSync'.phase = "running"
        /\ \A o \in Parties : o # "fetch" => (Waits(lock', o) <=> Waits(lock, o))
        /\ \A o \in Parties : Holds(lock, o) => Holds(lock', o)
    BY <2>1, InvalidateJoins DEF IInv, LockLine, ReadTypes
  <2>3. ReadTypes'
    BY <1>1, <2>1, <2>2 DEF IInv, ReadTypes
  <2>4. LockLine'
    BY <1>1, <2>1, <2>2 DEF IInv, LockLine, Parties
  <2>5. Data'
    BY <1>1, <2>1, DataStays, Parts
  <2>6. Loaded' = Loaded
    BY <1>1, <2>1 DEF Loaded
  <2>7. Cover'
    BY <1>1, <2>1, <2>6, CoverStays
  <2> QED BY <1>2, <2>3, <2>4, <2>5, <2>7 DEF IInv, Data, Cover
<1> QED BY <1>3, <1>4

-----------------------------------------------------------------------------
(* Fetching.                                                               *)

LEMMA FetchAsksStep ==
  ASSUME IInv, FetchAsks
  PROVE  IInv'
<1>1. /\ UNCHANGED <<rows, news, unsent, unanswered, lock, queue, proc, msgSync, older,
                     prefetch, view, lastSeq, oldestSeq, jumped, blind>>
      /\ fetch' = [NoFetch EXCEPT !.phase = "asking", !.from = lastSeq]
      /\ Holds(lock, "fetch")
  BY DEF FetchAsks, Fetching, Holds, serverVars, lockVars
<1>2. /\ fetch' \in FetchState /\ fetch'.page = {} /\ fetch'.phase = "asking"
      /\ fetch'.from = lastSeq
  BY <1>1 DEF NoFetch, FetchState, IInv, ReadTypes
<1>3. LogTypes' /\ ReadTypes'
  BY <1>1, <1>2 DEF IInv, LogTypes, ReadTypes
<1>4. LockLine'
  BY <1>1, <1>2 DEF IInv, LockLine
<1>5. CursorsInLog' /\ OlderIsWhole'
  BY <1>1 DEF IInv, CursorsInLog, Reached, OlderIsWhole, OlderMore
<1>6. FetchIsWhole'
  <2>1. lastSeq <= lastSeq /\ (lastSeq = Undefined => oldestSeq = Undefined)
    BY DEF IInv, CursorsInLog, ReadTypes, Undefined
  <2> QED BY <1>1, <1>2, <2>1 DEF FetchIsWhole
<1>7. Loaded' = Loaded
  BY <1>1 DEF Loaded
<1>8. Cover'
  BY <1>1, <1>7, CoverStays
<1> QED BY <1>3, <1>4, <1>5, <1>6, <1>8 DEF IInv, Cover

(* The page a GET returns is whole at that moment.                         *)
LEMMA FetchReadStep ==
  ASSUME IInv, FetchRead
  PROVE  IInv'
<1> DEFINE from == fetch.from
           all == {r \in rows : r.seq > from}
<1>1. /\ UNCHANGED <<rows, news, unsent, unanswered, lock, queue, proc, msgSync, older,
                     prefetch, view, lastSeq, oldestSeq, jumped, blind>>
      /\ fetch.phase = "asking"
  BY DEF FetchRead, serverVars, lockVars
<1>2. PICK page : /\ page = IF from = Undefined THEN Backward(rows) ELSE Forward(from)
                  /\ fetch' = [fetch EXCEPT !.phase = "read", !.page = page,
                                            !.more = page # all]
  BY DEF FetchRead
<1>3. from \in Int /\ from \in Nat \union {Undefined} /\ \A r \in rows : r.seq \in Nat \ {0}
  BY DEF IInv, ReadTypes, FetchState, LogTypes, Row, Undefined
<1>4. page \subseteq rows
  <2>1. Backward(rows) \subseteq rows /\ Forward(from) \subseteq rows
    BY <1>3, BackwardFacts, ForwardFacts DEF IInv
  <2> QED BY <1>2, <2>1
<1>5. /\ fetch' \in FetchState /\ fetch'.phase = "read" /\ fetch'.page = page
      /\ fetch'.from = from /\ fetch'.more = (page # all)
  <2>1. page \in SUBSET Row
    BY <1>4 DEF IInv, LogTypes
  <2> HIDE DEF all
  <2> QED BY <1>2, <2>1 DEF IInv, ReadTypes, FetchState
<1>6. LogTypes' /\ ReadTypes'
  BY <1>1, <1>4, <1>5 DEF IInv, LogTypes, ReadTypes
<1>7. LockLine'
  BY <1>1, <1>5 DEF IInv, LockLine
<1>8. CursorsInLog' /\ OlderIsWhole'
  BY <1>1 DEF IInv, CursorsInLog, Reached, OlderIsWhole, OlderMore
<1>9. FetchIsWhole'
  <2>1. from <= lastSeq /\ (from = Undefined => oldestSeq = Undefined)
    BY <1>1 DEF IInv, FetchIsWhole
  <2>2. ASSUME from # Undefined, NEW p \in page, NEW r \in rows, from < r.seq, r.seq <= p.seq
        PROVE  r \in page
    <3>1. page = Forward(from)
      BY <1>2, <2>2
    <3> QED BY <1>3, <2>2, <3>1, ForwardFacts DEF IInv
  <2>3. ASSUME from = Undefined
        PROVE  /\ \A p, q \in page, r \in rows : p.seq <= r.seq /\ r.seq <= q.seq => r \in page
               /\ ~fetch'.more => \A p \in page, r \in rows : r \in page \/ p.seq <= r.seq
    <3>1. page = Backward(rows)
      BY <1>2, <2>3
    <3>2. \A p \in page, r \in rows : p.seq <= r.seq => r \in page
      BY <3>1, BackwardFacts DEF IInv
    <3>3. ~fetch'.more => page = rows
      <4>1. all = rows
        BY <1>3, <2>3 DEF Undefined
      <4> HIDE DEF all
      <4> QED BY <1>5, <4>1
    <3> QED BY <3>2, <3>3
  <2> HIDE DEF from
  <2>4. fetch'.from = from
    BY <1>5
  <2> QED BY <1>1, <1>5, <2>1, <2>2, <2>3, <2>4 DEF FetchIsWhole
<1>10. Loaded' = Loaded
  BY <1>1 DEF Loaded
<1>11. Cover'
  BY <1>1, <1>10, CoverStays
<1> QED BY <1>6, <1>7, <1>8, <1>9, <1>11 DEF IInv, Cover

(* Nobody loads older messages while a fetch has the lock.                 *)
LEMMA FetchHasLock ==
  ASSUME IInv, Holds(lock, "fetch")
  PROVE  /\ older.phase \in {"none", "locking"} /\ msgSync.phase = "running"
         /\ lock \in Seq(Parties) /\ IsInjective(lock) /\ "fetch" \in Parties
<1>1. "fetch" \in Parties /\ "older" \in Parties /\ lock \in Seq(Parties) /\ IsInjective(lock)
  BY DEF Parties, IInv, LockLine
<1>2. ~Holds(lock, "older") /\ Waits(lock, "fetch")
  BY <1>1, LineFacts
<1>3. older.phase \notin {"asking", "read"} /\ msgSync.phase = "running"
  BY <1>2 DEF IInv, LockLine
<1>4. older.phase \in {"none", "locking", "asking", "read"}
  BY DEF IInv, ReadTypes, OlderState
<1> QED BY <1>1, <1>3, <1>4

(* The fetch gives the lock back: it is done, or waits to try again.       *)
LEMMA FetchLeaves ==
  ASSUME IInv, Holds(lock, "fetch"), fetch' = NoFetch, lock' = Tail(lock),
         msgSync' \in {CommandReturned(msgSync), CommandThrew(msgSync)},
         UNCHANGED <<proc, older>>
  PROVE  LockLine' /\ On(msgSync') /\ fetch' \in FetchState /\ fetch'.page = {}
         /\ fetch'.phase = "none"
<1>1. /\ older.phase \in {"none", "locking"} /\ msgSync.phase = "running"
      /\ lock \in Seq(Parties) /\ IsInjective(lock) /\ "fetch" \in Parties
  BY FetchHasLock
<1>2. /\ lock' \in Seq(Parties) /\ IsInjective(lock')
      /\ \A o \in Parties : Waits(lock', o) <=> (o # "fetch" /\ Waits(lock, o))
  BY <1>1, LineMovesOn
<1>3. On(msgSync') /\ msgSync'.phase # "running"
  BY <1>1, SyncFacts DEF IInv, ReadTypes
<1>4. fetch' \in FetchState /\ fetch'.page = {} /\ fetch'.phase = "none"
  BY DEF NoFetch, FetchState, Undefined
<1>5. LockLine'
  BY <1>1, <1>2, <1>3, <1>4 DEF IInv, LockLine, Parties
<1> QED BY <1>3, <1>4, <1>5

(* The first page sets both cursors to its ends.                           *)
LEMMA FetchInitialAppliesStep ==
  ASSUME IInv, FetchInitialApplies
  PROVE  IInv'
<1> DEFINE page == fetch.page
           shows == ~(IdsOf(page) \subseteq Hidden) \/ view.entry
<1>1. /\ UNCHANGED <<rows, news, unsent, unanswered, queue, proc, older, jumped>>
      /\ fetch.phase = "read" /\ fetch.from = Undefined
      /\ view' = [view EXCEPT !.shown = @ \union (IdsOf(page) \ Hidden), !.entry = TRUE,
                              !.more = shows /\ fetch.more]
      /\ blind' = ~shows /\ lastSeq' = Top(page, 0)
      /\ oldestSeq' = IF page = {} THEN oldestSeq ELSE Bottom(page, lastSeq')
      /\ prefetch' = "on" /\ FetchEnds
  BY DEF FetchInitialApplies, serverVars
<1>2. Holds(lock, "fetch")
  BY <1>1 DEF IInv, LockLine
<1>3. /\ page \in SUBSET Row /\ page \subseteq rows /\ IsFiniteSet(page)
      /\ \A r \in rows : r.seq \in Nat \ {0} /\ r.id \in Ids
  BY FS_Subset DEF IInv, LogTypes, ReadTypes, Row
<1>4. LockLine' /\ On(msgSync') /\ fetch' \in FetchState /\ fetch'.page = {}
      /\ fetch'.phase = "none"
  BY <1>1, <1>2, FetchLeaves DEF FetchEnds
<1>5. /\ \A p, q \in page, r \in rows : p.seq <= r.seq /\ r.seq <= q.seq => r \in page
      /\ ~fetch.more => \A p \in page, r \in rows : r \in page \/ p.seq <= r.seq
      /\ oldestSeq = Undefined
  BY <1>1 DEF IInv, FetchIsWhole
<1> HIDE DEF page
<1>6. /\ lastSeq' \in Nat /\ \A r \in page : r.seq <= lastSeq'
      /\ lastSeq' = 0 \/ \E r \in page : lastSeq' = r.seq
  <2>1. /\ Top(page, 0) \in Int /\ 0 <= Top(page, 0)
        /\ \A r \in page : r.seq <= Top(page, 0)
        /\ Top(page, 0) = 0 \/ \E r \in page : Top(page, 0) = r.seq
    BY <1>3, TopFacts
  <2> QED BY <1>1, <2>1
<1>7. ASSUME page # {}
      PROVE  /\ oldestSeq' \in Nat /\ \A r \in page : oldestSeq' <= r.seq
             /\ \E r \in page : oldestSeq' = r.seq
             /\ \E r \in page : lastSeq' = r.seq
  <2>1. /\ Bottom(page, lastSeq') \in Int
        /\ \A r \in page : Bottom(page, lastSeq') <= r.seq
        /\ Bottom(page, lastSeq') = lastSeq' \/ \E r \in page : Bottom(page, lastSeq') = r.seq
    BY <1>3, <1>6, BottomFacts
  <2>2. \E r \in page : lastSeq' = r.seq
    BY <1>3, <1>6, <1>7
  <2>3. oldestSeq' = Bottom(page, lastSeq')
    BY <1>1, <1>7
  <2> QED BY <1>3, <2>1, <2>2, <2>3
<1>8. page = {} => oldestSeq' = Undefined
  BY <1>1, <1>5
<1>9. /\ view' \in View /\ view'.entry = TRUE /\ view'.more = (shows /\ fetch.more)
      /\ view'.shown = view.shown \union (IdsOf(page) \ Hidden)
  <2>1. IdsOf(page) \subseteq Ids
    BY <1>3 DEF IdsOf
  <2>2. fetch.more \in BOOLEAN /\ view \in View
    BY DEF IInv, ReadTypes, FetchState
  <2> HIDE DEF shows
  <2>3. (shows /\ fetch.more) \in BOOLEAN
    OBVIOUS
  <2> QED BY <1>1, <2>1, <2>2, <2>3 DEF View
<1>10. LogTypes'
  BY <1>1 DEF IInv, LogTypes
<1>11. ReadTypes'
  <2>1. oldestSeq' \in Nat \union {Undefined} /\ blind' \in BOOLEAN
    BY <1>1, <1>7, <1>8
  <2> QED BY <1>1, <1>4, <1>6, <1>9, <2>1 DEF IInv, ReadTypes
<1>12. CursorsInLog'
  <2>1. Reached(lastSeq')
    BY <1>3, <1>6 DEF Reached
  <2>2. Reached(oldestSeq')
    BY <1>3, <1>7, <1>8 DEF Reached, Undefined
  <2>3. older.phase = "none"
    BY <1>5 DEF IInv, CursorsInLog
  <2> QED BY <1>1, <1>6, <1>9, <2>1, <2>2, <2>3 DEF CursorsInLog, Reached, Undefined
<1>13. FetchIsWhole' /\ OlderIsWhole'
  <2>1. older.phase = "none"
    BY <1>5 DEF IInv, CursorsInLog
  <2> QED BY <1>1, <1>4, <2>1 DEF FetchIsWhole, OlderIsWhole
<1>14. Loaded \subseteq Loaded' /\ IdsOf(page) \subseteq Loaded'
  BY <1>1, <1>9 DEF Loaded
<1>15. OwnIsLoaded'
  BY <1>1, <1>14 DEF IInv, OwnIsLoaded
<1>16. CursorCovers'
  <2> SUFFICES ASSUME NEW r \in rows, oldestSeq' <= r.seq, r.seq <= lastSeq'
               PROVE  r.id \in Loaded'
    BY <1>1 DEF CursorCovers
  <2>1. page # {}
    BY <1>3, <1>6
  <2>2. r \in page
    BY <1>5, <1>7, <2>1
  <2> QED BY <1>14, <2>2 DEF IdsOf
<1>17. HistoryIsComplete'
  <2> SUFFICES ASSUME ~view'.more, ~blind', NEW r \in rows  PROVE r.seq >= oldestSeq'
    BY <1>1 DEF HistoryIsComplete
  <2>1. ~fetch.more
    BY <1>1, <1>9
  <2>2. CASE page = {}
    BY <1>3, <1>8, <2>2 DEF Undefined
  <2>3. CASE page # {}
    BY <1>3, <1>5, <1>7, <2>1, <2>3
  <2> QED BY <2>2, <2>3
<1> QED BY <1>4, <1>10, <1>11, <1>12, <1>13, <1>15, <1>16, <1>17 DEF IInv

(* A forward page carries the cursor over its own rows, and back over what *)
(* live updates have taken it past meanwhile: that was loaded with them.   *)
LEMMA FetchForwardAppliesStep ==
  ASSUME IInv, FetchForwardApplies
  PROVE  IInv'
<1> DEFINE page == fetch.page
           from == fetch.from
           last == Top(page, from)
<1>1. /\ UNCHANGED <<rows, news, unsent, unanswered, queue, proc, older, prefetch, oldestSeq,
                     jumped, blind>>
      /\ fetch.phase = "read" /\ from # Undefined /\ lastSeq' = last
      /\ \/ /\ Apply(page)
            /\ fetch' = [NoFetch EXCEPT !.phase = "asking", !.from = last]
            /\ UNCHANGED <<msgSync, lock>>
         \/ /\ view' = [view EXCEPT !.shown = @ \union (IdsOf(page) \ Hidden), !.entry = TRUE]
            /\ FetchEnds
  BY DEF FetchForwardApplies, ForwardCursor, serverVars
<1>2. Holds(lock, "fetch")
  BY <1>1 DEF IInv, LockLine
<1>3. /\ page \in SUBSET Row /\ page \subseteq rows /\ IsFiniteSet(page)
      /\ \A r \in rows : r.seq \in Nat \ {0} /\ r.id \in Ids
      /\ from \in Nat
  BY <1>1, FS_Subset DEF IInv, LogTypes, ReadTypes, FetchState, Row
<1>4. /\ from <= lastSeq
      /\ \A p \in page, r \in rows : from < r.seq /\ r.seq <= p.seq => r \in page
  BY <1>1 DEF IInv, FetchIsWhole
<1> HIDE DEF page, from
<1>5. /\ last \in Nat /\ from <= last /\ \A r \in page : r.seq <= last
      /\ last = from \/ \E r \in page : last = r.seq
  <2>1. /\ last \in Int /\ from <= last /\ \A r \in page : r.seq <= last
        /\ last = from \/ \E r \in page : last = r.seq
    BY <1>3, TopFacts
  <2> HIDE DEF last
  <2> QED BY <1>3, <2>1
<1> HIDE DEF last
<1>6. /\ view' \in View /\ view'.shown = view.shown \union (IdsOf(page) \ Hidden)
      /\ view'.more = view.more /\ (view.entry => view'.entry)
  <2>1. IdsOf(page) \subseteq Ids /\ view \in View
    BY <1>3 DEF IdsOf, IInv, ReadTypes
  <2>2. CASE Apply(page)
    BY <2>1, <2>2 DEF Apply, View
  <2>3. CASE view' = [view EXCEPT !.shown = @ \union (IdsOf(page) \ Hidden), !.entry = TRUE]
    BY <2>1, <2>3 DEF View
  <2> QED BY <1>1, <2>2, <2>3
<1>7. /\ LockLine' /\ On(msgSync') /\ fetch' \in FetchState /\ fetch'.page = {}
      /\ \/ fetch'.phase = "none"
         \/ fetch'.phase = "asking" /\ fetch'.from = last
  <2>1. CASE fetch' = [NoFetch EXCEPT !.phase = "asking", !.from = last] /\ UNCHANGED <<msgSync, lock>>
    <3>1. fetch' \in FetchState /\ fetch'.page = {} /\ fetch'.phase = "asking"
          /\ fetch'.from = last
      BY <1>5, <2>1 DEF NoFetch, FetchState
    <3> QED BY <1>1, <1>2, <2>1, <3>1 DEF IInv, LockLine, ReadTypes
  <2>2. CASE FetchEnds
    BY <1>1, <1>2, <2>2, FetchLeaves DEF FetchEnds
  <2> QED BY <1>1, <2>1, <2>2
<1>8. LogTypes'
  BY <1>1 DEF IInv, LogTypes
<1>9. ReadTypes'
  BY <1>1, <1>5, <1>6, <1>7 DEF IInv, ReadTypes
<1>10. CursorsInLog'
  <2>1. Reached(last)
    <3>1. CASE last = from
      <4>1. \A n : Reached(n) <=> (n <= 0 \/ \E r \in rows : n <= r.seq)
        BY DEF Reached
      <4>2. CASE lastSeq <= 0
        BY <1>3, <1>4, <3>1, <4>1, <4>2 DEF IInv, ReadTypes, Undefined
      <4>3. CASE \E r \in rows : lastSeq <= r.seq
        BY <1>3, <1>4, <3>1, <4>1, <4>3 DEF IInv, ReadTypes, Undefined
      <4> QED BY <4>2, <4>3 DEF IInv, CursorsInLog, Reached
    <3>2. CASE \E r \in page : last = r.seq
      BY <1>3, <3>2 DEF Reached
    <3> QED BY <1>5, <3>1, <3>2
  <2>2. lastSeq' # Undefined
    BY <1>1, <1>5 DEF Undefined
  <2> QED BY <1>1, <1>6, <2>1, <2>2 DEF IInv, CursorsInLog, Reached
<1>11. FetchIsWhole'
  <2>1. last <= last /\ last # Undefined
    BY <1>5 DEF Undefined
  <2> QED BY <1>1, <1>7, <2>1 DEF FetchIsWhole
<1>12. OlderIsWhole'
  BY <1>1 DEF IInv, OlderIsWhole, OlderMore
<1>13. Loaded \subseteq Loaded' /\ IdsOf(page) \subseteq Loaded'
  BY <1>1, <1>6 DEF Loaded
<1>14. OwnIsLoaded'
  BY <1>1, <1>13 DEF IInv, OwnIsLoaded
<1>15. CursorCovers'
  <2> SUFFICES ASSUME NEW r \in rows, r \notin jumped, oldestSeq <= r.seq, r.seq <= last
               PROVE  r.id \in Loaded'
    BY <1>1 DEF CursorCovers
  <2>1. CASE r.seq <= from
    <3>1. r.seq <= lastSeq /\ lastSeq # Undefined
      BY <1>3, <1>4, <2>1 DEF IInv, ReadTypes, Undefined
    <3> QED BY <1>13, <3>1 DEF IInv, CursorCovers
  <2>2. CASE from < r.seq
    <3>1. r \in page
      BY <1>3, <1>4, <1>5, <2>2
    <3> QED BY <1>13, <3>1 DEF IdsOf
  <2> QED BY <1>3, <2>1, <2>2
<1>16. HistoryIsComplete'
  <2>1. CASE view.entry
    BY <1>1, <1>6, <2>1 DEF IInv, HistoryIsComplete
  <2>2. CASE ~view.entry
    <3>1. oldestSeq' = Undefined
      BY <1>1, <2>2 DEF IInv, CursorsInLog
    <3> QED BY <1>1, <1>3, <3>1 DEF HistoryIsComplete, Undefined
  <2> QED BY <2>1, <2>2
<1> QED BY <1>7, <1>8, <1>9, <1>10, <1>11, <1>12, <1>14, <1>15, <1>16 DEF IInv

LEMMA FetchThrowsStep ==
  ASSUME IInv, FetchThrows
  PROVE  IInv'
<1>1. /\ UNCHANGED <<rows, news, unsent, unanswered, queue, proc, older, prefetch, view,
                     lastSeq, oldestSeq, jumped, blind>>
      /\ Holds(lock, "fetch") /\ fetch' = NoFetch /\ msgSync' = CommandThrew(msgSync)
      /\ lock' = Tail(lock)
  BY DEF FetchThrows, Fetching, Holds, serverVars
<1>2. LockLine' /\ On(msgSync') /\ fetch' \in FetchState /\ fetch'.page = {}
      /\ fetch'.phase = "none"
  BY <1>1, FetchLeaves
<1>3. LogTypes' /\ ReadTypes'
  BY <1>1, <1>2 DEF IInv, LogTypes, ReadTypes
<1>4. CursorsInLog' /\ OlderIsWhole'
  BY <1>1 DEF IInv, CursorsInLog, Reached, OlderIsWhole, OlderMore
<1>5. FetchIsWhole'
  BY <1>2 DEF FetchIsWhole
<1>6. Loaded' = Loaded
  BY <1>1 DEF Loaded
<1>7. Cover'
  BY <1>1, <1>6, CoverStays
<1> QED BY <1>2, <1>3, <1>4, <1>5, <1>7 DEF IInv, Cover

(* The loop of messagesSync runs fetchMessages again, or rests.            *)
LEMMA FetchLoopSteps ==
  ASSUME IInv, FetchRetry \/ FetchSettle
  PROVE  IInv'
<1>1. UNCHANGED <<rows, news, unsent, unanswered, queue, proc, fetch, older, prefetch, view,
                  lastSeq, oldestSeq, jumped, blind>>
  BY DEF FetchRetry, FetchSettle, serverVars
<1>2. "fetch" \in Parties /\ lock \in Seq(Parties) /\ IsInjective(lock) /\ On(msgSync)
  BY DEF Parties, IInv, LockLine, ReadTypes
<1>3. /\ On(msgSync') /\ msgSync.phase # "running"
      /\ \/ lock' = Append(lock, "fetch") /\ msgSync'.phase = "running"
         \/ lock' = lock /\ msgSync'.phase # "running"
  <2>1. CASE FetchRetry
    BY <1>2, <2>1, SyncFacts DEF FetchRetry
  <2>2. CASE FetchSettle
    BY <1>2, <2>2, SyncFacts DEF FetchSettle
  <2> QED BY <2>1, <2>2
<1>4. LogTypes' /\ ReadTypes'
  BY <1>1, <1>3 DEF IInv, LogTypes, ReadTypes
<1>5. LockLine'
  <2>1. ~Waits(lock, "fetch")
    BY <1>3 DEF IInv, LockLine
  <2>2. CASE lock' = Append(lock, "fetch") /\ msgSync'.phase = "running"
    <3>1. /\ lock' \in Seq(Parties) /\ IsInjective(lock')
          /\ \A o \in Parties : Waits(lock', o) <=> (o = "fetch" \/ Waits(lock, o))
          /\ \A o \in Parties : Holds(lock, o) => Holds(lock', o)
      BY <1>2, <2>1, <2>2, LineJoins
    <3> QED BY <1>1, <2>2, <3>1 DEF IInv, LockLine, Parties
  <2>3. CASE lock' = lock /\ msgSync'.phase # "running"
    BY <1>1, <1>3, <2>3 DEF IInv, LockLine
  <2> QED BY <1>3, <2>2, <2>3
<1>6. Data'
  BY <1>1, DataStays, Parts
<1>7. Loaded' = Loaded
  BY <1>1 DEF Loaded
<1>8. Cover'
  BY <1>1, <1>7, CoverStays
<1> QED BY <1>4, <1>5, <1>6, <1>8 DEF IInv, Data, Cover

-----------------------------------------------------------------------------
(* History.                                                                *)

LEMMA LoadOlderStep ==
  ASSUME IInv, NEW by \in {"user", "prefetch"}, LoadOlder(by)
  PROVE  IInv'
<1>1. /\ UNCHANGED <<rows, news, unsent, unanswered, queue, proc, msgSync, fetch, prefetch,
                     view, lastSeq, oldestSeq, jumped, blind>>
      /\ oldestSeq > 1 /\ older.phase = "none"
      /\ older' = [NoOlder EXCEPT !.phase = "locking", !.by = by]
      /\ lock' = Append(lock, "older")
  BY DEF LoadOlder, MoreToLoad, serverVars
<1>2. older' \in OlderState /\ older'.page = {} /\ older'.phase = "locking"
  BY <1>1 DEF NoOlder, OlderState, Undefined
<1>3. LogTypes' /\ ReadTypes'
  BY <1>1, <1>2 DEF IInv, LogTypes, ReadTypes
<1>4. LockLine'
  <2>1. "older" \in Parties /\ lock \in Seq(Parties) /\ IsInjective(lock)
        /\ ~Waits(lock, "older")
    BY <1>1 DEF IInv, LockLine, Parties
  <2>2. /\ lock' \in Seq(Parties) /\ IsInjective(lock')
        /\ \A o \in Parties : Waits(lock', o) <=> (o = "older" \/ Waits(lock, o))
        /\ \A o \in Parties : Holds(lock, o) => Holds(lock', o)
    BY <1>1, <2>1, LineJoins
  <2> QED BY <1>1, <1>2, <2>2 DEF IInv, LockLine, Parties
<1>5. CursorsInLog'
  <2>1. oldestSeq # Undefined
    BY <1>1 DEF IInv, ReadTypes, Undefined
  <2> QED BY <1>1, <2>1 DEF IInv, CursorsInLog, Reached
<1>6. FetchIsWhole' /\ OlderIsWhole'
  BY <1>1, <1>2 DEF IInv, FetchIsWhole, OlderIsWhole
<1>7. Loaded' = Loaded
  BY <1>1 DEF Loaded
<1>8. Cover'
  BY <1>1, <1>7, CoverStays
<1> QED BY <1>3, <1>4, <1>5, <1>6, <1>8 DEF IInv, Cover

(* The cursor is read under the lock, where no first page can set it.      *)
LEMMA OlderAsksStep ==
  ASSUME IInv, OlderAsks
  PROVE  IInv'
<1>1. /\ UNCHANGED <<rows, news, unsent, unanswered, lock, queue, proc, msgSync, fetch,
                     prefetch, view, lastSeq, oldestSeq, jumped, blind>>
      /\ older.phase = "locking" /\ Head(lock) = "older"
      /\ older' = [older EXCEPT !.phase = "asking", !.before = oldestSeq]
  BY DEF OlderAsks, serverVars, lockVars
<1>2. /\ older' \in OlderState /\ older'.page = older.page /\ older'.phase = "asking"
      /\ older'.before = oldestSeq
  BY <1>1 DEF IInv, ReadTypes, OlderState
<1>3. Holds(lock, "older")
  <2>1. Waits(lock, "older") /\ "older" \in Parties /\ lock \in Seq(Parties)
    BY <1>1 DEF IInv, LockLine, Parties
  <2>2. lock # <<>>
    BY <2>1, LineFacts
  <2> QED BY <1>1, <2>2 DEF Holds
<1>4. LogTypes' /\ ReadTypes'
  BY <1>1, <1>2 DEF IInv, LogTypes, ReadTypes
<1>5. LockLine'
  BY <1>1, <1>2, <1>3 DEF IInv, LockLine
<1>6. CursorsInLog'
  BY <1>1 DEF IInv, CursorsInLog, Reached
<1>7. FetchIsWhole' /\ OlderIsWhole'
  BY <1>1, <1>2 DEF IInv, FetchIsWhole, OlderIsWhole
<1>8. Loaded' = Loaded
  BY <1>1 DEF Loaded
<1>9. Cover'
  BY <1>1, <1>8, CoverStays
<1> QED BY <1>4, <1>5, <1>6, <1>7, <1>9 DEF IInv, Cover

LEMMA OlderReadStep ==
  ASSUME IInv, OlderRead
  PROVE  IInv'
<1>1. /\ UNCHANGED <<rows, news, unsent, unanswered, lock, queue, proc, msgSync, fetch,
                     prefetch, view, lastSeq, oldestSeq, jumped, blind>>
      /\ older.phase = "asking"
  BY DEF OlderRead, serverVars, lockVars
<1>2. PICK all, page : /\ all = Before(older.before) /\ page = Backward(all)
                       /\ older' = [older EXCEPT !.phase = "read", !.page = page,
                                                 !.more = page # all]
  BY DEF OlderRead
<1>3. all \subseteq rows /\ \A r \in rows : r.seq < older.before <=> r \in all
  BY <1>2 DEF Before
<1>4. /\ page \subseteq all
      /\ \A p \in page, r \in all : p.seq <= r.seq => r \in page
      /\ page = {} => all = {}
  BY <1>2, <1>3, BackwardFacts DEF IInv
<1>5. /\ older' \in OlderState /\ older'.page = page /\ older'.phase = "read"
      /\ older'.before = older.before /\ older'.more = (page # all)
  <2>1. page \in SUBSET Row /\ (page # all) \in BOOLEAN
    BY <1>3, <1>4 DEF IInv, LogTypes
  <2>2. older \in OlderState
    BY DEF IInv, ReadTypes
  <2> QED BY <1>2, <2>1, <2>2 DEF OlderState
<1>6. LogTypes' /\ ReadTypes'
  BY <1>1, <1>3, <1>4, <1>5 DEF IInv, LogTypes, ReadTypes
<1>7. LockLine'
  BY <1>1, <1>5 DEF IInv, LockLine
<1>8. CursorsInLog' /\ FetchIsWhole'
  BY <1>1, <1>5 DEF IInv, CursorsInLog, Reached, FetchIsWhole
<1>9. OlderIsWhole'
  <2>1. older.before = oldestSeq
    BY <1>1 DEF IInv, OlderIsWhole
  <2>2. \A p \in page, r \in rows : p.seq <= r.seq /\ r.seq < older.before => r \in page
    BY <1>3, <1>4
  <2>3. ~OlderMore' => page = all
    BY <1>4, <1>5 DEF OlderMore
  <2> QED BY <1>1, <1>3, <1>5, <2>1, <2>2, <2>3 DEF OlderIsWhole
<1>10. Loaded' = Loaded
  BY <1>1 DEF Loaded
<1>11. Cover'
  BY <1>1, <1>10, CoverStays
<1> QED BY <1>6, <1>7, <1>8, <1>9, <1>11 DEF IInv, Cover

(* Whoever loads older messages has the lock, so no fetch is at work; it   *)
(* leaves the line when it is done.                                        *)
LEMMA OlderLeaves ==
  ASSUME IInv, older.phase \in {"asking", "read"}, older' = NoOlder, lock' = Tail(lock),
         UNCHANGED <<proc, msgSync, fetch>>
  PROVE  LockLine' /\ older' \in OlderState /\ older'.page = {} /\ older'.phase = "none"
         /\ fetch.phase = "none"
<1>1. /\ Holds(lock, "older") /\ "older" \in Parties /\ "fetch" \in Parties
      /\ lock \in Seq(Parties) /\ IsInjective(lock)
  BY DEF Parties, IInv, LockLine
<1>2. /\ lock' \in Seq(Parties) /\ IsInjective(lock')
      /\ \A o \in Parties : Waits(lock', o) <=> (o # "older" /\ Waits(lock, o))
  BY <1>1, LineMovesOn
<1>3. fetch.phase = "none"
  BY <1>1, LineFacts DEF IInv, LockLine
<1>4. older' \in OlderState /\ older'.page = {} /\ older'.phase = "none"
  BY DEF NoOlder, OlderState, Undefined
<1>5. LockLine'
  BY <1>1, <1>2, <1>3, <1>4 DEF IInv, LockLine, Parties
<1> QED BY <1>3, <1>4, <1>5

(* An older page moves the cursor down over its own rows only.             *)
LEMMA OlderAppliesStep ==
  ASSUME IInv, OlderApplies
  PROVE  IInv'
<1> DEFINE page == older.page
           before == older.before
<1>1. /\ UNCHANGED <<rows, news, unsent, unanswered, queue, proc, msgSync, fetch, prefetch,
                     lastSeq, jumped, blind>>
      /\ older.phase = "read" /\ older' = NoOlder /\ lock' = Tail(lock)
      /\ view' = [view EXCEPT !.shown = @ \union (IdsOf(page) \ Hidden), !.more = OlderMore]
      /\ oldestSeq' = Bottom(page, before)
  BY DEF OlderApplies, serverVars
<1>2. LockLine' /\ older' \in OlderState /\ older'.page = {} /\ older'.phase = "none"
      /\ fetch.phase = "none"
  BY <1>1, OlderLeaves
<1>3. /\ page \in SUBSET Row /\ page \subseteq rows /\ IsFiniteSet(page)
      /\ \A r \in rows : r.seq \in Nat \ {0} /\ r.id \in Ids
  BY FS_Subset DEF IInv, LogTypes, ReadTypes, Row
<1>4. /\ before = oldestSeq
      /\ \A p \in page, r \in rows : p.seq <= r.seq /\ r.seq < before => r \in page
      /\ ~OlderMore => \A r \in rows : r.seq < before => r \in page
  BY <1>1 DEF IInv, OlderIsWhole
<1>5. oldestSeq \in Nat /\ lastSeq # Undefined /\ view.entry = TRUE
  BY <1>1 DEF IInv, CursorsInLog, ReadTypes, View
<1>6. OlderMore \in BOOLEAN
  BY DEF OlderMore, IInv, ReadTypes, OlderState
<1> HIDE DEF page, before
<1>7. /\ oldestSeq' \in Nat /\ oldestSeq' <= oldestSeq
      /\ \A r \in page : oldestSeq' <= r.seq
      /\ oldestSeq' = oldestSeq \/ \E r \in page : oldestSeq' = r.seq
  <2>1. /\ Bottom(page, before) \in Int /\ Bottom(page, before) <= before
        /\ \A r \in page : Bottom(page, before) <= r.seq
        /\ Bottom(page, before) = before \/ \E r \in page : Bottom(page, before) = r.seq
    BY <1>3, <1>4, <1>5, BottomFacts
  <2> QED BY <1>1, <1>3, <1>4, <1>5, <2>1
<1>8. /\ view' \in View /\ view'.shown = view.shown \union (IdsOf(page) \ Hidden)
      /\ view'.more = OlderMore /\ view'.entry = view.entry
  <2>1. IdsOf(page) \subseteq Ids /\ view \in View
    BY <1>3 DEF IdsOf, IInv, ReadTypes
  <2> HIDE DEF OlderMore
  <2> QED BY <1>1, <1>6, <2>1 DEF View
<1>9. LogTypes'
  BY <1>1 DEF IInv, LogTypes
<1>10. ReadTypes'
  BY <1>1, <1>2, <1>7, <1>8 DEF IInv, ReadTypes
<1>11. CursorsInLog'
  <2>1. Reached(oldestSeq) /\ Reached(lastSeq)
    BY DEF IInv, CursorsInLog
  <2>2. oldestSeq' <= 0 \/ \E r \in rows : oldestSeq' <= r.seq
    BY <1>3, <1>5, <1>7, <2>1 DEF Reached
  <2>3. lastSeq' <= 0 \/ \E r \in rows : lastSeq' <= r.seq
    BY <1>1, <2>1 DEF Reached
  <2>4. Reached(lastSeq)' /\ Reached(oldestSeq)'
    BY <1>1, <2>2, <2>3 DEF Reached
  <2>5. lastSeq' # Undefined /\ view'.entry = TRUE
    BY <1>1, <1>5, <1>8
  <2> QED BY <1>2, <2>4, <2>5 DEF CursorsInLog
<1>12. FetchIsWhole' /\ OlderIsWhole'
  BY <1>1, <1>2 DEF FetchIsWhole, OlderIsWhole
<1>13. Loaded \subseteq Loaded' /\ IdsOf(page) \subseteq Loaded'
  BY <1>1, <1>8 DEF Loaded
<1>14. OwnIsLoaded'
  BY <1>1, <1>13 DEF IInv, OwnIsLoaded
<1>15. CursorCovers'
  <2> SUFFICES ASSUME NEW r \in rows, r \notin jumped, oldestSeq' <= r.seq, r.seq <= lastSeq
               PROVE  r.id \in Loaded'
    BY <1>1 DEF CursorCovers
  <2>1. CASE oldestSeq <= r.seq
    BY <1>5, <1>13, <2>1 DEF IInv, CursorCovers
  <2>2. CASE r.seq < oldestSeq
    <3>1. r \in page
      BY <1>3, <1>4, <1>5, <1>7, <2>2
    <3> QED BY <1>13, <3>1 DEF IdsOf
  <2> QED BY <1>3, <1>5, <2>1, <2>2
<1>16. HistoryIsComplete'
  <2> SUFFICES ASSUME ~view'.more, NEW r \in rows  PROVE r.seq >= oldestSeq'
    BY <1>1 DEF HistoryIsComplete
  <2>1. r.seq < oldestSeq => r \in page
    BY <1>4, <1>8
  <2> QED BY <1>3, <1>5, <1>7, <2>1
<1> QED BY <1>2, <1>9, <1>10, <1>11, <1>12, <1>14, <1>15, <1>16 DEF IInv

LEMMA OlderThrowsStep ==
  ASSUME IInv, OlderThrows
  PROVE  IInv'
<1>1. /\ UNCHANGED <<rows, news, unsent, unanswered, queue, proc, msgSync, fetch, view,
                     lastSeq, oldestSeq, jumped, blind>>
      /\ older.phase \in {"asking", "read"} /\ older' = NoOlder /\ lock' = Tail(lock)
      /\ prefetch' = IF older.by = "prefetch" THEN "failed" ELSE prefetch
  BY DEF OlderThrows, serverVars
<1>2. LockLine' /\ older' \in OlderState /\ older'.page = {} /\ older'.phase = "none"
  BY <1>1, OlderLeaves
<1>3. LogTypes' /\ ReadTypes'
  BY <1>1, <1>2 DEF IInv, LogTypes, ReadTypes
<1>4. CursorsInLog' /\ FetchIsWhole' /\ OlderIsWhole'
  BY <1>1, <1>2 DEF IInv, CursorsInLog, Reached, FetchIsWhole, OlderIsWhole
<1>5. Loaded' = Loaded
  BY <1>1 DEF Loaded
<1>6. Cover'
  BY <1>1, <1>5, CoverStays
<1> QED BY <1>2, <1>3, <1>4, <1>6 DEF IInv, Cover

LEMMA PrefetchEndsStep ==
  ASSUME IInv, PrefetchEnds
  PROVE  IInv'
<1>1. /\ UNCHANGED <<rows, news, unsent, unanswered, lock, queue, proc, msgSync, fetch,
                     older, view, lastSeq, oldestSeq, jumped, blind>>
      /\ prefetch' = "off"
  BY DEF PrefetchEnds, serverVars, lockVars
<1>2. LogTypes' /\ ReadTypes' /\ LockLine'
  BY <1>1 DEF IInv, LogTypes, ReadTypes, LockLine
<1>3. Data'
  BY <1>1, DataStays, Parts
<1>4. Loaded' = Loaded
  BY <1>1 DEF Loaded
<1>5. Cover'
  BY <1>1, <1>4, CoverStays
<1> QED BY <1>2, <1>3, <1>5 DEF IInv, Data, Cover

-----------------------------------------------------------------------------
(* The session's log may have up to two messages when the app opens it.    *)

LEMMA OldRows ==
  ASSUME NEW old,
         old \in {<<>>} \union {<<a>> : a \in OtherIds} \union
                 {<<a, b>> : a \in OtherIds, b \in OtherIds},
         rows = {[seq |-> i, id |-> old[i]] : i \in DOMAIN old}
  PROVE  /\ rows \subseteq Row /\ IsFiniteSet(rows)
         /\ \A r, q \in rows : r.seq = q.seq => r = q
<1>1. CASE old = <<>>
  <2>1. rows = {}
    BY <1>1
  <2> QED BY <2>1, FS_EmptySet
<1>2. CASE \E a \in OtherIds : old = <<a>>
  <2>1. PICK a \in OtherIds : old = <<a>>
    BY <1>2
  <2>2. rows = {[seq |-> 1, id |-> a]}
    BY <2>1
  <2>3. IsFiniteSet(rows)
    <3>1. PICK r : rows = {r}
      BY <2>2
    <3> QED BY <3>1, FS_Singleton
  <2>4. rows \subseteq Row
    BY <2>2 DEF Row, Ids
  <2>5. \A r, q \in rows : r.seq = q.seq => r = q
    BY <2>2
  <2> QED BY <2>3, <2>4, <2>5
<1>3. CASE \E a, b \in OtherIds : old = <<a, b>>
  <2>1. PICK a \in OtherIds, b \in OtherIds : old = <<a, b>>
    BY <1>3
  <2>2. rows = {[seq |-> 1, id |-> a]} \union {[seq |-> 2, id |-> b]}
    BY <2>1
  <2>3. IsFiniteSet(rows)
    <3>1. PICK r, q : rows = {r} \union {q}
      BY <2>2
    <3>2. IsFiniteSet({r})
      BY FS_Singleton
    <3> QED BY <3>1, <3>2, FS_AddElement
  <2>4. rows \subseteq Row
    BY <2>2 DEF Row, Ids
  <2>5. \A r, q \in rows : r.seq = q.seq => r = q
    BY <2>2
  <2> QED BY <2>3, <2>4, <2>5
<1> QED BY <1>1, <1>2, <1>3

LEMMA InitIInv == AppInit => IInv
<1> SUFFICES ASSUME AppInit  PROVE IInv
  OBVIOUS
<1>1. /\ news = {} /\ unsent = {} /\ unanswered = {}
      /\ msgSync = NewSync /\ fetch = NoFetch /\ older = NoOlder /\ prefetch = "off"
      /\ lock = <<>> /\ queue = {} /\ proc = "no"
      /\ view = [shown |-> {}, entry |-> FALSE, more |-> FALSE]
      /\ lastSeq = Undefined /\ oldestSeq = Undefined
      /\ jumped = {} /\ blind = FALSE
  BY DEF AppInit
<1>2. LogTypes
  <2>1. PICK old \in {<<>>} \union {<<a>> : a \in OtherIds} \union
                     {<<a, b>> : a \in OtherIds, b \in OtherIds} :
             IsInjective(old) /\ rows = {[seq |-> i, id |-> old[i]] : i \in DOMAIN old}
    BY DEF AppInit
  <2>2. /\ rows \subseteq Row /\ IsFiniteSet(rows)
        /\ \A r, q \in rows : r.seq = q.seq => r = q
    BY <2>1, OldRows
  <2> QED BY <1>1, <2>2 DEF LogTypes
<1>3. ReadTypes
  <2>1. On(msgSync)
    BY <1>1 DEF On, NewSync, SyncState
  <2>2. fetch \in FetchState /\ fetch.page = {} /\ older \in OlderState /\ older.page = {}
    BY <1>1 DEF NoFetch, FetchState, NoOlder, OlderState, Undefined
  <2>3. view \in View
    BY <1>1 DEF View
  <2> QED BY <1>1, <2>1, <2>2, <2>3 DEF ReadTypes
<1>4. LockLine
  <2>1. lock \in Seq(Parties) /\ DOMAIN lock = {}
    BY <1>1, EmptySeq
  <2>2. msgSync.phase = "idle" /\ fetch.phase = "none" /\ older.phase = "none"
    BY <1>1 DEF NewSync, NoFetch, NoOlder
  <2> QED BY <1>1, <2>1, <2>2 DEF LockLine, Waits, IsInjective
<1>5. Data
  BY <1>1 DEF Data, CursorsInLog, Reached, FetchIsWhole, OlderIsWhole, NoFetch, NoOlder,
              Undefined
<1>6. Cover
  BY <1>1 DEF Cover, OwnIsLoaded, CursorCovers, HistoryIsComplete
<1> QED BY <1>2, <1>3, <1>4, <1>5, <1>6, Parts

LEMMA StepIInv == IInv /\ [AppNext]_appVars => IInv'
<1> SUFFICES ASSUME IInv, [AppNext]_appVars  PROVE IInv'
  OBVIOUS
<1>1. CASE Environment
  <2>1. ASSUME NEW id \in OwnIds, SendMessage(id) \/ PostStored(id) \/ PostAnswered(id)
        PROVE  IInv'
    BY <2>1, SendMessageStep, PostStoredStep, PostAnsweredStep
  <2>2. ASSUME NEW id \in OtherIds, OthersWrite(id)  PROVE IInv'
    BY <2>2, OthersWriteStep
  <2>3. ASSUME NEW r \in news, NewsArrives(r)  PROVE IInv'
    BY <2>3, NewsArrivesStep
  <2>4. CASE Disconnect
    BY <2>4, DisconnectStep
  <2>5. CASE SessionVisible
    BY <2>5, SessionVisibleStep
  <2>6. CASE FetchThrows
    BY <2>6, FetchThrowsStep
  <2>7. CASE OlderThrows
    BY <2>7, OlderThrowsStep
  <2>8. CASE LoadOlder("user")
    BY <2>8, LoadOlderStep
  <2> QED BY <1>1, <2>1, <2>2, <2>3, <2>4, <2>5, <2>6, <2>7, <2>8 DEF Environment
<1>2. CASE QueueStep
  BY <1>2, QueueDrainsStep, QueueFinishesStep DEF QueueStep
<1>3. CASE FetchStep
  BY <1>3, FetchAsksStep, FetchReadStep, FetchInitialAppliesStep, FetchForwardAppliesStep
     DEF FetchStep
<1>4. CASE FetchRetry \/ FetchSettle
  BY <1>4, FetchLoopSteps
<1>5. CASE OlderAsks
  BY <1>5, OlderAsksStep
<1>6. CASE OlderRead
  BY <1>6, OlderReadStep
<1>7. CASE OlderApplies
  BY <1>7, OlderAppliesStep
<1>8. CASE LoadOlder("prefetch")
  BY <1>8, LoadOlderStep
<1>9. CASE PrefetchEnds
  BY <1>9, PrefetchEndsStep
<1>10. CASE UNCHANGED appVars
  <2>1. UNCHANGED <<rows, news, unsent, unanswered, lock, queue, proc, msgSync, fetch,
                    older, prefetch, view, lastSeq, oldestSeq, jumped, blind>>
    BY <1>10 DEF appVars, serverVars, lockVars, readVars
  <2>2. LogTypes' /\ ReadTypes' /\ LockLine'
    BY <2>1 DEF IInv, LogTypes, ReadTypes, LockLine
  <2>3. Data'
    BY <2>1, DataStays, Parts
  <2>4. Loaded' = Loaded
    BY <2>1 DEF Loaded
  <2>5. Cover'
    BY <2>1, <2>4, CoverStays
  <2> QED BY <2>2, <2>3, <2>5 DEF IInv, Data, Cover
<1> QED BY <1>1, <1>2, <1>3, <1>4, <1>5, <1>6, <1>7, <1>8, <1>9, <1>10 DEF AppNext

(* The inductive invariant: besides the two properties below it says what  *)
(* a page that is on its way holds of the log, that only the head of the   *)
(* lock's line is at work, and that no cursor is beyond the log.           *)
THEOREM AppInvariant == AppSpec => []IInv
<1> QED BY InitIInv, StepIInv, PTL DEF AppSpec

(* Every variable has its type; the fetch, the load of older messages and  *)
(* the message queue wait for the session's AsyncLock at most once each,   *)
(* and only its holder is at work.                                         *)
THEOREM AppTypeCorrect == AppSpec => []AppTypeOK
<1>1. IInv => AppTypeOK
  <2> SUFFICES ASSUME IInv  PROVE AppTypeOK
    OBVIOUS
  <2>1. rows \subseteq Row /\ news \subseteq rows
        /\ unsent \subseteq OwnIds /\ unanswered \subseteq OwnIds
    BY DEF IInv, LogTypes
  <2>2. msgSync \in SyncState
        /\ fetch.phase \in {"none", "asking", "read"} /\ fetch.page \subseteq rows
        /\ older.phase \in {"none", "locking", "asking", "read"} /\ older.page \subseteq rows
        /\ prefetch \in {"off", "on", "failed"}
    BY DEF IInv, ReadTypes, On, FetchState, OlderState
  <2>3. lock \in Seq({"fetch", "older", "queue"}) /\ IsInjective(lock)
        /\ (fetch.phase # "none" => Head(lock) = "fetch")
        /\ (older.phase \in {"asking", "read"} => Head(lock) = "older")
    BY DEF IInv, LockLine, Parties, Holds
  <2>4. queue \subseteq Ids /\ proc \in {"no", "waiting", "finishing"}
        /\ view \in [shown : SUBSET Ids, entry : BOOLEAN, more : BOOLEAN]
        /\ lastSeq \in Nat \union {Undefined} /\ oldestSeq \in Nat \union {Undefined}
        /\ jumped \subseteq rows /\ blind \in BOOLEAN
    BY DEF IInv, ReadTypes, View
  <2> QED BY <2>1, <2>2, <2>3, <2>4 DEF AppTypeOK
<1> QED BY <1>1, AppInvariant, PTL

(* Between sessionOldestSeq and sessionLastSeq the app has every message,  *)
(* whatever live updates, forward fetches that take the cursor back and    *)
(* loads of older pages do to the two at the same time; only what the      *)
(* answer to an own POST moved the cursor over can be missing.             *)
THEOREM CursorsCoverTheLog == AppSpec => []CursorCovers
<1>1. IInv => CursorCovers
  BY DEF IInv
<1> QED BY <1>1, AppInvariant, PTL

(* When the store says that there is no more history, no message of the    *)
(* session is older than the oldest one loaded.  Two exceptions: a first   *)
(* page with nothing to show, for which the store keeps no pagination mark *)
(* (blind), and own POSTs answered before any page was (oldestSeq is unset)*)
THEOREM NoHistoryIsHidden == AppSpec => []HistoryIsComplete
<1>1. IInv => HistoryIsComplete
  BY DEF IInv
<1> QED BY <1>1, AppInvariant, PTL

=============================================================================
