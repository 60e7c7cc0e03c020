--------------------------- MODULE ClaudeRun_proof ---------------------------
(***************************************************************************)
(* What a run of Claude promises for any modes and kinds of prompts, any   *)
(* number of prompts and tool calls, and any aborts, switches, failed      *)
(* launches and delays: prompts are given in order and once, the ordinary  *)
(* output goes out in order and once, and once the updates of the agent    *)
(* state that are under way are done, the app shows the requests that can  *)
(* be answered.                                                            *)
(***************************************************************************)
EXTENDS ClaudeRun, Integers, SequenceTheorems, FiniteSetTheorems, TLAPS

Prompt == [n : 1 .. MaxPrompts, mode : Modes, kind : Kinds]
Given == [n : 1 .. MaxPrompts, mode : Modes, ran : Modes \union {NoMode}]

(* The part of RunTypeOK about the launchers and the prompts, with the type*)
(* of given, which is history.                                             *)
PromptTypes ==
    /\ loop \in {"local", "remote", "over"}
    /\ loop = "local" => phase \in {"entering", "running", "stopping", "leaving"}
    /\ loop = "remote" => phase \in {"asking", "turn", "idle", "ending", "leaving"}
    /\ loop = "over" => phase = "over"
    /\ exitReason \in {"none", "switch", "exit"}
    /\ queue \in Seq(Prompt) /\ parked \in Seq(Prompt) /\ given \in Seq(Given)
    /\ waiting \in BOOLEAN /\ (waiting => loop = "remote" /\ queue = <<>> /\ parked = <<>>)
    /\ modeHash \in Modes \union {NoMode}
    /\ query \in Modes \union {NoMode}
    /\ pushed \in 0 .. MaxPrompts
    /\ dropped \subseteq 1 .. pushed /\ lost \subseteq 1 .. pushed

InOrder(s) == \A i, j \in DOMAIN s : i < j => s[i].n < s[j].n
Ahead(s, t) == \A i \in DOMAIN s, j \in DOMAIN t : s[i].n < t[j].n
UpTo(s, m) == \A i \in DOMAIN s : s[i].n <= m

(* What was given, then what is parked, then what is queued: a line in the *)
(* order of the pushes.                                                    *)
PromptsInLine ==
    /\ InOrder(given) /\ InOrder(parked) /\ InOrder(queue)
    /\ Ahead(given, parked) /\ Ahead(given, queue) /\ Ahead(parked, queue)
    /\ UpTo(given, pushed) /\ UpTo(parked, pushed) /\ UpTo(queue, pushed)

(* Nobody waits for a prompt once the launcher is to end, and a prompt is  *)
(* parked only until the launch is over: no batch is taken past it.        *)
WaitingPhases ==
    /\ waiting => exitReason = "none" /\ phase \in {"asking", "idle", "leaving"}
    /\ loop = "remote" /\ exitReason # "none" => phase \in {"ending", "leaving"}
    /\ parked # <<>> => loop = "remote" /\ phase \in {"ending", "leaving"}

PInv == PromptTypes /\ PromptsInLine /\ WaitingPhases

-----------------------------------------------------------------------------
(* The message queue.                                                      *)

(* A finite set of numbers that is not empty has a greatest one.           *)
LEMMA HasGreatest ==
  ASSUME NEW S \in SUBSET Nat, IsFiniteSet(S), S # {}
  PROVE  \E m \in S : \A s \in S : s <= m
<1> DEFINE over(s) == {t \in S : s < t}
           T == {over(s) : s \in S}
<1>1. IsWellFoundedOn(StrictSubsetOrdering(S), FiniteSubsetsOf(S))
  BY FS_StrictSubsetOrderingWellFounded
<1>2. T \subseteq FiniteSubsetsOf(S) /\ T # {}
  <2>1. \A s \in S : over(s) \in SUBSET S
    OBVIOUS
  <2>2. \A s \in S : IsFiniteSet(over(s))
    BY <2>1, FS_Subset
  <2> QED BY <2>1, <2>2 DEF FiniteSubsetsOf
<1>3. PICK x \in T : \A y \in T : <<y, x>> \notin StrictSubsetOrdering(S)
  <2> HIDE DEF T
  <2> QED BY <1>1, <1>2, WFMin
<1>4. PICK m \in S : x = over(m)
  OBVIOUS
<1>5. ASSUME NEW s \in S, m < s  PROVE FALSE
  <2>1. over(s) \subseteq over(m) /\ s \in over(m) /\ s \notin over(s)
    <3>1. \A t \in S : t \in Nat
      OBVIOUS
    <3>2. \A t \in over(s) : t \in S /\ m < t
      BY <1>5, <3>1
    <3>3. \A t \in over(s) : t \in over(m)
      BY <3>2
    <3>4. s \in over(m)
      BY <1>5
    <3>5. s \notin over(s)
      BY <3>1
    <3> QED BY <3>3, <3>4, <3>5
  <2>2. over(s) \in T /\ over(s) \in SUBSET S /\ over(m) \in SUBSET S
    OBVIOUS
  <2>3. <<over(s), over(m)>> \in StrictSubsetOrdering(S)
    BY <2>1, <2>2 DEF StrictSubsetOrdering
  <2> QED BY <1>3, <1>4, <2>2, <2>3
<1> QED BY <1>5

(* collectBatch returns the front of the queue, at least its first prompt. *)
LEMMA BatchLengthFacts ==
  ASSUME NEW q \in Seq(Prompt), q # <<>>
  PROVE  BatchLength(q) \in 1 .. Len(q)
<1>1. Len(q) \in Nat /\ Len(q) >= 1
  BY EmptySeq
<1>2. CASE Alone(q[1])
  BY <1>1, <1>2 DEF BatchLength
<1>3. CASE ~Alone(q[1])
  <2> DEFINE fits(i) == ~Alone(q[i]) /\ q[i].mode = q[1].mode
             S == {n \in 1 .. Len(q) : \A i \in 1 .. n : fits(i)}
  <2>1. 1 \in S
    BY <1>1, <1>3
  <2>2. S \in SUBSET Nat /\ IsFiniteSet(S)
    <3>1. S \in SUBSET (1 .. Len(q)) /\ IsFiniteSet(1 .. Len(q))
      BY <1>1, FS_Interval
    <3> QED BY <1>1, <3>1, FS_Subset
  <2>3. PICK m \in S : \A s \in S : s <= m
    <3> HIDE DEF S
    <3> QED BY <2>1, <2>2, HasGreatest
  <2>4. m \in 1 .. Len(q) /\ \A i \in 1 .. m : fits(i)
    OBVIOUS
  <2>5. ASSUME m < Len(q)  PROVE Alone(q[m + 1]) \/ q[m + 1].mode # q[1].mode
    <3>1. m + 1 \in 1 .. Len(q) /\ ~(m + 1 <= m)
      BY <1>1, <2>4, <2>5
    <3> DEFINE x == m + 1
    <3>4. x \notin S
      <4> HIDE DEF S, x
      <4> QED BY <2>3, <3>1 DEF x
    <3>2. PICK i \in 1 .. (m + 1) : ~fits(i)
      BY <3>1, <3>4
    <3>3. i = m + 1
      BY <2>4, <3>2
    <3> QED BY <3>2, <3>3
  <2>6. \E n \in 1 .. Len(q) :
            /\ \A i \in 1 .. n : ~Alone(q[i]) /\ q[i].mode = q[1].mode
            /\ n < Len(q) => Alone(q[n + 1]) \/ q[n + 1].mode # q[1].mode
    BY <2>4, <2>5
  <2> QED BY <1>3, <2>6 DEF BatchLength
<1> QED BY <1>2, <1>3

LEMMA BatchFacts ==
  ASSUME NEW q \in Seq(Prompt), q # <<>>
  PROVE  /\ Batch(q) \in Seq(Prompt) /\ Batch(q) # <<>> /\ Batch(q)[1] \in Prompt
         /\ Rest(q) \in Seq(Prompt)
         /\ InOrder(q) => InOrder(Batch(q)) /\ InOrder(Rest(q)) /\ Ahead(Batch(q), Rest(q))
         /\ \A s : Ahead(s, q) => Ahead(s, Batch(q)) /\ Ahead(s, Rest(q))
         /\ \A m : UpTo(q, m) => UpTo(Batch(q), m) /\ UpTo(Rest(q), m)
<1> DEFINE b == BatchLength(q)
           l == Len(q)
<1>1. b \in 1 .. l /\ l \in Nat /\ q \in [1 .. l -> Prompt]
  BY BatchLengthFacts, LenProperties
<1>2. Batch(q) = SubSeq(q, 1, b) /\ Rest(q) = SubSeq(q, b + 1, l)
  BY DEF Batch, Rest
<1> HIDE DEF b
<1>3. /\ Batch(q) \in Seq(Prompt) /\ Len(Batch(q)) = b
      /\ \A i \in 1 .. b : Batch(q)[i] = q[i]
  BY <1>1, <1>2
<1>4. /\ Rest(q) \in Seq(Prompt) /\ Len(Rest(q)) = l - b
      /\ \A i \in 1 .. (l - b) : Rest(q)[i] = q[b + i]
  <2>1. /\ b + 1 \in 1 .. l + 1 /\ l \in 0 .. l
        /\ \A i \in 1 .. (l - b) : (b + 1) + i - 1 = b + i
        /\ l - b = l - (b + 1) + 1
    BY <1>1
  <2> DEFINE r == SubSeq(q, b + 1, l)
  <2>2. /\ r \in Seq(Prompt)
        /\ Len(r) = IF b + 1 <= l THEN l - (b + 1) + 1 ELSE 0
        /\ \A i \in 1 .. l - (b + 1) + 1 : r[i] = q[(b + 1) + i - 1]
    <3>1. \A i \in b + 1 .. l : q[i] \in Prompt
      BY <1>1
    <3>2. b + 1 \in Int /\ l \in Int
      BY <1>1
    <3> QED BY <3>1, <3>2, SubSeqProperties
  <2>3. r = Rest(q)
    BY <1>2
  <2> HIDE DEF r, l
  <2>4. ASSUME NEW i \in 1 .. (l - b)  PROVE Rest(q)[i] = q[b + i]
    <3>1. i \in 1 .. l - (b + 1) + 1 /\ (b + 1) + i - 1 = b + i
      BY <1>1
    <3> QED BY <2>2, <2>3, <3>1
  <2>5. Rest(q) \in Seq(Prompt) /\ Len(Rest(q)) = l - b
    BY <1>1, <2>1, <2>2, <2>3
  <2> QED BY <2>4, <2>5
<1>5. DOMAIN q = 1 .. l /\ DOMAIN Batch(q) = 1 .. b /\ DOMAIN Rest(q) = 1 .. (l - b)
  BY <1>1, <1>3, <1>4
<1>6. /\ \A i \in 1 .. b : i \in 1 .. l
      /\ \A i \in 1 .. (l - b) : b + i \in 1 .. l /\ \A j \in 1 .. b : j < b + i
      /\ \A i, j \in 1 .. (l - b) : i < j => b + i < b + j
  BY <1>1
<1>7. InOrder(q) => InOrder(Batch(q)) /\ InOrder(Rest(q)) /\ Ahead(Batch(q), Rest(q))
  BY <1>3, <1>4, <1>5, <1>6 DEF InOrder, Ahead
<1>8. \A s : Ahead(s, q) => Ahead(s, Batch(q)) /\ Ahead(s, Rest(q))
  BY <1>3, <1>4, <1>5, <1>6 DEF Ahead
<1>9. \A m : UpTo(q, m) => UpTo(Batch(q), m) /\ UpTo(Rest(q), m)
  BY <1>3, <1>4, <1>5, <1>6 DEF UpTo
<1>10. Batch(q) # <<>> /\ Batch(q)[1] \in Prompt
  BY <1>1, <1>3
<1> QED BY <1>3, <1>4, <1>7, <1>8, <1>9, <1>10

(* A concatenation, read at either part.                                   *)
LEMMA JoinFacts ==
  ASSUME NEW S, NEW s \in Seq(S), NEW t \in Seq(S), NEW u, u = s \o t
  PROVE  /\ u \in Seq(S) /\ Len(u) = Len(s) + Len(t) /\ DOMAIN u = 1 .. Len(s) + Len(t)
         /\ \A i \in 1 .. Len(s) : u[i] = s[i]
         /\ \A i \in Len(s) + 1 .. Len(s) + Len(t) : u[i] = t[i - Len(s)]
<1>1. Len(s) \in Nat /\ Len(t) \in Nat
  OBVIOUS
<1>2. /\ s \o t \in Seq(S) /\ Len(s \o t) = Len(s) + Len(t)
      /\ \A i \in 1 .. Len(s) + Len(t) :
             (s \o t)[i] = IF i <= Len(s) THEN s[i] ELSE t[i - Len(s)]
  BY ConcatProperties, Zenon
<1>3. /\ u \in Seq(S) /\ Len(u) = Len(s) + Len(t)
      /\ \A i \in 1 .. Len(s) + Len(t) :
             u[i] = IF i <= Len(s) THEN s[i] ELSE t[i - Len(s)]
  BY <1>2, Zenon
<1>4. /\ \A i \in 1 .. Len(s) : i \in 1 .. Len(s) + Len(t) /\ i <= Len(s)
      /\ \A i \in Len(s) + 1 .. Len(s) + Len(t) :
             i \in 1 .. Len(s) + Len(t) /\ ~(i <= Len(s))
  BY <1>1
<1> QED BY <1>1, <1>3, <1>4

LEMMA GiveFacts ==
  ASSUME given \in Seq(Given), InOrder(given), query \in Modes \union {NoMode},
         NEW batch \in Seq(Prompt), batch # <<>>, InOrder(batch), Ahead(given, batch),
         NEW first \in BOOLEAN, Give(batch, first)
  PROVE  /\ given' \in Seq(Given) /\ InOrder(given')
         /\ \A t : Ahead(given, t) /\ Ahead(batch, t) => Ahead(given', t)
         /\ \A m : UpTo(given, m) /\ UpTo(batch, m) => UpTo(given', m)
         /\ query' \in Modes \union {NoMode}
         /\ phase' \in {"turn", "leaving"}
<1> DEFINE new == [i \in DOMAIN batch |->
                      [n |-> batch[i].n, mode |-> batch[i].mode, ran |-> query']]
           l == Len(given)
           k == Len(batch)
<1>1. /\ l \in Nat /\ k \in Nat /\ k >= 1
      /\ DOMAIN given = 1 .. l /\ DOMAIN batch = 1 .. k
      /\ \A i \in 1 .. k : batch[i] \in Prompt
  BY EmptySeq
<1>2. query' \in Modes \union {NoMode}
  BY <1>1 DEF Give, Prompt
<1>3. new \in Seq(Given) /\ Len(new) = k /\ \A i \in 1 .. k : new[i].n = batch[i].n
  <2>1. \A i \in 1 .. k : batch[i].n \in 1 .. MaxPrompts /\ batch[i].mode \in Modes
    BY <1>1 DEF Prompt
  <2>2. new \in [1 .. k -> Given]
    BY <1>1, <1>2, <2>1 DEF Given
  <2>3. \A i \in 1 .. k : new[i].n = batch[i].n
    BY <1>1
  <2> HIDE DEF new
  <2> QED BY <1>1, <2>2, <2>3
<1>4. given' = given \o new
  BY DEF Give
<1>5. phase' \in {"turn", "leaving"}
  BY DEF Give
<1> HIDE DEF new
<1>6. /\ given' \in Seq(Given) /\ Len(given') = l + k
      /\ \A i \in 1 .. l : given'[i] = given[i]
      /\ \A i \in l + 1 .. l + k : given'[i] = new[i - l]
      /\ DOMAIN given' = 1 .. l + k
  <2>1. PICK g, u, w : g = given /\ u = given' /\ w = new
    OBVIOUS
  <2>2. g \in Seq(Given) /\ w \in Seq(Given) /\ u = g \o w
    BY <1>3, <1>4, <2>1
  <2>3. /\ u \in Seq(Given) /\ Len(u) = Len(g) + Len(w) /\ DOMAIN u = 1 .. Len(g) + Len(w)
        /\ \A i \in 1 .. Len(g) : u[i] = g[i]
        /\ \A i \in Len(g) + 1 .. Len(g) + Len(w) : u[i] = w[i - Len(g)]
    BY <2>2, JoinFacts
  <2>4. Len(g) = l /\ Len(w) = k
    BY <1>3, <2>1
  <2> QED BY <2>1, <2>3, <2>4
<1>7. /\ DOMAIN given' = 1 .. l + k
      /\ \A i \in 1 .. l : given'[i].n = given[i].n /\ given[i].n \in Nat
      /\ \A i \in l + 1 .. l + k : /\ i - l \in 1 .. k
                                   /\ given'[i].n = batch[i - l].n
  <2>1. \A i \in 1 .. l : given[i] \in Given
    BY <1>1
  <2>2. \A i \in 1 .. l : given[i].n \in Nat
    BY <2>1 DEF Given
  <2>3. \A i \in l + 1 .. l + k : i - l \in 1 .. k
    BY <1>1
  <2> QED BY <1>3, <1>6, <2>2, <2>3
<1>8. \A i \in 1 .. l + k : i \in 1 .. l \/ i \in l + 1 .. l + k
  BY <1>1
<1>9. InOrder(given')
  <2> SUFFICES ASSUME NEW i \in 1 .. l + k, NEW j \in 1 .. l + k, i < j
               PROVE  given'[i].n < given'[j].n
    BY <1>7 DEF InOrder
  <2>1. CASE j \in 1 .. l
    <3>1. i \in 1 .. l
      BY <1>1, <2>1
    <3> QED BY <1>1, <1>7, <2>1, <3>1 DEF InOrder
  <2>2. CASE i \in 1 .. l /\ j \in l + 1 .. l + k
    BY <1>1, <1>7, <2>2 DEF Ahead
  <2>3. CASE i \in l + 1 .. l + k /\ j \in l + 1 .. l + k
    <3>1. i - l < j - l
      BY <1>1
    <3> QED BY <1>1, <1>7, <2>3, <3>1 DEF InOrder
  <2> QED BY <1>1, <2>1, <2>2, <2>3
<1>10. \A t : Ahead(given, t) /\ Ahead(batch, t) => Ahead(given', t)
  BY <1>1, <1>7, <1>8 DEF Ahead
<1>11. \A m : UpTo(given, m) /\ UpTo(batch, m) => UpTo(given', m)
  BY <1>1, <1>7, <1>8 DEF UpTo
<1> QED BY <1>2, <1>5, <1>6, <1>9, <1>10, <1>11

(* What a step that takes or asks leaves behind, exitReason and the history*)
(* of losses apart.                                                        *)
NewPrompts ==
    /\ queue' \in Seq(Prompt) /\ parked' \in Seq(Prompt) /\ given' \in Seq(Given)
    /\ waiting' \in BOOLEAN /\ (waiting' => queue' = <<>> /\ parked' = <<>>)
    /\ waiting' => phase' \in {"asking", "idle"}
    /\ modeHash' \in Modes \union {NoMode} /\ query' \in Modes \union {NoMode}
    /\ phase' \in {"asking", "turn", "idle", "ending", "leaving"}
    /\ parked' # <<>> => phase' \in {"ending", "leaving"}
    /\ PromptsInLine'

LEMMA NobodyAhead ==
  ASSUME NEW s, NEW m
  PROVE  Ahead(s, <<>>) /\ Ahead(<<>>, s) /\ InOrder(<<>>) /\ UpTo(<<>>, m)
  BY DEF Ahead, InOrder, UpTo

LEMMA TakesFacts ==
  ASSUME given \in Seq(Given), InOrder(given), query \in Modes \union {NoMode},
         modeHash \in Modes \union {NoMode}, parked = <<>>, UpTo(given, pushed'),
         NEW q \in Seq(Prompt), q # <<>>, InOrder(q), Ahead(given, q), UpTo(q, pushed'),
         NEW first \in BOOLEAN, Takes(q, first)
  PROVE  NewPrompts
<1> DEFINE b == Batch(q)
           r == Rest(q)
<1>1. /\ b \in Seq(Prompt) /\ b # <<>> /\ b[1] \in Prompt /\ r \in Seq(Prompt)
      /\ InOrder(b) /\ InOrder(r) /\ Ahead(b, r)
      /\ Ahead(given, b) /\ Ahead(given, r)
      /\ UpTo(b, pushed') /\ UpTo(r, pushed')
  BY BatchFacts
<1>2. queue' = r /\ waiting' = FALSE
  BY DEF Takes
<1>3. b[1].mode \in Modes /\ Hash(first) \in Modes \union {NoMode}
  BY <1>1 DEF Prompt, Hash
<1>4. CASE NeedsLaunch(b, Hash(first))
  <2>1. /\ parked' = b /\ phase' \in {"leaving", "ending"} /\ modeHash' = Hash(first)
        /\ query' = query /\ given' = given
    BY <1>4 DEF Takes
  <2> HIDE DEF b, r
  <2>2. PromptsInLine'
    BY <1>1, <1>2, <2>1 DEF PromptsInLine
  <2> QED BY <1>1, <1>2, <1>3, <2>1, <2>2 DEF NewPrompts
<1>5. CASE ~NeedsLaunch(b, Hash(first))
  <2>1. Give(b, first) /\ parked' = <<>> /\ modeHash' = b[1].mode
    BY <1>5 DEF Takes
  <2> HIDE DEF b, r
  <2>2. /\ given' \in Seq(Given) /\ InOrder(given')
        /\ Ahead(given', r) /\ UpTo(given', pushed')
        /\ query' \in Modes \union {NoMode}
        /\ phase' \in {"turn", "leaving"}
    BY <1>1, <2>1, GiveFacts
  <2>3. PromptsInLine'
    BY <1>1, <1>2, <2>1, <2>2, NobodyAhead DEF PromptsInLine
  <2> QED BY <1>1, <1>2, <1>3, <2>1, <2>2, <2>3, EmptySeq DEF NewPrompts
<1> QED BY <1>4, <1>5

LEMMA AsksFacts ==
  ASSUME PromptTypes, PromptsInLine, parked = <<>>, UNCHANGED pushed,
         NEW first \in BOOLEAN, Asks(first)
  PROVE  NewPrompts
<1>1. CASE queue # <<>>
  BY <1>1, TakesFacts DEF Asks, PromptTypes, PromptsInLine
<1>2. CASE queue = <<>>
  <2>1. /\ waiting' = TRUE /\ phase' \in {"asking", "idle"} /\ modeHash' = Hash(first)
        /\ queue' = <<>> /\ parked' = <<>> /\ query' = query /\ given' = given
    BY <1>2 DEF Asks
  <2>2. Hash(first) \in Modes \union {NoMode}
    BY DEF Hash, PromptTypes
  <2>3. PromptsInLine'
    BY <1>2, <2>1 DEF PromptsInLine
  <2> QED BY <2>1, <2>2, <2>3, EmptySeq DEF NewPrompts, PromptTypes
<1> QED BY <1>1, <1>2

LEMMA LaunchFacts ==
  ASSUME PromptTypes, PromptsInLine, UNCHANGED pushed, Launches,
         parked = <<>> \/ ~waiting
  PROVE  NewPrompts
<1>1. CASE parked = <<>>
  BY <1>1, AsksFacts DEF Launches
<1>2. CASE parked # <<>>
  <2>1. /\ Give(parked, TRUE) /\ parked' = <<>> /\ modeHash' = NoMode
        /\ queue' = queue /\ waiting' = FALSE
    BY <1>2 DEF Launches, PromptTypes
  <2>2. /\ given' \in Seq(Given) /\ InOrder(given')
        /\ Ahead(given', queue) /\ UpTo(given', pushed)
        /\ query' \in Modes \union {NoMode}
        /\ phase' \in {"turn", "leaving"}
    BY <1>2, <2>1, GiveFacts DEF PromptTypes, PromptsInLine
  <2>3. PromptsInLine'
    BY <2>1, <2>2, NobodyAhead DEF PromptsInLine
  <2> QED BY <2>1, <2>2, <2>3, EmptySeq DEF NewPrompts, PromptTypes
<1> QED BY <1>1, <1>2

-----------------------------------------------------------------------------
(* The prompts' half of the invariant, action by action.                   *)

LEMMA NewPromptsStep ==
  ASSUME NewPrompts, loop' = "remote", exitReason' = "none",
         pushed' \in 0 .. MaxPrompts, dropped' \subseteq 1 .. pushed', lost' \subseteq 1 .. pushed'
  PROVE  PInv'
<1>1. PromptTypes'
  BY DEF NewPrompts, PromptTypes
<1>2. WaitingPhases'
  BY DEF NewPrompts, WaitingPhases
<1> QED BY <1>1, <1>2 DEF NewPrompts, PInv

(* The launchers move, and the prompts stay where they are.                *)
LEMMA MovesStep ==
  ASSUME PInv, UNCHANGED promptVars,
         loop' \in {"local", "remote", "over"}, exitReason' \in {"none", "switch", "exit"},
         loop' = "local" => phase' \in {"entering", "running", "stopping", "leaving"},
         loop' = "remote" => phase' \in {"asking", "turn", "idle", "ending", "leaving"},
         loop' = "over" => phase' = "over",
         waiting => loop' = "remote",
         WaitingPhases'
  PROVE  PInv'
<1>1. PromptTypes'
  BY DEF PInv, PromptTypes, promptVars
<1>2. PromptsInLine'
  BY DEF PInv, PromptsInLine, promptVars, InOrder, Ahead, UpTo
<1> QED BY <1>1, <1>2 DEF PInv

LEMMA QueueWithFacts ==
  ASSUME PInv, pushed < MaxPrompts, NEW prompt \in Prompt, prompt.n = pushed + 1
  PROVE  /\ QueueWith(prompt) \in Seq(Prompt) /\ QueueWith(prompt) # <<>>
         /\ InOrder(QueueWith(prompt))
         /\ Ahead(given, QueueWith(prompt)) /\ Ahead(parked, QueueWith(prompt))
         /\ UpTo(QueueWith(prompt), pushed + 1)
<1> DEFINE q == QueueWith(prompt)
           l == Len(queue)
<1>1. /\ queue \in Seq(Prompt) /\ l \in Nat /\ DOMAIN queue = 1 .. l /\ pushed \in Nat
      /\ InOrder(queue) /\ Ahead(given, queue) /\ Ahead(parked, queue)
      /\ UpTo(queue, pushed) /\ UpTo(given, pushed) /\ UpTo(parked, pushed)
      /\ \A i \in 1 .. l : queue[i] \in Prompt
  BY DEF PInv, PromptTypes, PromptsInLine
<1>2. /\ \A i \in DOMAIN given : given[i].n <= pushed /\ given[i].n \in Nat
      /\ \A i \in DOMAIN parked : parked[i].n <= pushed /\ parked[i].n \in Nat
      /\ \A i \in 1 .. l : queue[i].n <= pushed /\ queue[i].n \in Nat
  <2>1. /\ \A i \in DOMAIN given : given[i] \in Given
        /\ \A i \in DOMAIN parked : parked[i] \in Prompt
    BY DEF PInv, PromptTypes
  <2> QED BY <1>1, <2>1 DEF UpTo, Prompt, Given
<1>3. CASE Clears(prompt.kind)
  <2>1. q = <<prompt>>
    BY <1>3 DEF QueueWith
  <2>2. q \in Seq(Prompt) /\ q # <<>> /\ DOMAIN q = 1 .. 1 /\ q[1] = prompt
    BY <2>1
  <2> HIDE DEF q
  <2>3. InOrder(q) /\ UpTo(q, pushed + 1)
    BY <1>1, <2>2 DEF InOrder, UpTo
  <2>4. Ahead(given, q) /\ Ahead(parked, q)
    BY <1>1, <1>2, <2>2 DEF Ahead
  <2> QED BY <2>2, <2>3, <2>4 DEF q
<1>4. CASE ~Clears(prompt.kind)
  <2>1. q = Append(queue, prompt)
    BY <1>4 DEF QueueWith
  <2>2. /\ q \in Seq(Prompt) /\ q # <<>> /\ DOMAIN q = 1 .. l + 1 /\ q[l + 1] = prompt
        /\ \A i \in 1 .. l : q[i] = queue[i]
    BY <1>1, <2>1
  <2> HIDE DEF q
  <2>3. /\ \A i \in 1 .. l : q[i].n = queue[i].n /\ q[i].n <= pushed
        /\ q[l + 1].n = pushed + 1
        /\ \A i \in 1 .. l + 1 : i \in 1 .. l \/ i = l + 1
    BY <1>1, <1>2, <2>2
  <2>4. InOrder(q) /\ UpTo(q, pushed + 1)
    BY <1>1, <1>2, <2>2, <2>3 DEF InOrder, UpTo
  <2>5. Ahead(given, q) /\ Ahead(parked, q)
    BY <1>1, <1>2, <2>2, <2>3 DEF Ahead
  <2> QED BY <2>2, <2>4, <2>5 DEF q
<1> QED BY <1>3, <1>4

LEMMA NumbersAreKnown ==
  ASSUME NEW q \in Seq(Prompt), NEW m \in Nat, UpTo(q, m)
  PROVE  NumbersOf(q) \subseteq 1 .. m
<1>1. \A i \in DOMAIN q : q[i] \in Prompt
  OBVIOUS
<1> QED BY <1>1 DEF NumbersOf, UpTo, Prompt

LEMMA PushStep ==
  ASSUME PInv, NEW mode \in Modes, NEW kind \in Kinds, Push(mode, kind)
  PROVE  PInv'
<1> DEFINE prompt == [n |-> pushed + 1, mode |-> mode, kind |-> kind]
           q == QueueWith(prompt)
<1>1. /\ loop # "over" /\ pushed < MaxPrompts /\ pushed' = pushed + 1
      /\ dropped' = dropped \union (NumbersOf(queue) \ NumbersOf(q))
      /\ UNCHANGED <<loop, exitReason>>
      /\ pushed \in Nat /\ MaxPrompts \in Nat
  BY BoundsAssumption DEF Push, PInv, PromptTypes
<1>2. prompt \in Prompt /\ prompt.n = pushed + 1 /\ pushed' \in 0 .. MaxPrompts
  BY <1>1 DEF Prompt
<1>3. CASE waiting /\ phase # "leaving"
  <2>1. Takes(q, phase = "asking") /\ lost' = lost
    BY <1>3 DEF Push
  <2>2. /\ loop' = "remote" /\ exitReason' = "none" /\ parked = <<>>
        /\ given \in Seq(Given) /\ InOrder(given) /\ query \in Modes \union {NoMode}
        /\ modeHash \in Modes \union {NoMode}
    BY <1>1, <1>3 DEF PInv, PromptTypes, WaitingPhases, PromptsInLine
  <2>3. UpTo(given, pushed')
    <3>1. \A i \in DOMAIN given : given[i] \in Given /\ given[i].n <= pushed
      BY <2>2 DEF PInv, PromptsInLine, UpTo
    <3> QED BY <1>1, <3>1 DEF UpTo, Given
  <2>4. dropped' \subseteq 1 .. pushed' /\ lost' \subseteq 1 .. pushed'
    <3>1. NumbersOf(queue) \subseteq 1 .. pushed
      BY <1>1, NumbersAreKnown DEF PInv, PromptTypes, PromptsInLine
    <3>2. dropped \subseteq 1 .. pushed /\ lost \subseteq 1 .. pushed
      BY DEF PInv, PromptTypes
    <3>3. 1 .. pushed \subseteq 1 .. pushed'
      BY <1>1
    <3> QED BY <1>1, <2>1, <3>1, <3>2, <3>3
  <2> HIDE DEF prompt
  <2>5. q \in Seq(Prompt) /\ q # <<>> /\ InOrder(q) /\ Ahead(given, q) /\ UpTo(q, pushed')
    BY <1>1, <1>2, QueueWithFacts
  <2> HIDE DEF q
  <2>6. NewPrompts
    BY <2>1, <2>2, <2>3, <2>5, TakesFacts
  <2> QED BY <1>2, <2>2, <2>4, <2>6, NewPromptsStep
<1>4. dropped' \subseteq 1 .. pushed' /\ 1 .. pushed \subseteq 1 .. pushed'
  <2>1. NumbersOf(queue) \subseteq 1 .. pushed
    BY <1>1, NumbersAreKnown DEF PInv, PromptTypes, PromptsInLine
  <2>2. dropped \subseteq 1 .. pushed
    BY DEF PInv, PromptTypes
  <2>3. 1 .. pushed \subseteq 1 .. pushed'
    BY <1>1
  <2> QED BY <1>1, <2>1, <2>2, <2>3
<1>5. /\ \A i \in DOMAIN given : given[i].n <= pushed' /\ given[i].n < pushed + 1
      /\ \A i \in DOMAIN parked : parked[i].n <= pushed'
  <2>1. /\ \A i \in DOMAIN given : given[i] \in Given /\ given[i].n <= pushed
        /\ \A i \in DOMAIN parked : parked[i] \in Prompt /\ parked[i].n <= pushed
    BY DEF PInv, PromptTypes, PromptsInLine, UpTo
  <2>2. /\ \A i \in DOMAIN given : given[i].n \in Nat
        /\ \A i \in DOMAIN parked : parked[i].n \in Nat
    BY <2>1 DEF Given, Prompt
  <2> QED BY <1>1, <2>1, <2>2
<1>6. CASE waiting /\ phase = "leaving"
  <2>1. /\ waiting' = FALSE /\ queue' = <<>>
        /\ \/ parked' = <<prompt>> /\ lost' = lost
           \/ parked' = parked /\ lost' = lost \union {pushed + 1}
        /\ UNCHANGED <<phase, modeHash, query, given>>
    BY <1>6 DEF Push
  <2>2. loop = "remote" /\ parked = <<>>
    BY <1>6 DEF PInv, PromptTypes
  <2>3. lost' \subseteq 1 .. pushed'
    <3>1. lost \subseteq 1 .. pushed'
      BY <1>4 DEF PInv, PromptTypes
    <3>2. pushed + 1 \in 1 .. pushed'
      BY <1>1
    <3>3. lost' \subseteq lost \union {pushed + 1}
      BY <2>1
    <3> QED BY <3>1, <3>2, <3>3
  <2>4. /\ parked' \in Seq(Prompt)
        /\ \A i \in DOMAIN parked' : i = 1 /\ parked'[i].n = pushed + 1
    <3>1. CASE parked' = <<prompt>>
      <4>1. <<prompt>> \in Seq(Prompt) /\ DOMAIN <<prompt>> = {1} /\ <<prompt>>[1] = prompt
        BY <1>2
      <4> QED BY <1>2, <3>1, <4>1
    <3>2. CASE parked' = parked
      BY <2>2, <3>2, EmptySeq
    <3> QED BY <2>1, <3>1, <3>2
  <2>5. PromptTypes'
    BY <1>1, <1>2, <1>4, <2>1, <2>2, <2>3, <2>4 DEF PInv, PromptTypes
  <2>6. PromptsInLine'
    <3>1. InOrder(parked') /\ UpTo(parked', pushed')
      BY <1>1, <2>4 DEF InOrder, UpTo
    <3>2. Ahead(given, parked') /\ UpTo(given, pushed')
      BY <1>5, <2>4 DEF Ahead, UpTo
    <3> QED BY <2>1, <3>1, <3>2, NobodyAhead DEF PInv, PromptsInLine
  <2>7. WaitingPhases'
    BY <1>1, <1>6, <2>1, <2>2 DEF PInv, WaitingPhases
  <2> QED BY <2>5, <2>6, <2>7 DEF PInv
<1>7. CASE ~waiting
  <2>1. /\ queue' = q
        /\ phase' = IF loop = "local" /\ phase = "running" THEN "stopping" ELSE phase
        /\ UNCHANGED <<waiting, parked, modeHash, query, given, lost>>
    BY <1>7 DEF Push
  <2> HIDE DEF prompt
  <2>2. /\ q \in Seq(Prompt) /\ InOrder(q) /\ Ahead(given, q) /\ Ahead(parked, q)
        /\ UpTo(q, pushed')
    BY <1>1, <1>2, QueueWithFacts
  <2> HIDE DEF q
  <2>3. PromptTypes'
    BY <1>1, <1>2, <1>4, <1>7, <2>1, <2>2 DEF PInv, PromptTypes
  <2>4. PromptsInLine'
    <3>1. UpTo(given, pushed') /\ UpTo(parked, pushed')
      BY <1>5 DEF UpTo
    <3> QED BY <2>1, <2>2, <3>1 DEF PInv, PromptsInLine
  <2>5. WaitingPhases'
    BY <1>1, <1>7, <2>1 DEF PInv, WaitingPhases
  <2> QED BY <2>3, <2>4, <2>5 DEF PInv
<1> QED BY <1>3, <1>6, <1>7 DEF PInv, PromptTypes

LEMMA LocalSteps ==
  ASSUME PInv, LocalStarts \/ LocalSwitch \/ LocalAbort \/ LocalEnds
  PROVE  PInv'
<1>1. CASE LocalStarts
  <2>1. loop = "local" /\ UNCHANGED <<loop, promptVars>> /\ ~waiting /\ parked = <<>>
    BY <1>1 DEF LocalStarts, PInv, PromptTypes, WaitingPhases
  <2>2. phase' \in {"leaving", "running"} /\ exitReason' \in {"none", "switch", "exit"}
    BY <1>1 DEF LocalStarts, PInv, PromptTypes
  <2>3. WaitingPhases'
    BY <2>1 DEF WaitingPhases, promptVars
  <2> QED BY <2>1, <2>2, <2>3, MovesStep
<1>2. CASE LocalSwitch
  <2>1. /\ loop = "local" /\ UNCHANGED <<loop, exitReason, promptVars>>
        /\ ~waiting /\ parked = <<>> /\ phase' = "stopping"
    BY <1>2 DEF LocalSwitch, PInv, PromptTypes, WaitingPhases
  <2>2. WaitingPhases'
    BY <2>1 DEF WaitingPhases, promptVars
  <2> QED BY <2>1, <2>2, MovesStep DEF PInv, PromptTypes
<1>3. CASE LocalEnds
  <2>1. /\ loop = "local" /\ UNCHANGED <<loop, promptVars>> /\ ~waiting /\ parked = <<>>
        /\ phase' = "leaving" /\ exitReason' \in {"switch", "exit"}
    BY <1>3 DEF LocalEnds, PInv, PromptTypes, WaitingPhases
  <2>2. WaitingPhases'
    BY <2>1 DEF WaitingPhases, promptVars
  <2> QED BY <2>1, <2>2, MovesStep
<1>4. CASE LocalAbort
  <2>1. /\ loop = "local" /\ phase' = "stopping" /\ exitReason' = "switch"
        /\ dropped' = dropped \union NumbersOf(queue) /\ queue' = <<>> /\ waiting' = FALSE
        /\ UNCHANGED <<loop, parked, modeHash, query, pushed, given, lost>>
        /\ ~waiting /\ parked = <<>>
    BY <1>4 DEF LocalAbort, PInv, PromptTypes, WaitingPhases
  <2>2. NumbersOf(queue) \subseteq 1 .. pushed
    BY NumbersAreKnown DEF PInv, PromptTypes, PromptsInLine
  <2>3. PromptTypes'
    BY <2>1, <2>2 DEF PInv, PromptTypes
  <2>4. PromptsInLine'
    BY <2>1, NobodyAhead DEF PInv, PromptsInLine
  <2>5. WaitingPhases'
    BY <2>1 DEF WaitingPhases
  <2> QED BY <2>3, <2>4, <2>5 DEF PInv
<1> QED BY <1>1, <1>2, <1>3, <1>4

LEMMA LocalReturnsStep ==
  ASSUME PInv, LocalReturns
  PROVE  PInv'
<1>1. loop = "local" /\ ~waiting /\ parked = <<>>
  BY DEF LocalReturns, PInv, PromptTypes, WaitingPhases
<1>2. CASE exitReason = "exit"
  <2>1. loop' = "over" /\ phase' = "over" /\ UNCHANGED <<exitReason, promptVars>>
    BY <1>2 DEF LocalReturns
  <2>2. WaitingPhases'
    BY <1>1, <2>1 DEF WaitingPhases, promptVars
  <2> QED BY <1>1, <1>2, <2>1, <2>2, MovesStep
<1>3. CASE exitReason # "exit"
  <2>1. /\ loop' = "remote" /\ exitReason' = "none" /\ Launches
        /\ UNCHANGED <<pushed, dropped, lost>>
    BY <1>3 DEF LocalReturns
  <2>2. NewPrompts
    BY <1>1, <2>1, LaunchFacts DEF PInv
  <2> QED BY <2>1, <2>2, NewPromptsStep DEF PInv, PromptTypes
<1> QED BY <1>2, <1>3

LEMMA LaunchCleanedUpStep ==
  ASSUME PInv, LaunchCleanedUp
  PROVE  PInv'
<1>1. loop = "remote" /\ phase = "leaving" /\ UNCHANGED <<pushed, dropped>>
  BY DEF LaunchCleanedUp
<1>2. CASE exitReason = "none"
  <2>1. Launches /\ UNCHANGED <<loop, exitReason, lost>>
    BY <1>2 DEF LaunchCleanedUp
  <2>2. parked = <<>> \/ ~waiting
    BY DEF PInv, PromptTypes
  <2>3. NewPrompts
    BY <1>1, <2>1, <2>2, LaunchFacts DEF PInv
  <2> QED BY <1>1, <1>2, <2>1, <2>3, NewPromptsStep DEF PInv, PromptTypes
<1>3. CASE exitReason # "none"
  <2>1. /\ loop' = IF exitReason = "exit" THEN "over" ELSE "local"
        /\ phase' = IF exitReason = "exit" THEN "over" ELSE "entering"
        /\ exitReason' = "none" /\ lost' = lost \union NumbersOf(parked)
        /\ parked' = <<>> /\ modeHash' = NoMode /\ query' = NoMode
        /\ UNCHANGED <<queue, waiting, given>>
        /\ ~waiting
    BY <1>3 DEF LaunchCleanedUp, PInv, WaitingPhases
  <2>2. NumbersOf(parked) \subseteq 1 .. pushed
    BY NumbersAreKnown DEF PInv, PromptTypes, PromptsInLine
  <2>3. PromptTypes'
    <3>1. parked' \in Seq(Prompt) /\ lost' \subseteq 1 .. pushed'
      BY <1>1, <2>1, <2>2, EmptySeq DEF PInv, PromptTypes
    <3>2. /\ loop' \in {"local", "over"} /\ exitReason' = "none"
          /\ loop' = "local" => phase' = "entering"
          /\ loop' = "over" => phase' = "over"
          /\ modeHash' = NoMode /\ query' = NoMode /\ waiting' = FALSE
      BY <2>1
    <3>3. /\ queue' \in Seq(Prompt) /\ given' \in Seq(Given) /\ pushed' \in 0 .. MaxPrompts
          /\ dropped' \subseteq 1 .. pushed'
      BY <1>1, <2>1 DEF PInv, PromptTypes
    <3> QED BY <3>1, <3>2, <3>3 DEF PromptTypes
  <2>4. PromptsInLine'
    BY <1>1, <2>1, NobodyAhead DEF PInv, PromptsInLine
  <2>5. WaitingPhases'
    BY <2>1 DEF WaitingPhases
  <2> QED BY <2>3, <2>4, <2>5 DEF PInv
<1> QED BY <1>2, <1>3

LEMMA RemoteSteps ==
  ASSUME PInv,
         \/ LaunchEnds \/ TurnEnds
         \/ \E reason \in {"none", "switch", "exit"} : RemoteAbort(reason)
  PROVE  PInv'
<1>1. CASE LaunchEnds
  <2>1. /\ loop = "remote" /\ phase' = "leaving" /\ UNCHANGED <<loop, exitReason, promptVars>>
    BY <1>1 DEF LaunchEnds
  <2>2. WaitingPhases'
    BY <2>1 DEF PInv, WaitingPhases, promptVars
  <2> QED BY <2>1, <2>2, MovesStep DEF PInv, PromptTypes
<1>2. CASE TurnEnds
  <2>1. /\ loop = "remote" /\ Asks(FALSE) /\ UNCHANGED <<loop, exitReason, pushed, dropped, lost>>
        /\ exitReason = "none" /\ parked = <<>>
    BY <1>2 DEF TurnEnds, PInv, WaitingPhases, PromptTypes
  <2>2. NewPrompts
    BY <2>1, AsksFacts DEF PInv
  <2> QED BY <2>1, <2>2, NewPromptsStep DEF PInv, PromptTypes
<1>3. ASSUME NEW reason \in {"none", "switch", "exit"}, RemoteAbort(reason)
      PROVE  PInv'
  <2>1. /\ loop = "remote" /\ exitReason' \in {"none", "switch", "exit"} /\ waiting' = FALSE
        /\ phase' \in {"leaving", "ending"}
        /\ UNCHANGED <<loop, queue, parked, modeHash, query, pushed, given, dropped, lost>>
    BY <1>3 DEF RemoteAbort, PInv, PromptTypes
  <2>2. PromptTypes'
    BY <2>1 DEF PInv, PromptTypes
  <2>3. PromptsInLine'
    BY <2>1 DEF PInv, PromptsInLine
  <2>4. WaitingPhases'
    BY <2>1 DEF WaitingPhases
  <2> QED BY <2>2, <2>3, <2>4 DEF PInv
<1> QED BY <1>1, <1>2, <1>3

(* The tools' steps leave the prompts alone; at most they end the turn.    *)
LEMMA ToolsKeepPrompts ==
  ASSUME PInv, (loop = "remote" /\ phase = "turn") \/ phase' = phase,
         phase' \in {phase, "leaving"}, UNCHANGED <<loop, exitReason, promptVars>>
  PROVE  PInv'
<1>1. WaitingPhases'
  BY DEF PInv, WaitingPhases, promptVars
<1> QED BY <1>1, MovesStep DEF PInv, PromptTypes

-----------------------------------------------------------------------------
(* The output's half.                                                      *)

CallIds == 1 .. MaxCalls
OutItem == [what : {"use", "result"}, call : CallIds, released : BOOLEAN, id : Nat \ {0}]
SentItem == [what : {"use", "result"}, call : CallIds, id : Nat]

ToolTypes ==
    /\ called \subseteq CallIds /\ ongoing \subseteq CallIds
    /\ out \in Seq(OutItem) /\ sent \in Seq(SentItem)

(* Of the first i messages of s, those that went through the queue.        *)
Count(s, i) == Cardinality({j \in 1 .. i : s[j].id # 0})

(* OutputInOrder of any sequence.  What waits continues the numbers of what*)
(* went out.                                                               *)
Sound(s) == \A i \in DOMAIN s : s[i].id # 0 => s[i].id = Count(s, i)
Continues(o, c) == \A i \in DOMAIN o : o[i].id = c + i

TInv == /\ ToolTypes
        /\ Sound(sent) /\ Continues(out, Count(sent, Len(sent)))

LEMMA CountType ==
  ASSUME NEW s, NEW i \in Nat
  PROVE  IsFiniteSet({j \in 1 .. i : s[j].id # 0}) /\ Count(s, i) \in Nat
<1>1. {j \in 1 .. i : s[j].id # 0} \in SUBSET (1 .. i) /\ IsFiniteSet(1 .. i)
  BY FS_Interval
<1>2. IsFiniteSet({j \in 1 .. i : s[j].id # 0})
  BY <1>1, FS_Subset
<1> QED BY <1>2, FS_CardinalityType DEF Count

(* u is s and then messages that each count, or that do not.               *)
CountsOn(s, u) ==
    /\ \A i \in 0 .. Len(s) : Count(u, i) = Count(s, i)
    /\ \A i \in Len(s) .. Len(u) : Count(u, i) = Count(s, Len(s)) + (i - Len(s))
CountsNoMore(s, u) ==
    /\ \A i \in 0 .. Len(s) : Count(u, i) = Count(s, i)
    /\ Count(u, Len(u)) = Count(s, Len(s))

LEMMA CountJoined ==
  ASSUME NEW s \in Seq(SentItem), NEW t \in Seq(SentItem), NEW u, u = s \o t
  PROVE  /\ (\A i \in DOMAIN t : t[i].id = 0) => CountsNoMore(s, u)
         /\ (\A i \in DOMAIN t : t[i].id # 0) => CountsOn(s, u)
<1> DEFINE l == Len(s)
           m == Len(t)
           passed(w, i) == {j \in 1 .. i : w[j].id # 0}
<1>1. /\ l \in Nat /\ m \in Nat /\ DOMAIN t = 1 .. m /\ Len(u) = l + m
      /\ \A i \in 1 .. l : u[i] = s[i]
      /\ \A i \in l + 1 .. l + m : u[i] = t[i - l]
  BY JoinFacts
<1>2. \A i \in 0 .. l : passed(u, i) = passed(s, i)
  BY <1>1
<1>3. \A i \in 0 .. l : Count(u, i) = Count(s, i)
  BY <1>2 DEF Count
<1>4. ASSUME \A i \in DOMAIN t : t[i].id = 0
      PROVE  Count(u, l + m) = Count(s, l)
  <2>1. \A i \in l + 1 .. l + m : i - l \in DOMAIN t /\ u[i].id = 0
    <3>1. \A i \in l + 1 .. l + m : i - l \in 1 .. m
      BY <1>1
    <3> QED BY <1>1, <1>4, <3>1
  <2>2. \A i \in 1 .. l + m : i \in 1 .. l \/ i \in l + 1 .. l + m
    BY <1>1
  <2>3. passed(u, l + m) = passed(s, l)
    <3>1. \A j : j \in passed(u, l + m) => j \in passed(s, l)
      BY <1>1, <2>1, <2>2
    <3>2. \A j : j \in passed(s, l) => j \in passed(u, l + m)
      BY <1>1
    <3> QED BY <3>1, <3>2
  <2> QED BY <2>3 DEF Count
<1>5. ASSUME \A i \in DOMAIN t : t[i].id # 0, NEW k \in 0 .. m
      PROVE  Count(u, l + k) = Count(s, l) + k
  <2> DEFINE A == passed(s, l)
             B == l + 1 .. l + k
  <2>1. \A i \in B : i - l \in DOMAIN t /\ u[i].id # 0
    <3>1. \A i \in B : i - l \in 1 .. m /\ i \in l + 1 .. l + m
      BY <1>1
    <3> QED BY <1>1, <1>5, <3>1
  <2>2. \A i \in 1 .. l + k : i \in 1 .. l \/ i \in B
    BY <1>1
  <2>3. passed(u, l + k) = A \union B
    <3>1. \A j : j \in passed(u, l + k) => j \in A \union B
      BY <1>1, <2>2
    <3>2. \A j : j \in A \union B => j \in passed(u, l + k)
      BY <1>1, <2>1
    <3> QED BY <3>1, <3>2
  <2>4. IsFiniteSet(A) /\ Cardinality(A) \in Nat
    BY <1>1, CountType DEF Count
  <2>5. IsFiniteSet(B) /\ Cardinality(B) = k
    <3>1. l + 1 \in Int /\ l + k \in Int
      BY <1>1
    <3>2. /\ IsFiniteSet(B)
          /\ Cardinality(B) = IF l + 1 > l + k THEN 0 ELSE (l + k) - (l + 1) + 1
      BY <3>1, FS_Interval
    <3> QED BY <1>1, <3>2
  <2>6. A \cap B = {} /\ Cardinality(A \cap B) = 0
    <3>1. A \cap B = {}
      BY <1>1
    <3> QED BY <3>1, FS_EmptySet
  <2> HIDE DEF A, B
  <2>7. Cardinality(A \union B) = Cardinality(A) + Cardinality(B) - Cardinality(A \cap B)
    BY <2>4, <2>5, FS_Union
  <2>8. Cardinality(A \union B) = Cardinality(A) + k
    BY <1>1, <2>4, <2>5, <2>6, <2>7
  <2> QED BY <2>3, <2>8 DEF Count, A
<1>6. ASSUME \A i \in DOMAIN t : t[i].id # 0, NEW i \in l .. Len(u)
      PROVE  Count(u, i) = Count(s, l) + (i - l)
  <2>1. PICK k : k = i - l
    OBVIOUS
  <2>2. k \in 0 .. m /\ i = l + k
    BY <1>1, <2>1
  <2> QED BY <1>5, <1>6, <2>1, <2>2
<1>7. l + m = Len(u)
  BY <1>1
<1> QED BY <1>3, <1>4, <1>6, <1>7 DEF CountsOn, CountsNoMore

(* What goes out by itself, past the queue, changes no number.             *)
LEMMA GoesPast ==
  ASSUME NEW s \in Seq(SentItem), NEW t \in Seq(SentItem), NEW u, u = s \o t,
         Sound(s), \A i \in DOMAIN t : t[i].id = 0
  PROVE  u \in Seq(SentItem) /\ Sound(u) /\ Count(u, Len(u)) = Count(s, Len(s))
<1> DEFINE l == Len(s)
           m == Len(t)
<1>1. /\ l \in Nat /\ m \in Nat /\ u \in Seq(SentItem)
      /\ DOMAIN u = 1 .. l + m /\ DOMAIN s = 1 .. l /\ DOMAIN t = 1 .. m
      /\ \A i \in 1 .. l : u[i] = s[i]
      /\ \A i \in l + 1 .. l + m : u[i] = t[i - l]
  BY JoinFacts
<1>2. /\ \A i \in 0 .. l : Count(u, i) = Count(s, i)
      /\ Count(u, Len(u)) = Count(s, l)
  BY CountJoined DEF CountsNoMore
<1>3. Sound(u)
  <2> SUFFICES ASSUME NEW i \in 1 .. l + m, u[i].id # 0  PROVE u[i].id = Count(u, i)
    BY <1>1 DEF Sound
  <2>1. CASE i \in 1 .. l
    <3>1. i \in 0 .. l
      BY <1>1, <2>1
    <3> QED BY <1>1, <1>2, <2>1, <3>1 DEF Sound
  <2>2. CASE i \in l + 1 .. l + m
    <3>1. i - l \in 1 .. m
      BY <1>1, <2>2
    <3> QED BY <1>1, <2>2, <3>1
  <2> QED BY <1>1, <2>1, <2>2
<1> QED BY <1>1, <1>2, <1>3

LEMMA MessagesFacts ==
  ASSUME NEW items \in Seq(OutItem)
  PROVE  /\ Messages(items) \in Seq(SentItem) /\ Len(Messages(items)) = Len(items)
         /\ \A i \in 1 .. Len(items) : Messages(items)[i].id = items[i].id
<1> DEFINE n == Len(items)
           w == Messages(items)
<1>1. n \in Nat /\ DOMAIN items = 1 .. n /\ \A i \in 1 .. n : items[i] \in OutItem
  OBVIOUS
<1>2. w = [i \in 1 .. n |-> Message(items[i])]
  BY <1>1 DEF Messages
<1>3. \A i \in 1 .. n : Message(items[i]) \in SentItem /\ Message(items[i]).id = items[i].id
  BY <1>1 DEF Message, SentItem, OutItem
<1> HIDE DEF w
<1>4. w \in [1 .. n -> SentItem] /\ \A i \in 1 .. n : w[i].id = items[i].id
  BY <1>2, <1>3
<1> QED BY <1>1, <1>4 DEF w

(* f is the first k of o, and r is what comes after them.                  *)
Splits(o, k, f, r) ==
    /\ Len(f) = k /\ \A i \in 1 .. k : f[i] = o[i]
    /\ Len(r) = Len(o) - k /\ \A i \in 1 .. Len(o) - k : r[i] = o[k + i]

LEMMA FrontFacts ==
  ASSUME NEW o \in Seq(OutItem), NEW k \in 0 .. Len(o)
  PROVE  /\ SubSeq(o, 1, k) \in Seq(OutItem) /\ SubSeq(o, k + 1, Len(o)) \in Seq(OutItem)
         /\ Splits(o, k, SubSeq(o, 1, k), SubSeq(o, k + 1, Len(o)))
<1> DEFINE n == Len(o)
           f == SubSeq(o, 1, k)
           r == SubSeq(o, k + 1, n)
<1>1. /\ n \in Nat /\ k \in Nat /\ k <= n /\ \A i \in 1 .. n : o[i] \in OutItem
  OBVIOUS
<1>2. f \in Seq(OutItem) /\ Len(f) = k /\ \A i \in 1 .. k : f[i] = o[i]
  <2>1. \A i \in 1 .. k : o[i] \in OutItem /\ 1 + i - 1 = i
    BY <1>1
  <2>2. /\ f \in Seq(OutItem) /\ Len(f) = IF 1 <= k THEN k - 1 + 1 ELSE 0
        /\ \A i \in 1 .. k - 1 + 1 : f[i] = o[1 + i - 1]
    BY <1>1, <2>1, SubSeqProperties
  <2> HIDE DEF f
  <2> QED BY <1>1, <2>1, <2>2
<1>3. r \in Seq(OutItem) /\ Len(r) = n - k /\ \A i \in 1 .. n - k : r[i] = o[k + i]
  <2>1. /\ \A i \in k + 1 .. n : o[i] \in OutItem
        /\ k + 1 \in Int /\ n \in Int
        /\ \A i \in 1 .. n - k : (k + 1) + i - 1 = k + i
        /\ n - (k + 1) + 1 = n - k
    BY <1>1
  <2>2. /\ r \in Seq(OutItem) /\ Len(r) = IF k + 1 <= n THEN n - (k + 1) + 1 ELSE 0
        /\ \A i \in 1 .. n - (k + 1) + 1 : r[i] = o[(k + 1) + i - 1]
    BY <2>1, SubSeqProperties
  <2> HIDE DEF r, n
  <2> QED BY <1>1, <2>1, <2>2
<1> QED BY <1>2, <1>3 DEF Splits

LEMMA SplitContinues ==
  ASSUME NEW o \in Seq(OutItem), NEW k \in 0 .. Len(o), NEW c \in Nat, Continues(o, c),
         NEW f \in Seq(OutItem), NEW r \in Seq(OutItem), Splits(o, k, f, r)
  PROVE  /\ Messages(f) \in Seq(SentItem) /\ Len(Messages(f)) = k
         /\ Continues(Messages(f), c) /\ Continues(r, c + k)
<1> DEFINE n == Len(o)
<1>1. n \in Nat /\ DOMAIN o = 1 .. n /\ k \in Nat /\ k <= n
  OBVIOUS
<1>2. \A i \in 1 .. n : o[i].id = c + i
  BY <1>1 DEF Continues
<1>3. Len(f) = k /\ \A i \in 1 .. k : f[i] = o[i]
  BY DEF Splits
<1>4. \A i \in 1 .. k : f[i].id = c + i
  <2>1. \A i \in 1 .. k : i \in 1 .. n
    BY <1>1
  <2> QED BY <1>2, <1>3, <2>1
<1>5. Continues(Messages(f), c)
  BY <1>3, <1>4, MessagesFacts DEF Continues
<1>6. Len(r) = n - k /\ \A i \in 1 .. n - k : r[i] = o[k + i]
  BY DEF Splits
<1>7. Continues(r, c + k)
  <2>1. ASSUME NEW i \in 1 .. n - k  PROVE r[i].id = (c + k) + i
    <3>1. k + i \in 1 .. n
      BY <1>1
    <3>2. r[i].id = c + (k + i)
      BY <1>2, <1>6, <3>1
    <3> QED BY <3>2
  <2>2. DOMAIN r = 1 .. n - k
    BY <1>1, <1>6
  <2> QED BY <2>1, <2>2 DEF Continues
<1> QED BY <1>3, <1>5, <1>7, MessagesFacts

(* The front of the queue goes out.                                        *)
LEMMA GoesOut ==
  ASSUME NEW s \in Seq(SentItem), NEW t \in Seq(SentItem), NEW u, u = s \o t,
         Sound(s), Continues(t, Count(s, Len(s)))
  PROVE  /\ u \in Seq(SentItem) /\ Sound(u)
         /\ Count(u, Len(u)) = Count(s, Len(s)) + Len(t)
<1> DEFINE l == Len(s)
           m == Len(t)
           c == Count(s, l)
<1>1. /\ l \in Nat /\ m \in Nat /\ u \in Seq(SentItem) /\ Len(u) = l + m
      /\ DOMAIN u = 1 .. l + m /\ DOMAIN s = 1 .. l /\ DOMAIN t = 1 .. m
      /\ \A i \in 1 .. l : u[i] = s[i]
      /\ \A i \in l + 1 .. l + m : u[i] = t[i - l]
  BY JoinFacts
<1>2. c \in Nat
  BY <1>1, CountType
<1>3. \A i \in 1 .. m : t[i].id = c + i /\ t[i].id # 0
  <2>1. \A i \in 1 .. m : t[i].id = c + i
    BY <1>1 DEF Continues
  <2> HIDE DEF c, m
  <2> QED BY <1>1, <1>2, <2>1
<1>4. /\ \A i \in 0 .. l : Count(u, i) = Count(s, i)
      /\ \A i \in l .. Len(u) : Count(u, i) = c + (i - l)
  <2>1. \A i \in DOMAIN t : t[i].id # 0
    BY <1>1, <1>3
  <2>2. CountsOn(s, u)
    BY <2>1, CountJoined
  <2> QED BY <2>2 DEF CountsOn
<1> HIDE DEF c
<1>5. Count(u, Len(u)) = c + m
  <2>1. Len(u) \in l .. Len(u) /\ Len(u) - l = m
    BY <1>1
  <2> QED BY <1>4, <2>1
<1>6. Sound(u)
  <2> SUFFICES ASSUME NEW i \in 1 .. l + m, u[i].id # 0  PROVE u[i].id = Count(u, i)
    BY <1>1 DEF Sound
  <2>1. CASE i \in 1 .. l
    <3>1. i \in 0 .. l
      BY <1>1, <2>1
    <3> QED BY <1>1, <1>4, <2>1, <3>1 DEF Sound
  <2>2. CASE i \in l + 1 .. l + m
    <3>1. i - l \in 1 .. m /\ i \in l .. Len(u)
      BY <1>1, <2>2
    <3>2. u[i].id = c + (i - l)
      BY <1>1, <1>3, <2>2, <3>1
    <3> QED BY <1>4, <3>1, <3>2
  <2> QED BY <1>1, <2>1, <2>2
<1> QED BY <1>1, <1>5, <1>6 DEF c

LEMMA InterruptedFacts ==
  ASSUME NEW calls \in SUBSET CallIds
  PROVE  Interrupted(calls) \in Seq(SentItem)
         /\ \A i \in DOMAIN Interrupted(calls) : Interrupted(calls)[i].id = 0
<1> DEFINE S == {[what |-> "result", call |-> c, id |-> 0] : c \in calls}
           n == Cardinality(S)
           f == SetToSeq(S)
<1>1. S \subseteq SentItem /\ \A x \in S : x.id = 0
  BY DEF SentItem
<1>2. IsFiniteSet(S)
  <2>1. IsFiniteSet(calls)
    <3>1. IsFiniteSet(CallIds)
      BY BoundsAssumption, FS_Interval DEF CallIds
    <3> QED BY <3>1, FS_Subset
  <2> DEFINE g == [c \in calls |-> [what |-> "result", call |-> c, id |-> 0]]
  <2>2. g \in Surjection(calls, S)
    BY DEF Surjection
  <2> HIDE DEF g, S
  <2> QED BY <2>1, <2>2, FS_Surjection
<1> HIDE DEF S
<1>3. n \in Nat /\ \E g \in [1 .. n -> S] : IsInjective(g)
  BY <1>2, FS_CardinalityType DEF ExistsBijection, Bijection, Injection
<1>4. f \in [1 .. n -> S]
  BY <1>3 DEF SetToSeq
<1> HIDE DEF n
<1>5. f = Interrupted(calls)
  BY DEF Interrupted, S
<1> HIDE DEF f
<1>6. f \in Seq(SentItem) /\ DOMAIN f = 1 .. n /\ \A i \in 1 .. n : f[i].id = 0
  BY <1>1, <1>3, <1>4
<1> QED BY <1>5, <1>6

LEMMA OutStep ==
  ASSUME TInv,
         \/ sent' = sent
         \/ \E calls \in SUBSET CallIds : sent' = sent \o Interrupted(calls),
         out' \in Seq(OutItem), Continues(out', Count(sent, Len(sent))),
         called' \subseteq CallIds, ongoing' \subseteq CallIds
  PROVE  TInv'
<1>1. PICK s, u : s = sent /\ u = sent'
  OBVIOUS
<1>2. s \in Seq(SentItem) /\ Sound(s)
  BY <1>1 DEF TInv, ToolTypes
<1>3. u \in Seq(SentItem) /\ Sound(u) /\ Count(u, Len(u)) = Count(s, Len(s))
  <2>1. CASE sent' = sent
    BY <1>1, <1>2, <2>1
  <2>2. ASSUME NEW calls \in SUBSET CallIds, sent' = sent \o Interrupted(calls)
        PROVE  u \in Seq(SentItem) /\ Sound(u) /\ Count(u, Len(u)) = Count(s, Len(s))
    <3>1. PICK t : t = Interrupted(calls)
      OBVIOUS
    <3>2. t \in Seq(SentItem) /\ (\A i \in DOMAIN t : t[i].id = 0) /\ u = s \o t
      BY <1>1, <2>2, <3>1, InterruptedFacts
    <3> QED BY <1>2, <3>2, GoesPast
  <2> QED BY <2>1, <2>2
<1>4. PICK c : c = Count(s, Len(s))
  OBVIOUS
<1>5. Continues(out', c) /\ c = Count(u, Len(u))
  BY <1>1, <1>3, <1>4
<1>6. Continues(out, Count(sent, Len(sent)))'
  BY <1>1, <1>5 DEF Continues
<1>7. Sound(sent)' /\ ToolTypes'
  BY <1>1, <1>3 DEF Sound, ToolTypes
<1> QED BY <1>6, <1>7 DEF TInv

LEMMA ReleasedFacts ==
  ASSUME TInv, NEW t
  PROVE  /\ Released(t) \in Seq(OutItem) /\ Len(Released(t)) = Len(out)
         /\ Continues(Released(t), Count(sent, Len(sent)))
<1> DEFINE n == Len(out)
           w == Released(t)
           c == Count(sent, Len(sent))
<1>1. n \in Nat /\ DOMAIN out = 1 .. n /\ \A i \in 1 .. n : out[i] \in OutItem
  BY DEF TInv, ToolTypes
<1>2. \A i \in 1 .. n : out[i].id = c + i
  BY <1>1 DEF TInv, Continues
<1>3. ASSUME NEW i \in 1 .. n
      PROVE  /\ [out[i] EXCEPT !.released = @ \/ out[i].call = t] \in OutItem
             /\ [out[i] EXCEPT !.released = @ \/ out[i].call = t].id = out[i].id
  <2>1. PICK b \in BOOLEAN : b = (out[i].released \/ out[i].call = t)
    OBVIOUS
  <2>2. out[i] \in OutItem
    BY <1>1
  <2>3. [out[i] EXCEPT !.released = b] \in OutItem /\ [out[i] EXCEPT !.released = b].id = out[i].id
    BY <2>2 DEF OutItem
  <2> QED BY <2>1, <2>3
<1>4. w = [i \in 1 .. n |-> [out[i] EXCEPT !.released = @ \/ out[i].call = t]]
  BY <1>1 DEF Released
<1>5. \A i \in 1 .. n : w[i] \in OutItem /\ w[i].id = c + i
  BY <1>2, <1>3, <1>4
<1>6. w \in [1 .. n -> OutItem]
  BY <1>4, <1>5
<1> HIDE DEF w, c
<1>7. w \in Seq(OutItem) /\ Len(w) = n /\ DOMAIN w = 1 .. n
  BY <1>1, <1>6
<1> QED BY <1>5, <1>7 DEF Continues, w, c

(* One more at the end of what waits.                                      *)
LEMMA AppendItem ==
  ASSUME TInv, NEW o \in Seq(OutItem), Len(o) = Len(out),
         Continues(o, Count(sent, Len(sent))),
         NEW what \in {"use", "result"}, NEW t \in CallIds, NEW released \in BOOLEAN
  PROVE  /\ Append(o, Item(what, t, released)) \in Seq(OutItem)
         /\ Continues(Append(o, Item(what, t, released)), Count(sent, Len(sent)))
<1> DEFINE n == Len(o)
           c == Count(sent, Len(sent))
           x == Item(what, t, released)
           w == Append(o, x)
<1>1. n \in Nat /\ c \in Nat
  <2>1. Len(sent) \in Nat
    BY DEF TInv, ToolTypes
  <2>2. c \in Nat
    BY <2>1, CountType
  <2> QED BY <2>2
<1>2. x = [what |-> what, call |-> t, released |-> released, id |-> n + c + 1]
  BY DEF Item, Ordered, Count
<1> HIDE DEF c, x
<1>3. x \in OutItem /\ x.id = c + (n + 1)
  BY <1>1, <1>2 DEF OutItem
<1>4. w \in Seq(OutItem) /\ DOMAIN w = 1 .. n + 1 /\ w[n + 1] = x /\ \A i \in 1 .. n : w[i] = o[i]
  BY <1>3
<1>5. \A i \in 1 .. n : o[i].id = c + i
  BY DEF Continues, c
<1> HIDE DEF w
<1>6. ASSUME NEW i \in 1 .. n + 1  PROVE w[i].id = c + i
  <2>1. CASE i \in 1 .. n
    BY <1>4, <1>5, <2>1
  <2>2. CASE i = n + 1
    BY <1>3, <1>4, <2>2
  <2> QED BY <1>1, <2>1, <2>2
<1>7. Continues(w, c)
  BY <1>4, <1>6 DEF Continues
<1> QED BY <1>4, <1>7 DEF w, c, x

LEMMA TInvStays ==
  ASSUME TInv, UNCHANGED <<called, ongoing, out, sent>>
  PROVE  TInv'
  BY DEF TInv, ToolTypes, Sound, Continues

LEMMA LauncherOutput ==
  ASSUME TInv, LaunchEnds \/ LaunchCleanedUp
  PROVE  TInv'
<1>1. /\ out \in Seq(OutItem) /\ Continues(out, Count(sent, Len(sent)))
      /\ called \subseteq CallIds /\ ongoing \subseteq CallIds
  BY DEF TInv, ToolTypes
<1>2. CASE LaunchEnds
  <2>1. /\ sent' = sent \o Interrupted(ongoing) /\ ongoing' = {}
        /\ UNCHANGED <<called, out>>
    BY <1>2 DEF LaunchEnds, Interrupts
  <2> QED BY <1>1, <2>1, OutStep DEF Continues
<1>3. CASE LaunchCleanedUp
  <2>1. /\ out' = <<>> /\ sent' = sent \o Messages(out)
        /\ UNCHANGED <<called, ongoing>>
    BY <1>3 DEF LaunchCleanedUp, Flushed
  <2>2. PICK s, o, t, u : s = sent /\ o = out /\ t = Messages(out) /\ u = sent'
    OBVIOUS
  <2>3. /\ s \in Seq(SentItem) /\ Sound(s) /\ u = s \o t
        /\ o \in Seq(OutItem) /\ Continues(o, Count(s, Len(s))) /\ t = Messages(o)
    BY <1>1, <2>1, <2>2 DEF TInv, ToolTypes
  <2>4. t \in Seq(SentItem) /\ Continues(t, Count(s, Len(s)))
    <3>1. /\ t \in Seq(SentItem) /\ DOMAIN t = 1 .. Len(o) /\ DOMAIN o = 1 .. Len(o)
          /\ \A i \in 1 .. Len(o) : t[i].id = o[i].id
      BY <2>3, MessagesFacts
    <3> QED BY <2>3, <3>1 DEF Continues
  <2>5. u \in Seq(SentItem) /\ Sound(u)
    BY <2>3, <2>4, GoesOut
  <2>6. ToolTypes' /\ Sound(sent)'
    BY <1>1, <2>1, <2>2, <2>5, EmptySeq DEF ToolTypes, Sound
  <2>7. Continues(out, Count(sent, Len(sent)))'
    BY <2>1 DEF Continues
  <2> QED BY <2>6, <2>7 DEF TInv
<1> QED BY <1>2, <1>3

LEMMA ToolOutput ==
  ASSUME TInv, NEW t \in CallIds,
         ToolUse(t) \/ AskPermission(t) \/ ToolResult(t) \/ DelayEnds(t)
  PROVE  TInv'
<1>1. /\ out \in Seq(OutItem) /\ Continues(out, Count(sent, Len(sent)))
      /\ called \subseteq CallIds /\ ongoing \subseteq CallIds
  BY DEF TInv, ToolTypes
<1>2. /\ Released(t) \in Seq(OutItem) /\ Len(Released(t)) = Len(out)
      /\ Continues(Released(t), Count(sent, Len(sent)))
  BY ReleasedFacts
<1>3. CASE ToolUse(t)
  <2>1. /\ called' = called \union {t} /\ ongoing' = ongoing \union {t}
        /\ out' = Append(out, Item("use", t, FALSE)) /\ sent' = sent
    BY <1>3 DEF ToolUse
  <2>2. /\ Append(out, Item("use", t, FALSE)) \in Seq(OutItem)
        /\ Continues(Append(out, Item("use", t, FALSE)), Count(sent, Len(sent)))
    BY <1>1, AppendItem
  <2> QED BY <1>1, <2>1, <2>2, OutStep DEF Continues
<1>4. CASE AskPermission(t) \/ DelayEnds(t)
  <2>1. out' = Released(t) /\ UNCHANGED <<called, ongoing, sent>>
    BY <1>4 DEF AskPermission, DelayEnds
  <2> QED BY <1>1, <1>2, <2>1, OutStep DEF Continues
<1>5. CASE ToolResult(t)
  <2>1. /\ out' = Append(Released(t), Item("result", t, TRUE))
        /\ called' = called /\ ongoing' \subseteq ongoing
        /\ sent' = sent \/ sent' = sent \o Interrupted(ongoing \ {t})
    BY <1>5 DEF ToolResult
  <2>2. /\ Append(Released(t), Item("result", t, TRUE)) \in Seq(OutItem)
        /\ Continues(Append(Released(t), Item("result", t, TRUE)), Count(sent, Len(sent)))
    BY <1>1, <1>2, AppendItem
  <2>3. \/ sent' = sent
        \/ \E calls \in SUBSET CallIds : sent' = sent \o Interrupted(calls)
    BY <1>1, <2>1
  <2> QED BY <1>1, <2>1, <2>2, <2>3, OutStep DEF Continues
<1> QED BY <1>3, <1>4, <1>5

LEMMA ProcessedOutput ==
  ASSUME TInv, ProcessOut
  PROVE  TInv'
<1>1. PICK k \in DOMAIN out : /\ sent' = sent \o Messages(SubSeq(out, 1, k))
                              /\ out' = SubSeq(out, k + 1, Len(out))
  BY DEF ProcessOut
<1>2. UNCHANGED <<called, ongoing>>
  BY DEF ProcessOut
<1>3. PICK s, o, f, r, t, u :
          /\ s = sent /\ o = out /\ f = SubSeq(out, 1, k) /\ r = SubSeq(out, k + 1, Len(out))
          /\ t = Messages(f) /\ u = s \o t
  OBVIOUS
<1>4. /\ s \in Seq(SentItem) /\ Sound(s) /\ o \in Seq(OutItem)
      /\ Continues(o, Count(s, Len(s))) /\ k \in 0 .. Len(o)
  BY <1>3 DEF TInv, ToolTypes
<1>5. f \in Seq(OutItem) /\ r \in Seq(OutItem) /\ Splits(o, k, f, r)
  BY <1>3, <1>4, FrontFacts
<1>6. PICK c \in Nat : c = Count(s, Len(s))
  <2>1. Len(s) \in Nat
    BY <1>4
  <2> QED BY <2>1, CountType
<1>7. /\ t \in Seq(SentItem) /\ Len(t) = k
      /\ Continues(t, c) /\ Continues(r, c + k)
  <2>1. t = Messages(f)
    BY <1>3
  <2>2. Continues(o, c)
    BY <1>4, <1>6
  <2>3. /\ Messages(f) \in Seq(SentItem) /\ Len(Messages(f)) = k
        /\ Continues(Messages(f), c) /\ Continues(r, c + k)
    BY <1>4, <1>5, <2>2, SplitContinues
  <2> QED BY <2>1, <2>3
<1>8. u \in Seq(SentItem) /\ Sound(u) /\ Count(u, Len(u)) = c + k
  <2>1. u = s \o t
    BY <1>3
  <2>2. Continues(t, Count(s, Len(s)))
    BY <1>6, <1>7
  <2>3. /\ u \in Seq(SentItem) /\ Sound(u)
        /\ Count(u, Len(u)) = Count(s, Len(s)) + Len(t)
    BY <1>4, <1>7, <2>1, <2>2, GoesOut
  <2> QED BY <1>6, <1>7, <2>3
<1>9. sent' = u /\ out' = r
  BY <1>1, <1>3
<1>10. ToolTypes' /\ Sound(sent)'
  BY <1>2, <1>5, <1>8, <1>9 DEF TInv, ToolTypes, Sound
<1>11. Continues(out, Count(sent, Len(sent)))'
  BY <1>7, <1>8, <1>9 DEF Continues
<1> QED BY <1>10, <1>11 DEF TInv

-----------------------------------------------------------------------------
(* The requests' half.                                                     *)

Write == [op : {"add", "remove"}, call : CallIds] \union {Resetting}

RequestTypes ==
    /\ asked \subseteq CallIds /\ pending \subseteq CallIds /\ shown \subseteq CallIds
    /\ denied \subseteq CallIds /\ excused \subseteq CallIds
    /\ writes \in Seq(Write)

RInv == RequestTypes /\ RequestsAreAnswerable

(* WillShow of any updates and requests.                                   *)
Shows(ws, S, t) ==
    \/ t \in S /\ \A i \in DOMAIN ws : ~Concerns(ws[i], t)
    \/ \E i \in DOMAIN ws :
          /\ ws[i] = Adding(t)
          /\ \A j \in DOMAIN ws : j > i => ~Concerns(ws[j], t)

LEMMA WillShowIsShows ==
  ASSUME NEW t
  PROVE  /\ WillShow(t) <=> Shows(writes, shown, t)
         /\ WillShow(t)' <=> Shows(writes', shown', t)
  BY DEF WillShow, Shows

LEMMA WriteFacts ==
  ASSUME NEW t \in CallIds
  PROVE  /\ Adding(t) \in Write /\ Removing(t) \in Write /\ Resetting \in Write
         /\ Removing(t) # Adding(t) /\ Resetting # Adding(t)
         /\ Concerns(Adding(t), t) /\ Concerns(Removing(t), t) /\ Concerns(Resetting, t)
         /\ \A u \in CallIds \ {t} : ~Concerns(Adding(t), u) /\ ~Concerns(Removing(t), u)
  BY DEF Adding, Removing, Resetting, Concerns, Write

LEMMA AppliedFacts ==
  ASSUME NEW w \in Write, NEW S \in SUBSET CallIds, NEW t \in CallIds
  PROVE  /\ Applied(w, S) \subseteq CallIds
         /\ t \in Applied(w, S) <=> w = Adding(t) \/ (t \in S /\ ~Concerns(w, t))
<1>1. CASE w = Resetting
  BY <1>1 DEF Applied, Resetting, Adding, Concerns
<1>2. CASE w \in [op : {"add"}, call : CallIds]
  <2>1. w = [op |-> "add", call |-> w.call] /\ w.call \in CallIds
    BY <1>2
  <2> QED BY <2>1 DEF Applied, Adding, Concerns
<1>3. CASE w \in [op : {"remove"}, call : CallIds]
  <2>1. w = [op |-> "remove", call |-> w.call] /\ w.call \in CallIds
    BY <1>3
  <2> QED BY <2>1 DEF Applied, Adding, Concerns
<1> QED BY <1>1, <1>2, <1>3 DEF Write

(* One more update at the end decides about the request it concerns.       *)
LEMMA OneMoreWrite ==
  ASSUME NEW ws \in Seq(Write), NEW w \in Write, NEW S, NEW t \in CallIds
  PROVE  /\ Append(ws, w) \in Seq(Write)
         /\ Concerns(w, t) => (Shows(Append(ws, w), S, t) <=> w = Adding(t))
         /\ ~Concerns(w, t) => (Shows(Append(ws, w), S, t) <=> Shows(ws, S, t))
<1> DEFINE n == Len(ws)
           u == Append(ws, w)
<1>1. /\ n \in Nat /\ DOMAIN ws = 1 .. n /\ u \in Seq(Write) /\ DOMAIN u = 1 .. n + 1
      /\ u[n + 1] = w /\ \A i \in 1 .. n : u[i] = ws[i]
  OBVIOUS
<1>2. Concerns(Adding(t), t)
  BY WriteFacts
<1> HIDE DEF u, n
<1>3. ASSUME Concerns(w, t)  PROVE Shows(u, S, t) <=> w = Adding(t)
  <2>1. n + 1 \in 1 .. n + 1 /\ \A i \in 1 .. n : n + 1 > i
    BY <1>1
  <2>2. ASSUME Shows(u, S, t)  PROVE w = Adding(t)
    <3>1. PICK i \in 1 .. n + 1 : /\ u[i] = Adding(t)
                                  /\ \A j \in 1 .. n + 1 : j > i => ~Concerns(u[j], t)
      BY <1>1, <1>3, <2>1, <2>2 DEF Shows
    <3>2. i = n + 1
      BY <1>1, <1>3, <2>1, <3>1
    <3> QED BY <1>1, <3>1, <3>2
  <2>3. ASSUME w = Adding(t)  PROVE Shows(u, S, t)
    <3>1. u[n + 1] = Adding(t) /\ \A j \in 1 .. n + 1 : ~(j > n + 1)
      BY <1>1, <2>3
    <3> QED BY <1>1, <2>1, <3>1 DEF Shows
  <2> QED BY <2>2, <2>3
<1>4. ASSUME ~Concerns(w, t)  PROVE Shows(u, S, t) <=> Shows(ws, S, t)
  <2>1. \A i \in 1 .. n + 1 : i \in 1 .. n \/ i = n + 1
    BY <1>1
  <2>2. \A i \in 1 .. n : i \in 1 .. n + 1
    BY <1>1
  <2>3. ASSUME Shows(u, S, t)  PROVE Shows(ws, S, t)
    <3>1. CASE t \in S /\ \A i \in 1 .. n + 1 : ~Concerns(u[i], t)
      BY <1>1, <2>2, <3>1 DEF Shows
    <3>2. ASSUME NEW i \in 1 .. n + 1, u[i] = Adding(t),
                 \A j \in 1 .. n + 1 : j > i => ~Concerns(u[j], t)
          PROVE  Shows(ws, S, t)
      <4>1. i \in 1 .. n
        BY <1>1, <1>2, <1>4, <2>1, <3>2
      <4>2. ws[i] = Adding(t) /\ \A j \in 1 .. n : j > i => ~Concerns(ws[j], t)
        BY <1>1, <2>2, <3>2, <4>1
      <4> QED BY <1>1, <4>1, <4>2 DEF Shows
    <3> QED BY <1>1, <2>3, <3>1, <3>2 DEF Shows
  <2>4. ASSUME Shows(ws, S, t)  PROVE Shows(u, S, t)
    <3>1. CASE t \in S /\ \A i \in 1 .. n : ~Concerns(ws[i], t)
      <4>1. \A i \in 1 .. n + 1 : ~Concerns(u[i], t)
        BY <1>1, <1>4, <2>1, <3>1
      <4> QED BY <1>1, <3>1, <4>1 DEF Shows
    <3>2. ASSUME NEW i \in 1 .. n, ws[i] = Adding(t),
                 \A j \in 1 .. n : j > i => ~Concerns(ws[j], t)
          PROVE  Shows(u, S, t)
      <4>1. \A j \in 1 .. n + 1 : j > i => ~Concerns(u[j], t)
        BY <1>1, <1>4, <2>1, <3>2
      <4> QED BY <1>1, <2>2, <3>2, <4>1 DEF Shows
    <3> QED BY <1>1, <2>4, <3>1, <3>2 DEF Shows
  <2> QED BY <2>3, <2>4
<1> QED BY <1>1, <1>3, <1>4 DEF u

(* The first update is through: what will be shown stays as it was.        *)
LEMMA FirstWriteDone ==
  ASSUME NEW ws \in Seq(Write), ws # <<>>, NEW S \in SUBSET CallIds, NEW R, NEW t \in CallIds,
         t \in R <=> t \in Applied(Head(ws), S)
  PROVE  Shows(Tail(ws), R, t) <=> Shows(ws, S, t)
<1> DEFINE n == Len(ws)
           r == Tail(ws)
<1>1. /\ n \in Nat /\ n >= 1 /\ DOMAIN ws = 1 .. n /\ Head(ws) = ws[1] /\ ws[1] \in Write
      /\ DOMAIN r = 1 .. n - 1 /\ \A i \in 1 .. n - 1 : r[i] = ws[i + 1]
  OBVIOUS
<1> HIDE DEF n, r
<1>2. t \in R <=> ws[1] = Adding(t) \/ (t \in S /\ ~Concerns(ws[1], t))
  BY <1>1, AppliedFacts
<1>3. 1 \in 1 .. n /\ \A i \in 1 .. n : i = 1 \/ (i - 1 \in 1 .. n - 1 /\ (i - 1) + 1 = i /\ i > 1)
  BY <1>1
<1>4. \A i \in 1 .. n - 1 : i + 1 \in 1 .. n /\ i + 1 > 1
  BY <1>1
<1>5. ASSUME Shows(ws, S, t)  PROVE Shows(r, R, t)
  <2>1. CASE t \in S /\ \A i \in 1 .. n : ~Concerns(ws[i], t)
    <3>1. t \in R /\ \A i \in 1 .. n - 1 : ~Concerns(r[i], t)
      BY <1>1, <1>2, <1>3, <1>4, <2>1
    <3> QED BY <1>1, <3>1 DEF Shows
  <2>2. ASSUME NEW i \in 1 .. n, ws[i] = Adding(t),
               \A j \in 1 .. n : j > i => ~Concerns(ws[j], t)
        PROVE  Shows(r, R, t)
    <3>1. CASE i = 1
      <4>1. t \in R /\ \A j \in 1 .. n - 1 : ~Concerns(r[j], t)
        BY <1>1, <1>2, <1>4, <2>2, <3>1
      <4> QED BY <1>1, <4>1 DEF Shows
    <3>2. CASE i # 1
      <4>1. i - 1 \in 1 .. n - 1 /\ r[i - 1] = Adding(t)
        BY <1>1, <1>3, <2>2, <3>2
      <4>2. ASSUME NEW j \in 1 .. n - 1, j > i - 1  PROVE ~Concerns(r[j], t)
        <5>1. j + 1 \in 1 .. n /\ j + 1 > i
          BY <1>1, <1>4, <4>2
        <5> QED BY <1>1, <2>2, <5>1
      <4> QED BY <1>1, <4>1, <4>2 DEF Shows
    <3> QED BY <3>1, <3>2
  <2> QED BY <1>1, <1>5, <2>1, <2>2 DEF Shows
<1>6. ASSUME Shows(r, R, t)  PROVE Shows(ws, S, t)
  <2>1. CASE t \in R /\ \A i \in 1 .. n - 1 : ~Concerns(r[i], t)
    <3>1. ASSUME NEW i \in 1 .. n, i > 1  PROVE ~Concerns(ws[i], t)
      <4>1. i - 1 \in 1 .. n - 1 /\ r[i - 1] = ws[i]
        BY <1>1, <1>3, <3>1
      <4> QED BY <2>1, <4>1
    <3>2. CASE ws[1] = Adding(t)
      BY <1>1, <1>3, <3>1, <3>2 DEF Shows
    <3>3. CASE t \in S /\ ~Concerns(ws[1], t)
      <4>1. \A i \in 1 .. n : ~Concerns(ws[i], t)
        BY <1>3, <3>1, <3>3
      <4> QED BY <1>1, <3>3, <4>1 DEF Shows
    <3> QED BY <1>2, <2>1, <3>2, <3>3
  <2>2. ASSUME NEW i \in 1 .. n - 1, r[i] = Adding(t),
               \A j \in 1 .. n - 1 : j > i => ~Concerns(r[j], t)
        PROVE  Shows(ws, S, t)
    <3>1. i + 1 \in 1 .. n /\ ws[i + 1] = Adding(t)
      BY <1>1, <1>4, <2>2
    <3>2. ASSUME NEW j \in 1 .. n, j > i + 1  PROVE ~Concerns(ws[j], t)
      <4>1. j - 1 \in 1 .. n - 1 /\ j - 1 > i /\ (j - 1) + 1 = j
        BY <1>1, <1>3, <3>2
      <4> QED BY <1>1, <2>2, <4>1
    <3> QED BY <1>1, <3>1, <3>2 DEF Shows
  <2> QED BY <1>1, <1>6, <2>1, <2>2 DEF Shows
<1> QED BY <1>5, <1>6 DEF r

LEMMA NothingIsShown ==
  ASSUME NEW ws \in Seq(Write), NEW S, NEW t \in CallIds,
         \/ S = {} /\ \A i \in DOMAIN ws : ws[i].op # "add"
         \/ ws # <<>> /\ Last(ws) = Resetting
  PROVE  ~Shows(ws, S, t)
<1>1. CASE S = {} /\ \A i \in DOMAIN ws : ws[i].op # "add"
  BY <1>1 DEF Shows, Adding
<1>2. CASE ws # <<>> /\ Last(ws) = Resetting
  <2> DEFINE n == Len(ws)
  <2>1. /\ n \in Nat /\ n >= 1 /\ DOMAIN ws = 1 .. n /\ ws[n] = Resetting
    BY <1>2 DEF Last
  <2> HIDE DEF n
  <2>2. n \in 1 .. n /\ Concerns(ws[n], t) /\ ws[n] # Adding(t)
    BY <2>1, WriteFacts
  <2>3. \A i \in 1 .. n : i = n \/ n > i
    BY <2>1
  <2> QED BY <2>1, <2>2, <2>3 DEF Shows
<1> QED BY <1>1, <1>2

(* Steps that leave the requests alone, and do not save a launch from its  *)
(* end.                                                                    *)
LEMMA RInvStays ==
  ASSUME RInv, UNCHANGED requestVars,
         loop = "remote" /\ phase \in {"ending", "leaving"}
            => loop' = "remote" /\ phase' \in {"ending", "leaving"}
  PROVE  RInv'
<1>1. UNCHANGED <<asked, pending, shown, writes, denied, excused>>
  BY DEF requestVars
<1>2. RequestTypes'
  BY <1>1 DEF RInv, RequestTypes
<1>3. \A t \in CallIds : (WillShow(t)' <=> WillShow(t))
  BY <1>1, WillShowIsShows
<1> QED BY <1>1, <1>2, <1>3 DEF RInv, RequestsAreAnswerable, CallIds

LEMMA QuietSteps ==
  ASSUME PInv, RInv,
         \/ \E mode \in Modes, kind \in Kinds : Push(mode, kind)
         \/ LocalStarts \/ LocalSwitch \/ LocalAbort \/ LocalEnds \/ LaunchEnds \/ TurnEnds
         \/ \E t \in CallIds : ToolUse(t) \/ ToolResult(t) \/ DelayEnds(t)
         \/ ProcessOut
  PROVE  RInv'
<1>1. UNCHANGED requestVars
  BY DEF Push, LocalStarts, LocalSwitch, LocalAbort, LocalEnds, LaunchEnds, TurnEnds, ToolUse,
         ToolResult, DelayEnds, ProcessOut, toolVars
<1>2. ASSUME loop = "remote", phase \in {"ending", "leaving"}
      PROVE  loop' = "remote" /\ phase' \in {"ending", "leaving"}
  <2>1. CASE \E mode \in Modes, kind \in Kinds : Push(mode, kind)
    <3>1. ~(waiting /\ phase # "leaving")
      BY <1>2 DEF PInv, WaitingPhases
    <3>2. phase' = phase /\ loop' = loop
      BY <1>2, <2>1, <3>1 DEF Push
    <3> QED BY <1>2, <3>2
  <2>2. CASE LocalStarts \/ LocalSwitch \/ LocalAbort \/ LocalEnds \/ TurnEnds
    BY <1>2, <2>2 DEF LocalStarts, LocalSwitch, LocalAbort, LocalEnds, TurnEnds
  <2>3. CASE LaunchEnds
    BY <1>2, <2>3 DEF LaunchEnds
  <2>4. CASE \E t \in CallIds : ToolUse(t) \/ ToolResult(t) \/ DelayEnds(t)
    BY <1>2, <2>4 DEF ToolUse, ToolResult, DelayEnds, InTurn
  <2>5. CASE ProcessOut
    BY <1>2, <2>5 DEF ProcessOut
  <2> QED BY <2>1, <2>2, <2>3, <2>4, <2>5
<1> QED BY <1>1, <1>2, RInvStays

LEMMA ResetStep ==
  ASSUME RInv, ResetRequests
  PROVE  RInv'
<1>1. /\ pending' = {} /\ denied' = {} /\ UNCHANGED <<asked, shown, excused>>
      /\ writes' = IF NothingToReset THEN writes ELSE Append(writes, Resetting)
  BY DEF ResetRequests
<1>2. writes \in Seq(Write) /\ Resetting \in Write
  BY DEF RInv, RequestTypes, Write
<1>3. ASSUME NEW t \in CallIds  PROVE writes' \in Seq(Write) /\ ~WillShow(t)'
  <2>1. CASE NothingToReset
    <3>1. ~Shows(writes, shown, t)
      BY <1>2, <2>1, NothingIsShown DEF NothingToReset
    <3> QED BY <1>1, <1>2, <2>1, <3>1, WillShowIsShows
  <2>2. CASE ~NothingToReset
    <3>1. /\ Append(writes, Resetting) \in Seq(Write)
          /\ ~Shows(Append(writes, Resetting), shown, t)
      BY <1>2, OneMoreWrite, WriteFacts
    <3> QED BY <1>1, <2>2, <3>1, WillShowIsShows
  <2> QED BY <2>1, <2>2
<1>4. writes' \in Seq(Write)
  BY <1>1, <1>2
<1>5. RequestTypes'
  BY <1>1, <1>4 DEF RInv, RequestTypes
<1> QED BY <1>1, <1>3, <1>5 DEF RInv, RequestsAreAnswerable, CallIds

LEMMA LauncherRequests ==
  ASSUME RInv,
         \/ LocalReturns \/ LaunchCleanedUp
         \/ \E reason \in {"none", "switch", "exit"} : RemoteAbort(reason)
  PROVE  RInv'
<1>1. CASE LocalReturns
  <2>1. CASE exitReason = "exit"
    BY <1>1, <2>1, RInvStays DEF LocalReturns, toolVars
  <2>2. CASE exitReason # "exit"
    BY <1>1, <2>2, ResetStep DEF LocalReturns
  <2> QED BY <2>1, <2>2
<1>2. CASE LaunchCleanedUp
  BY <1>2, ResetStep DEF LaunchCleanedUp
<1>3. ASSUME NEW reason \in {"none", "switch", "exit"}, RemoteAbort(reason)  PROVE RInv'
  <2>1. /\ loop' = "remote" /\ phase' \in {"leaving", "ending"} /\ pending' = {}
        /\ UNCHANGED <<asked, shown, writes, denied, excused>>
    BY <1>3 DEF RemoteAbort
  <2>2. RequestTypes'
    BY <2>1 DEF RInv, RequestTypes
  <2> QED BY <2>1, <2>2 DEF RInv, RequestsAreAnswerable
<1> QED BY <1>1, <1>2, <1>3

LEMMA RequestSteps ==
  ASSUME RInv, NEW t \in CallIds,
         \/ AskPermission(t) \/ AbortRequest(t)
         \/ \E approved \in BOOLEAN : AnswerPermission(t, approved)
  PROVE  RInv'
<1>1. /\ writes \in Seq(Write) /\ asked \subseteq CallIds /\ pending \subseteq CallIds
      /\ shown \subseteq CallIds /\ denied \subseteq CallIds /\ excused \subseteq CallIds
  BY DEF RInv, RequestTypes
<1>2. \A u \in CallIds \ excused :
         /\ u \in pending => WillShow(u)
         /\ WillShow(u) => u \in pending \/ (loop = "remote" /\ phase \in {"ending", "leaving"})
  BY DEF RInv, RequestsAreAnswerable, CallIds
<1>3. CASE AskPermission(t)
  <2>1. /\ asked' = asked \union {t} /\ pending' = pending \union {t}
        /\ writes' = Append(writes, Adding(t)) /\ UNCHANGED <<shown, denied, excused>>
        /\ phase = "turn" /\ UNCHANGED <<loop, phase>>
    BY <1>3 DEF AskPermission, InTurn
  <2>2. /\ writes' \in Seq(Write) /\ WillShow(t)'
        /\ \A u \in CallIds \ {t} : (WillShow(u)' <=> WillShow(u))
    <3>1. Adding(t) \in Write /\ Concerns(Adding(t), t)
          /\ \A u \in CallIds \ {t} : ~Concerns(Adding(t), u)
      BY WriteFacts
    <3>2. PICK w : w = Append(writes, Adding(t))
      OBVIOUS
    <3>3. w \in Seq(Write) /\ Shows(w, shown, t)
      BY <1>1, <3>1, <3>2, OneMoreWrite
    <3>4. \A u \in CallIds \ {t} : Shows(w, shown, u) <=> Shows(writes, shown, u)
      BY <1>1, <3>1, <3>2, OneMoreWrite
    <3>5. writes' = w /\ shown' = shown
      BY <2>1, <3>2
    <3> QED BY <3>3, <3>4, <3>5, WillShowIsShows
  <2>3. RequestTypes'
    BY <1>1, <2>1, <2>2 DEF RequestTypes
  <2> QED BY <1>2, <2>1, <2>2, <2>3 DEF RInv, RequestsAreAnswerable, CallIds
<1>4. CASE AbortRequest(t)
  <2>1. /\ pending' = pending \ {t} /\ excused' = excused \union {t}
        /\ UNCHANGED <<asked, shown, writes, denied, loop, phase>>
    BY <1>4 DEF AbortRequest
  <2>2. \A u \in CallIds : (WillShow(u)' <=> WillShow(u))
    BY <2>1, WillShowIsShows
  <2>3. RequestTypes'
    BY <1>1, <2>1 DEF RequestTypes
  <2> QED BY <1>2, <2>1, <2>2, <2>3 DEF RInv, RequestsAreAnswerable, CallIds
<1>5. ASSUME NEW approved \in BOOLEAN, AnswerPermission(t, approved)  PROVE RInv'
  <2>1. /\ pending' = pending \ {t} /\ writes' = Append(writes, Removing(t))
        /\ denied' \subseteq denied \union {t}
        /\ UNCHANGED <<asked, shown, excused, loop, phase>>
    BY <1>5 DEF AnswerPermission
  <2>2. /\ writes' \in Seq(Write) /\ ~WillShow(t)'
        /\ \A u \in CallIds \ {t} : (WillShow(u)' <=> WillShow(u))
    <3>1. Removing(t) \in Write /\ Concerns(Removing(t), t) /\ Removing(t) # Adding(t)
          /\ \A u \in CallIds \ {t} : ~Concerns(Removing(t), u)
      BY WriteFacts
    <3>2. PICK w : w = Append(writes, Removing(t))
      OBVIOUS
    <3>3. w \in Seq(Write) /\ ~Shows(w, shown, t)
      BY <1>1, <3>1, <3>2, OneMoreWrite
    <3>4. \A u \in CallIds \ {t} : Shows(w, shown, u) <=> Shows(writes, shown, u)
      BY <1>1, <3>1, <3>2, OneMoreWrite
    <3>5. writes' = w /\ shown' = shown
      BY <2>1, <3>2
    <3> QED BY <3>3, <3>4, <3>5, WillShowIsShows
  <2>3. RequestTypes'
    BY <1>1, <2>1, <2>2 DEF RequestTypes
  <2> QED BY <1>2, <2>1, <2>2, <2>3 DEF RInv, RequestsAreAnswerable, CallIds
<1> QED BY <1>3, <1>4, <1>5

LEMMA WriteSteps ==
  ASSUME RInv, WriteDone \/ WriteIgnored
  PROVE  RInv'
<1>1. /\ writes \in Seq(Write) /\ writes # <<>> /\ writes' = Tail(writes)
      /\ UNCHANGED <<asked, pending, denied, loop, phase>>
  BY DEF WriteDone, WriteIgnored, RInv, RequestTypes
<1>2. PICK after : after = Applied(Head(writes), shown)
  OBVIOUS
<1>3. Head(writes) \in Write /\ writes' \in Seq(Write) /\ shown \in SUBSET CallIds
  BY <1>1 DEF RInv, RequestTypes
<1>4. after \subseteq CallIds
  <2>1. \A t \in CallIds : after \subseteq CallIds
    BY <1>2, <1>3, AppliedFacts
  <2>2. CASE CallIds = {}
    BY <1>2, <1>3, <2>2 DEF Applied, Write, Resetting
  <2> QED BY <2>1, <2>2
<1>5. /\ shown' \in {shown, after} /\ excused \subseteq excused'
      /\ excused' \subseteq excused \union after \union shown
      /\ \A t \in CallIds \ excused' : t \in shown' <=> t \in after
  BY <1>2 DEF WriteDone, WriteIgnored
<1>6. RequestTypes'
  BY <1>1, <1>3, <1>4, <1>5 DEF RInv, RequestTypes
<1>7. \A t \in CallIds \ excused' : (WillShow(t)' <=> WillShow(t))
  <2> SUFFICES ASSUME NEW t \in CallIds \ excused'  PROVE (WillShow(t)' <=> WillShow(t))
    OBVIOUS
  <2>1. Shows(Tail(writes), shown', t) <=> Shows(writes, shown, t)
    BY <1>1, <1>2, <1>3, <1>5, FirstWriteDone
  <2>2. Shows(writes', shown', t) <=> Shows(Tail(writes), shown', t)
    BY <1>1
  <2> QED BY <2>1, <2>2, WillShowIsShows
<1> QED BY <1>1, <1>5, <1>6, <1>7 DEF RInv, RequestsAreAnswerable, CallIds

-----------------------------------------------------------------------------
IInv == PInv /\ TInv /\ RInv

LEMMA RunInitIInv == RunInit => IInv
<1> SUFFICES ASSUME RunInit PROVE IInv
  OBVIOUS
<1>1. PromptTypes
  <2>1. /\ queue = <<>> /\ parked = <<>> /\ given = <<>> /\ pushed = 0 /\ exitReason = "none"
        /\ dropped = {} /\ lost = {} /\ modeHash = NoMode /\ query = NoMode
    BY DEF RunInit
  <2>2. /\ loop \in {"local", "remote"} /\ waiting \in BOOLEAN
        /\ waiting => loop = "remote"
        /\ loop = "local" => phase = "entering"
        /\ loop = "remote" => phase = "asking"
    BY DEF RunInit
  <2>3. queue \in Seq(Prompt) /\ parked \in Seq(Prompt) /\ given \in Seq(Given)
    BY <2>1, EmptySeq
  <2>4. pushed \in 0 .. MaxPrompts
    BY <2>1, BoundsAssumption
  <2> QED BY <2>1, <2>2, <2>3, <2>4 DEF PromptTypes
<1>2. PromptsInLine
  BY NobodyAhead DEF RunInit, PromptsInLine
<1>3. WaitingPhases
  BY DEF RunInit, WaitingPhases
<1>4. ToolTypes
  BY EmptySeq DEF RunInit, ToolTypes
<1>5. Sound(sent) /\ Continues(out, Count(sent, Len(sent)))
  BY DEF RunInit, Sound, Continues
<1>6. RInv
  <2>1. /\ asked = {} /\ pending = {} /\ shown = {} /\ denied = {} /\ excused = {}
        /\ writes = <<>>
    BY DEF RunInit
  <2>2. RequestTypes
    BY <2>1, EmptySeq DEF RequestTypes
  <2>3. \A t \in CallIds : ~WillShow(t)
    BY <2>1 DEF WillShow
  <2> QED BY <2>1, <2>2, <2>3 DEF RInv, RequestsAreAnswerable, CallIds
<1> QED BY <1>1, <1>2, <1>3, <1>4, <1>5, <1>6 DEF IInv, PInv, TInv

LEMMA RunInductive == IInv /\ [RunNext]_runVars => IInv'
<1> SUFFICES ASSUME IInv, [RunNext]_runVars PROVE IInv'
  OBVIOUS
<1>1. PInv /\ TInv /\ RInv
  BY DEF IInv
<1>2. ASSUME NEW mode \in Modes, NEW kind \in Kinds, Push(mode, kind)  PROVE IInv'
  <2>1. UNCHANGED <<called, ongoing, out, sent>>
    BY <1>2 DEF Push, toolVars
  <2> QED BY <1>1, <1>2, <2>1, PushStep, TInvStays, QuietSteps DEF IInv
<1>3. CASE LocalStarts \/ LocalSwitch \/ LocalAbort \/ LocalEnds
  <2>1. UNCHANGED <<called, ongoing, out, sent>>
    BY <1>3 DEF LocalStarts, LocalSwitch, LocalAbort, LocalEnds, toolVars
  <2> QED BY <1>1, <1>3, <2>1, LocalSteps, TInvStays, QuietSteps DEF IInv
<1>4. CASE LocalReturns
  <2>1. UNCHANGED <<called, ongoing, out, sent>>
    BY <1>4 DEF LocalReturns, toolVars
  <2> QED BY <1>1, <1>4, <2>1, LocalReturnsStep, TInvStays, LauncherRequests DEF IInv
<1>5. CASE LaunchCleanedUp
  BY <1>1, <1>5, LaunchCleanedUpStep, LauncherOutput, LauncherRequests DEF IInv
<1>6. CASE LaunchEnds
  BY <1>1, <1>6, RemoteSteps, LauncherOutput, QuietSteps DEF IInv
<1>7. CASE TurnEnds
  <2>1. UNCHANGED <<called, ongoing, out, sent>>
    BY <1>7 DEF TurnEnds, toolVars
  <2> QED BY <1>1, <1>7, <2>1, RemoteSteps, TInvStays, QuietSteps DEF IInv
<1>8. ASSUME NEW reason \in {"none", "switch", "exit"}, RemoteAbort(reason)  PROVE IInv'
  <2>1. UNCHANGED <<called, ongoing, out, sent>>
    BY <1>8 DEF RemoteAbort
  <2> QED BY <1>1, <1>8, <2>1, RemoteSteps, TInvStays, LauncherRequests DEF IInv
<1>9. ASSUME NEW t \in CallIds, ToolUse(t) \/ ToolResult(t) \/ DelayEnds(t)  PROVE IInv'
  <2>1. /\ (loop = "remote" /\ phase = "turn") \/ phase' = phase
        /\ phase' \in {phase, "leaving"} /\ UNCHANGED <<loop, exitReason, promptVars>>
    BY <1>9 DEF ToolUse, ToolResult, DelayEnds, InTurn
  <2>2. PInv'
    BY <1>1, <2>1, ToolsKeepPrompts
  <2> QED BY <1>1, <1>9, <2>2, ToolOutput, QuietSteps DEF IInv
<1>10. ASSUME NEW t \in CallIds, AskPermission(t)  PROVE IInv'
  <2>1. UNCHANGED <<loop, phase, exitReason, promptVars>>
    BY <1>10 DEF AskPermission
  <2> QED BY <1>1, <1>10, <2>1, ToolsKeepPrompts, ToolOutput, RequestSteps DEF IInv
<1>11. ASSUME NEW t \in CallIds,
              AbortRequest(t) \/ \E approved \in BOOLEAN : AnswerPermission(t, approved)
       PROVE  IInv'
  <2>1. /\ UNCHANGED <<loop, phase, exitReason, promptVars>>
        /\ UNCHANGED <<called, ongoing, out, sent>>
    BY <1>11 DEF AbortRequest, AnswerPermission
  <2> QED BY <1>1, <1>11, <2>1, ToolsKeepPrompts, TInvStays, RequestSteps DEF IInv
<1>12. CASE ProcessOut
  <2>1. UNCHANGED <<loop, phase, exitReason, promptVars>>
    BY <1>12 DEF ProcessOut
  <2> QED BY <1>1, <1>12, <2>1, ToolsKeepPrompts, ProcessedOutput, QuietSteps DEF IInv
<1>13. CASE WriteDone \/ WriteIgnored
  <2>1. /\ UNCHANGED <<loop, phase, exitReason, promptVars>>
        /\ UNCHANGED <<called, ongoing, out, sent>>
    BY <1>13 DEF WriteDone, WriteIgnored
  <2> QED BY <1>1, <1>13, <2>1, ToolsKeepPrompts, TInvStays, WriteSteps DEF IInv
<1>14. CASE UNCHANGED runVars
  <2>1. /\ UNCHANGED <<loop, phase, exitReason, promptVars>> /\ UNCHANGED requestVars
        /\ UNCHANGED <<called, ongoing, out, sent>>
    BY <1>14 DEF runVars, toolVars
  <2> QED BY <1>1, <2>1, ToolsKeepPrompts, TInvStays, RInvStays DEF IInv
<1> QED BY <1>2, <1>3, <1>4, <1>5, <1>6, <1>7, <1>8, <1>9, <1>10, <1>11, <1>12, <1>13, <1>14
        DEF RunNext, Answers, Results, Delays, CallIds

(* Prompts move in line from the queue over the parked batch to a query,   *)
(* messages from the outgoing queue to the session, and requests through   *)
(* the updates of the agent state to the app, whatever interrupts.         *)
THEOREM RunInvariant == RunSpec => []IInv
  BY RunInitIInv, RunInductive, PTL DEF RunSpec

(* Every variable keeps its type: in particular nobody waits for a prompt  *)
(* outside the remote launcher, or while a batch is parked.                *)
THEOREM RunTypeCorrect == RunSpec => []RunTypeOK
<1>1. IInv => RunTypeOK
  <2> SUFFICES ASSUME IInv PROVE RunTypeOK
    OBVIOUS
  <2> DEFINE prompts == [n : 1 .. MaxPrompts, mode : Modes, kind : Kinds]
             outs == [what : {"use", "result"}, call : 1 .. MaxCalls,
                      released : BOOLEAN, id : Nat \ {0}]
             sents == [what : {"use", "result"}, call : 1 .. MaxCalls, id : Nat]
             updates == [op : {"add", "remove", "reset"}, call : 0 .. MaxCalls]
  <2>1. phase \in CASE loop = "local" -> {"entering", "running", "stopping", "leaving"}
                    [] loop = "remote" -> {"asking", "turn", "idle", "ending", "leaving"}
                    [] loop = "over" -> {"over"}
    BY DEF IInv, PInv, PromptTypes
  <2>2. out \in Seq(outs) /\ sent \in Seq(sents)
    BY DEF IInv, TInv, ToolTypes, OutItem, SentItem, CallIds
  <2>3. queue \in Seq(prompts) /\ parked \in Seq(prompts)
    BY DEF IInv, PInv, PromptTypes, Prompt
  <2>4. UNION {called, ongoing, asked, pending, shown, denied, excused} \subseteq 1 .. MaxCalls
    BY DEF IInv, TInv, ToolTypes, RInv, RequestTypes, CallIds
  <2>5. writes \in Seq(updates)
    <3>1. writes \in Seq(Write)
      BY DEF IInv, RInv, RequestTypes
    <3>2. 0 \in 0 .. MaxCalls /\ CallIds \subseteq 0 .. MaxCalls
      BY BoundsAssumption DEF CallIds
    <3>3. Resetting \in updates
      BY <3>2 DEF Resetting
    <3>4. [op : {"add", "remove"}, call : CallIds] \subseteq updates
      BY <3>2
    <3> HIDE DEF updates
    <3> QED BY <3>1, <3>3, <3>4 DEF Write
  <2>6. /\ loop \in {"local", "remote", "over"} /\ exitReason \in {"none", "switch", "exit"}
        /\ waiting \in BOOLEAN /\ (waiting => loop = "remote" /\ queue = <<>> /\ parked = <<>>)
        /\ modeHash \in Modes \union {NoMode} /\ query \in Modes \union {NoMode}
        /\ pushed \in 0 .. MaxPrompts /\ (dropped \union lost) \subseteq 1 .. pushed
    BY DEF IInv, PInv, PromptTypes
  <2> QED BY <2>1, <2>2, <2>3, <2>4, <2>5, <2>6 DEF RunTypeOK
<1> QED BY <1>1, RunInvariant, PTL

(* Whatever is parked, cleared, aborted, switched or relaunched, Claude    *)
(* gets the prompts in the order of their pushes, and none twice.          *)
THEOREM PromptsComeInOrder == RunSpec => []PromptsInOrder
<1>1. IInv => PromptsInOrder
  BY DEF IInv, PInv, PromptsInLine, InOrder, PromptsInOrder
<1> QED BY <1>1, RunInvariant, PTL

(* What goes through the outgoing queue reaches the session in the order   *)
(* in which it was enqueued, nothing left out and nothing twice, however   *)
(* long items are held back and whenever the queue is flushed.             *)
THEOREM OutputGoesInOrder == RunSpec => []OutputInOrder
<1>1. IInv => OutputInOrder
  BY DEF IInv, TInv, Sound, Count, OutputInOrder, Ordered
<1> QED BY <1>1, RunInvariant, PTL

(* However the updates of the agent state lag behind, once those under way *)
(* are done it shows the requests that are pending, and no other unless the*)
(* launch is about to end; but for those Claude withdrew and those whose   *)
(* update was refused.                                                     *)
THEOREM ShownCanBeAnswered == RunSpec => []RequestsAreAnswerable
<1>1. IInv => RequestsAreAnswerable
  BY DEF IInv, RInv
<1> QED BY <1>1, RunInvariant, PTL
=============================================================================
