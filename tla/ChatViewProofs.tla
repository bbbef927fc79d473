--------------------------- MODULE ChatViewProofs ---------------------------
(***************************************************************************)
(* Lemmas about the operators of ChatView: what the filter of the blocks   *)
(* and the search for a reply return, and what each operator does to the   *)
(* messages and the pending blocks of a view.                              *)
(***************************************************************************)
EXTENDS ChatView, Induction, SequenceTheorems

-----------------------------------------------------------------------------
(* The elements of a list                                                  *)

LEMMA EmptyList ==
    /\ ToSet(<<>>) = {}
    /\ IsInjective(<<>>)
BY DEF ToSet, IsInjective

\* Appending adds one element, a second time only when it is there already.
LEMMA AppendElements ==
    ASSUME NEW B, NEW s \in Seq(B), NEW e \in B
    PROVE  /\ Append(s, e) \in Seq(B)
           /\ ToSet(Append(s, e)) = ToSet(s) \cup {e}
           /\ IsInjective(s) /\ e \notin ToSet(s) => IsInjective(Append(s, e))
<1> DEFINE t == Append(s, e)
<1>1. /\ t \in Seq(B) /\ Len(s) \in Nat
      /\ DOMAIN s = 1..Len(s) /\ DOMAIN t = 1..(Len(s) + 1)
      /\ \A j \in 1..Len(s) : t[j] = s[j]
      /\ t[Len(s) + 1] = e
  OBVIOUS
<1> HIDE DEF t
<1>2. ToSet(t) \subseteq ToSet(s) \cup {e}
  BY <1>1 DEF ToSet
<1>3. ToSet(s) \cup {e} \subseteq ToSet(t)
  <2>1. e \in ToSet(t)
    BY <1>1 DEF ToSet
  <2>2. ASSUME NEW j \in DOMAIN s PROVE s[j] \in ToSet(t)
    <3>1. j \in DOMAIN t /\ t[j] = s[j]
      BY <1>1
    <3> QED BY <3>1 DEF ToSet
  <2> QED BY <2>1, <2>2 DEF ToSet
<1>4. ASSUME IsInjective(s), e \notin ToSet(s) PROVE IsInjective(t)
  <2> SUFFICES ASSUME NEW i \in DOMAIN t, NEW j \in DOMAIN t, t[i] = t[j] PROVE i = j
    BY DEF IsInjective
  <2>1. CASE i \in 1..Len(s) /\ j \in 1..Len(s)
    BY <1>1, <1>4, <2>1 DEF IsInjective
  <2>2. CASE i = Len(s) + 1 \/ j = Len(s) + 1
    BY <1>1, <1>4, <2>2 DEF ToSet
  <2> QED BY <1>1, <2>1, <2>2
<1> QED BY <1>1, <1>2, <1>3, <1>4 DEF t

\* The concatenation of two lists has the elements of both.
LEMMA ConcatElements ==
    ASSUME NEW B, NEW s \in Seq(B), NEW t \in Seq(B)
    PROVE  /\ s \o t \in Seq(B)
           /\ ToSet(s \o t) = ToSet(s) \cup ToSet(t)
           /\ IsInjective(s) /\ IsInjective(t) /\ ToSet(s) \cap ToSet(t) = {}
                 => IsInjective(s \o t)
<1> DEFINE u == s \o t
<1>1. /\ u \in Seq(B) /\ Len(s) \in Nat /\ Len(t) \in Nat
      /\ DOMAIN s = 1..Len(s) /\ DOMAIN t = 1..Len(t)
      /\ DOMAIN u = 1..(Len(s) + Len(t))
      /\ \A j \in 1..Len(s) : u[j] = s[j]
      /\ \A j \in 1..Len(t) : u[Len(s) + j] = t[j]
  BY ConcatProperties
<1> HIDE DEF u
<1>2. \A j \in DOMAIN u : \/ j \in DOMAIN s /\ u[j] = s[j]
                          \/ j - Len(s) \in DOMAIN t /\ u[j] = t[j - Len(s)]
  <2> TAKE j \in DOMAIN u
  <2>1. CASE j <= Len(s)
    BY <1>1, <2>1
  <2>2. CASE j > Len(s)
    <3>1. j - Len(s) \in 1..Len(t) /\ j = Len(s) + (j - Len(s))
      BY <1>1, <2>2
    <3> QED BY <1>1, <3>1
  <2> QED BY <1>1, <2>1, <2>2
<1>3. ToSet(u) \subseteq ToSet(s) \cup ToSet(t)
  BY <1>2 DEF ToSet
<1>4. ToSet(s) \cup ToSet(t) \subseteq ToSet(u)
  <2>1. ASSUME NEW j \in DOMAIN s PROVE s[j] \in ToSet(u)
    <3>1. j \in DOMAIN u /\ u[j] = s[j]
      BY <1>1
    <3> QED BY <3>1 DEF ToSet
  <2>2. ASSUME NEW j \in DOMAIN t PROVE t[j] \in ToSet(u)
    <3>1. Len(s) + j \in DOMAIN u /\ u[Len(s) + j] = t[j]
      BY <1>1
    <3> QED BY <3>1 DEF ToSet
  <2> QED BY <2>1, <2>2 DEF ToSet
<1>5. ASSUME IsInjective(s), IsInjective(t), ToSet(s) \cap ToSet(t) = {}
      PROVE  IsInjective(u)
  <2> SUFFICES ASSUME NEW i \in DOMAIN u, NEW j \in DOMAIN u, u[i] = u[j] PROVE i = j
    BY DEF IsInjective
  <2>1. CASE i \in DOMAIN s /\ j \in DOMAIN s
    BY <1>1, <1>5, <2>1 DEF IsInjective
  <2>2. CASE i \notin DOMAIN s /\ j \notin DOMAIN s
    <3>1. /\ i - Len(s) \in DOMAIN t /\ u[i] = t[i - Len(s)]
          /\ j - Len(s) \in DOMAIN t /\ u[j] = t[j - Len(s)]
      BY <1>2, <2>2
    <3>2. i - Len(s) = j - Len(s)
      BY <1>5, <3>1 DEF IsInjective
    <3> QED BY <1>1, <3>2
  <2>3. CASE i \in DOMAIN s /\ j \notin DOMAIN s
    BY <1>1, <1>2, <1>5, <2>3 DEF ToSet
  <2>4. CASE i \notin DOMAIN s /\ j \in DOMAIN s
    BY <1>1, <1>2, <1>5, <2>4 DEF ToSet
  <2> QED BY <2>1, <2>2, <2>3, <2>4
<1> QED BY <1>1, <1>3, <1>4, <1>5 DEF u

-----------------------------------------------------------------------------
(* The filter                                                              *)

\* One step of the filter: the position i of the list, after what was kept
\* of the positions before.
KeptTo(blocks, S, n, g) ==
    g = [i \in 0..n |->
            IF i = 0 THEN <<>>
            ELSE IF blocks[i] \in S THEN Append(g[i - 1], blocks[i])
            ELSE g[i - 1]]

LEMMA KeptExists ==
    ASSUME NEW blocks, NEW S
    PROVE  \A n \in Nat : \E g : KeptTo(blocks, S, n, g)
<1> DEFINE T == {n \in Nat : \E g : KeptTo(blocks, S, n, g)}
<1>1. 0 \in T
  <2>1. KeptTo(blocks, S, 0, [i \in 0..0 |-> <<>>])
    BY DEF KeptTo
  <2> QED BY <2>1
<1>2. ASSUME NEW n \in Nat, n \in T
      PROVE  n + 1 \in T
  <2>1. PICK g : KeptTo(blocks, S, n, g)
    BY <1>2
  <2> DEFINE last == IF blocks[n + 1] \in S THEN Append(g[n], blocks[n + 1]) ELSE g[n]
             h == [i \in 0..(n + 1) |-> IF i = n + 1 THEN last ELSE g[i]]
  <2>2. \A i \in 0..n : h[i] = g[i]
    OBVIOUS
  <2>3. h[n + 1] = last
    OBVIOUS
  <2>4. ASSUME NEW i \in 0..(n + 1)
        PROVE  h[i] = IF i = 0 THEN <<>>
                      ELSE IF blocks[i] \in S THEN Append(h[i - 1], blocks[i])
                      ELSE h[i - 1]
    <3> HIDE DEF h
    <3>1. CASE i = n + 1
      <4>1. h[i - 1] = g[n] /\ i # 0
        BY <2>2, <3>1
      <4> QED BY <2>3, <3>1, <4>1
    <3>2. CASE i = 0
      BY <2>1, <2>2, <3>2 DEF KeptTo
    <3>3. CASE i \in 1..n
      <4>1. h[i] = g[i] /\ h[i - 1] = g[i - 1] /\ i # 0
        BY <2>2, <3>3
      <4>2. i \in 0..n
        BY <3>3
      <4>3. g[i] = IF i = 0 THEN <<>>
                   ELSE IF blocks[i] \in S THEN Append(g[i - 1], blocks[i])
                   ELSE g[i - 1]
        BY <2>1, <4>2 DEF KeptTo
      <4> QED BY <4>1, <4>3
    <3> QED BY <3>1, <3>2, <3>3
  <2>5. KeptTo(blocks, S, n + 1, h)
    BY <2>4 DEF KeptTo
  <2> QED BY <2>5
<1> QED
  <2> HIDE DEF T
  <2>1. Nat \subseteq T
    BY <1>1, <1>2, SetInduction
  <2> QED BY <2>1 DEF T

LEMMA KeptSteps ==
    ASSUME NEW blocks, NEW S, NEW n \in Nat, NEW g, KeptTo(blocks, S, n, g)
    PROVE  \A i \in Nat : i + 1 <= n =>
               g[i + 1] = IF blocks[i + 1] \in S THEN Append(g[i], blocks[i + 1])
                          ELSE g[i]
<1> TAKE i \in Nat
<1> HAVE i + 1 <= n
<1>1. i + 1 \in 0..n /\ i + 1 # 0 /\ (i + 1) - 1 = i
  OBVIOUS
<1> QED BY <1>1 DEF KeptTo

LEMMA KeptGood ==
    ASSUME NEW B, NEW blocks \in Seq(B), NEW S,
           NEW n \in Nat, n = Len(blocks), NEW g, KeptTo(blocks, S, n, g)
    PROVE  /\ g[n] \in Seq(B)
           /\ ToSet(g[n]) = ToSet(blocks) \cap S
           /\ IsInjective(blocks) => IsInjective(g[n])
<1> DEFINE Good(s, i) == /\ s \in Seq(B)
                         /\ ToSet(s) = {blocks[j] : j \in 1..i} \cap S
                         /\ IsInjective(blocks) => IsInjective(s)
           T == {i \in Nat : i <= n => Good(g[i], i)}
<1>1. n \in Nat /\ DOMAIN blocks = 1..n
  OBVIOUS
<1>2. g[0] = <<>>
  BY DEF KeptTo
<1>3. \A i \in Nat : i + 1 <= n =>
          g[i + 1] = IF blocks[i + 1] \in S THEN Append(g[i], blocks[i + 1]) ELSE g[i]
  BY KeptSteps
<1>4. 0 \in T
  <2>1. Good(g[0], 0)
    BY <1>2, EmptyList
  <2> QED BY <2>1
<1>5. ASSUME NEW i \in Nat, i \in T
      PROVE  i + 1 \in T
  <2> SUFFICES ASSUME i + 1 <= n PROVE Good(g[i + 1], i + 1)
    BY <1>5
  <2>1. Good(g[i], i)
    BY <1>1, <1>5
  <2>2. blocks[i + 1] \in B /\ i + 1 \in DOMAIN blocks
    BY <1>1
  <2>3. g[i + 1] = IF blocks[i + 1] \in S THEN Append(g[i], blocks[i + 1]) ELSE g[i]
    BY <1>3
  <2>4. {blocks[j] : j \in 1..(i + 1)} = {blocks[j] : j \in 1..i} \cup {blocks[i + 1]}
    BY <1>1
  <2>5. CASE blocks[i + 1] \notin S
    BY <2>1, <2>3, <2>4, <2>5
  <2>6. CASE blocks[i + 1] \in S
    <3>1. IsInjective(blocks) => blocks[i + 1] \notin ToSet(g[i])
      BY <1>1, <2>1, <2>2 DEF IsInjective
    <3> QED BY <2>1, <2>2, <2>3, <2>4, <2>6, <3>1, AppendElements
  <2> QED BY <2>5, <2>6
<1>6. Nat \subseteq T
  <2> HIDE DEF T
  <2> QED BY <1>4, <1>5, SetInduction
<1>7. Good(g[n], n)
  <2>1. n \in T
    <3> HIDE DEF T
    <3> QED BY <1>1, <1>6
  <2> QED BY <1>1, <2>1
<1> QED BY <1>1, <1>7 DEF ToSet

\* The filter keeps the type, exactly the blocks of the set, and no block
\* more often than the list has it.
LEMMA AmongProperties ==
    ASSUME NEW B, NEW blocks \in Seq(B), NEW S
    PROVE  /\ Among(blocks, S) \in Seq(B)
           /\ ToSet(Among(blocks, S)) = ToSet(blocks) \cap S
           /\ IsInjective(blocks) => IsInjective(Among(blocks, S))
<1> DEFINE g == CHOOSE g : KeptTo(blocks, S, Len(blocks), g)
<1>1. Len(blocks) \in Nat
  OBVIOUS
<1>2. KeptTo(blocks, S, Len(blocks), g)
  BY <1>1, KeptExists
<1>3. Among(blocks, S) = g[Len(blocks)]
  BY DEF Among, KeptTo
<1> HIDE DEF g
<1>4. /\ g[Len(blocks)] \in Seq(B)
      /\ ToSet(g[Len(blocks)]) = ToSet(blocks) \cap S
      /\ IsInjective(blocks) => IsInjective(g[Len(blocks)])
  BY <1>1, <1>2, KeptGood, Zenon
<1> QED BY <1>3, <1>4

-----------------------------------------------------------------------------
(* The messages                                                            *)

HasReply(messages, turn) ==
    \E i \in DOMAIN messages : messages[i].role = "assistant" /\ messages[i].turn = turn

\* The search finds a reply of the turn exactly when there is one.
LEMMA ReplyOfProperties ==
    ASSUME NEW messages \in Seq(Message), NEW turn
    PROVE  /\ ReplyOf(messages, turn) = 0 <=> ~HasReply(messages, turn)
           /\ ReplyOf(messages, turn) # 0 =>
                 /\ ReplyOf(messages, turn) \in DOMAIN messages
                 /\ messages[ReplyOf(messages, turn)].role = "assistant"
                 /\ messages[ReplyOf(messages, turn)].turn = turn
<1> DEFINE I == {i \in 1..Len(messages) :
                    messages[i].role = "assistant" /\ messages[i].turn = turn}
<1>1. DOMAIN messages = 1..Len(messages) /\ Len(messages) \in Nat
  OBVIOUS
<1>2. I # {} <=> HasReply(messages, turn)
  BY <1>1 DEF HasReply
<1>3. CASE I = {}
  <2>1. ReplyOf(messages, turn) = 0
    BY <1>3 DEF ReplyOf, SelectLastInSeq
  <2> QED BY <1>2, <1>3, <2>1
<1>4. CASE I # {}
  <2>1. \E x \in I : \A y \in I : y <= x
    <3>1. I \in SUBSET Nat /\ \A y \in I : y <= Len(messages)
      BY <1>1
    <3> HIDE DEF I
    <3> QED BY <1>1, <1>4, <3>1, GreatestNatural
  <2>2. ReplyOf(messages, turn) = CHOOSE x \in I : \A y \in I : x >= y
    BY <1>4 DEF ReplyOf, SelectLastInSeq, Max
  <2>3. ReplyOf(messages, turn) \in I
    BY <2>1, <2>2
  <2> QED BY <1>1, <1>2, <1>4, <2>3
<1> QED BY <1>3, <1>4

\* "new" holds some of the messages of "old", none of them twice.
Part(new, old) ==
    \E at \in [DOMAIN new -> DOMAIN old] :
        IsInjective(at) /\ \A j \in DOMAIN new : new[j] = old[at[j]]

LEMMA PrefixPart ==
    ASSUME NEW M, NEW messages \in Seq(M), NEW i \in DOMAIN messages
    PROVE  /\ SubSeq(messages, 1, i - 1) \in Seq(M)
           /\ Part(SubSeq(messages, 1, i - 1), messages)
<1> DEFINE new == SubSeq(messages, 1, i - 1)
<1>1. /\ new \in Seq(M) /\ DOMAIN new = 1..(i - 1)
      /\ \A j \in 1..(i - 1) : new[j] = messages[j]
      /\ \A j \in 1..(i - 1) : j \in DOMAIN messages
  OBVIOUS
<1> HIDE DEF new
<1>2. Part(new, messages)
  <2> DEFINE at == [j \in DOMAIN new |-> j]
  <2>1. at \in [DOMAIN new -> DOMAIN messages] /\ IsInjective(at)
    BY <1>1 DEF IsInjective
  <2>2. \A j \in DOMAIN new : new[j] = messages[at[j]]
    BY <1>1
  <2> QED BY <2>1, <2>2 DEF Part
<1> QED BY <1>1, <1>2 DEF new

LEMMA RemovePart ==
    ASSUME NEW M, NEW messages \in Seq(M), NEW i \in DOMAIN messages
    PROVE  /\ RemoveAt(messages, i) \in Seq(M)
           /\ Part(RemoveAt(messages, i), messages)
<1> DEFINE new == RemoveAt(messages, i)
           n == Len(messages)
           front == SubSeq(messages, 1, i - 1)
           rear == SubSeq(messages, i + 1, n)
<1>1. n \in Nat /\ DOMAIN messages = 1..n /\ i \in 1..n
  OBVIOUS
<1>2. /\ front \in Seq(M) /\ Len(front) = i - 1
      /\ \A j \in 1..(i - 1) : front[j] = messages[j]
  OBVIOUS
<1>3. /\ rear \in Seq(M) /\ Len(rear) = n - i
      /\ \A j \in 1..(n - i) : rear[j] = messages[j + i]
  BY <1>1, SubSeqProperties
<1> HIDE DEF front, rear, n
<1>4. /\ new \in Seq(M) /\ DOMAIN new = 1..(n - 1)
      /\ \A j \in 1..(n - 1) :
            new[j] = IF j < i THEN front[j] ELSE rear[j - (i - 1)]
  <2>1. new = front \o rear
    BY DEF RemoveAt, front, rear, n
  <2> HIDE DEF new
  <2>2. /\ new \in Seq(M) /\ Len(new) = (i - 1) + (n - i)
        /\ \A j \in 1..((i - 1) + (n - i)) :
              new[j] = IF j <= i - 1 THEN front[j] ELSE rear[j - (i - 1)]
    BY <1>2, <1>3, <2>1, ConcatProperties
  <2> QED BY <1>1, <2>2
<1> HIDE DEF new
<1>5. Part(new, messages)
  <2> DEFINE at == [j \in DOMAIN new |-> IF j < i THEN j ELSE j + 1]
  <2>1. at \in [DOMAIN new -> DOMAIN messages] /\ IsInjective(at)
    BY <1>1, <1>4 DEF IsInjective
  <2>2. ASSUME NEW j \in DOMAIN new PROVE new[j] = messages[at[j]]
    <3>1. CASE j < i
      BY <1>1, <1>2, <1>4, <3>1
    <3>2. CASE ~(j < i)
      <4>1. j - (i - 1) \in 1..(n - i) /\ (j - (i - 1)) + i = j + 1
        BY <1>1, <1>4, <3>2
      <4> QED BY <1>3, <1>4, <3>2, <4>1
    <3> QED BY <3>1, <3>2
  <2> QED BY <2>1, <2>2 DEF Part
<1> QED BY <1>4, <1>5 DEF new

LEMMA PartReplies ==
    ASSUME NEW new, NEW old, Part(new, old), NEW turn, HasReply(new, turn)
    PROVE  HasReply(old, turn)
BY DEF Part, HasReply

-----------------------------------------------------------------------------
(* Every block in one place                                                *)

\* Blocks are attached to the replies of their turns, and no block is on
\* display twice.
Placed(v) ==
    /\ InPlace(v.messages)
    /\ PlacedOnce(v.messages)
    /\ IsInjective(v.pending)
    /\ Attached(v) \cap ToSet(v.pending) = {}

LEMMA AttachedIff ==
    ASSUME NEW v, NEW block
    PROVE  block \in Attached(v) <=>
              \E i \in DOMAIN v.messages : block \in ToSet(v.messages[i].blocks)
BY DEF Attached

\* It stays so when messages are taken away, and when the pending blocks are.
LEMMA PlacedPart ==
    ASSUME NEW v, NEW w, Placed(v),
           Part(w.messages, v.messages), w.pending \in {v.pending, <<>>}
    PROVE  Placed(w)
<1>1. PICK at \in [DOMAIN w.messages -> DOMAIN v.messages] :
          /\ IsInjective(at)
          /\ \A j \in DOMAIN w.messages : w.messages[j] = v.messages[at[j]]
  BY DEF Part
<1>2. InPlace(w.messages)
  BY <1>1 DEF Placed, InPlace
<1>3. PlacedOnce(w.messages)
  <2>1. ASSUME NEW i \in DOMAIN w.messages PROVE IsInjective(w.messages[i].blocks)
    BY <1>1 DEF Placed, PlacedOnce
  <2>2. ASSUME NEW i \in DOMAIN w.messages, NEW j \in DOMAIN w.messages, i # j
        PROVE  ToSet(w.messages[i].blocks) \cap ToSet(w.messages[j].blocks) = {}
    <3>1. at[i] # at[j]
      BY <1>1, <2>2 DEF IsInjective
    <3> QED BY <1>1, <3>1 DEF Placed, PlacedOnce
  <2> QED BY <2>1, <2>2 DEF PlacedOnce
<1>4. Attached(w) \subseteq Attached(v)
  BY <1>1, AttachedIff
<1>5. IsInjective(w.pending) /\ ToSet(w.pending) \subseteq ToSet(v.pending)
  BY EmptyList DEF Placed
<1> QED BY <1>2, <1>3, <1>4, <1>5 DEF Placed

\* So it does when a message without blocks is added.
LEMMA PlacedAppend ==
    ASSUME NEW v, NEW w, Placed(v), v.messages \in Seq(Message),
           NEW m \in Message, m.blocks = <<>>,
           w.messages = Append(v.messages, m), w.pending = v.pending
    PROVE  Placed(w)
<1> DEFINE n == Len(v.messages)
<1>1. /\ n \in Nat /\ DOMAIN v.messages = 1..n /\ DOMAIN w.messages = 1..(n + 1)
      /\ \A i \in 1..n : w.messages[i] = v.messages[i]
      /\ w.messages[n + 1] = m
  OBVIOUS
<1>2. \A i \in DOMAIN w.messages :
          \/ i \in DOMAIN v.messages /\ w.messages[i] = v.messages[i]
          \/ w.messages[i].blocks = <<>>
  BY <1>1
<1>3. InPlace(w.messages)
  BY <1>2, EmptyList DEF Placed, InPlace
<1>4. PlacedOnce(w.messages)
  BY <1>2, EmptyList DEF Placed, PlacedOnce
<1>5. Attached(w) \subseteq Attached(v)
  BY <1>2, EmptyList, AttachedIff
<1> QED BY <1>3, <1>4, <1>5 DEF Placed

\* So it does when a block arrives, whether or not it is on display already.
LEMMA PlacedOnBlock ==
    ASSUME NEW v \in View, Placed(v), NEW block \in Block
    PROVE  /\ OnBlock(v, block) \in View
           /\ Placed(OnBlock(v, block))
           /\ OnBlock(v, block).messages = v.messages
           /\ ToSet(OnBlock(v, block).pending) \subseteq ToSet(v.pending) \cup {block}
<1>1. CASE block \in Shown(v)
  BY <1>1 DEF OnBlock
<1>2. CASE block \notin Shown(v)
  <2> DEFINE w == OnBlock(v, block)
  <2>1. w = [v EXCEPT !.pending = Append(@, block)]
    BY <1>2 DEF OnBlock
  <2>2. v.pending \in Seq(Block)
    BY DEF View
  <2>3. /\ Append(v.pending, block) \in Seq(Block)
        /\ ToSet(Append(v.pending, block)) = ToSet(v.pending) \cup {block}
        /\ IsInjective(Append(v.pending, block))
    BY <1>2, <2>2, AppendElements DEF Placed, Shown
  <2>4. w \in View /\ w.messages = v.messages /\ w.pending = Append(v.pending, block)
    BY <2>1, <2>3 DEF View
  <2> HIDE DEF w
  <2>5. Attached(w) = Attached(v)
    BY <2>4 DEF Attached
  <2> QED BY <1>2, <2>3, <2>4, <2>5 DEF Placed, Shown, w
<1> QED BY <1>1, <1>2

\* At the end of a turn its blocks move to the last reply of the turn: those
\* that stay pending are of other turns, or there is no such reply.
LEMMA PlacedAttach ==
    ASSUME NEW v \in View, Placed(v), NEW turn \in Nat
    PROVE  LET w == AttachPendingBlocksForTurn(v, turn)
           IN  /\ w \in View
               /\ Placed(w)
               /\ \A t : HasReply(w.messages, t) <=> HasReply(v.messages, t)
               /\ ToSet(w.pending) \subseteq ToSet(v.pending)
               /\ HasReply(v.messages, turn) =>
                     \A block \in ToSet(w.pending) : block[1] # turn
<1> DEFINE w == AttachPendingBlocksForTurn(v, turn)
           target == ReplyOf(v.messages, turn)
           mine == OfTurn(v.pending, turn)
           others == NotOfTurn(v.pending, turn)
<1>1. v.messages \in Seq(Message) /\ v.pending \in Seq(Block)
  BY DEF View
<1>2. CASE target = 0
  <2>1. w = v /\ ~HasReply(v.messages, turn)
    BY <1>1, <1>2, ReplyOfProperties DEF AttachPendingBlocksForTurn
  <2> QED BY <2>1
<1>3. CASE target # 0
  <2>1. /\ target \in DOMAIN v.messages
        /\ v.messages[target].role = "assistant"
        /\ v.messages[target].turn = turn
    BY <1>1, <1>3, ReplyOfProperties
  <2>2. /\ mine \in Seq(Block) /\ IsInjective(mine)
        /\ ToSet(mine) = ToSet(v.pending) \cap ({turn} \X Nat)
    BY <1>1, AmongProperties DEF Placed, OfTurn
  <2>3. /\ others \in Seq(Block) /\ IsInjective(others)
        /\ ToSet(others) = ToSet(v.pending) \cap ((Nat \ {turn}) \X Nat)
    BY <1>1, AmongProperties DEF Placed, NotOfTurn
  <2>4. w = [v EXCEPT !.messages[target].blocks = @ \o mine, !.pending = others]
    BY <1>3 DEF AttachPendingBlocksForTurn
  <2> HIDE DEF target, mine, others, w
  <2> DEFINE old == v.messages[target].blocks
             reply == [v.messages[target] EXCEPT !.blocks = old \o mine]
  <2>5. v.messages[target] \in Message /\ old \in Seq(Block) /\ IsInjective(old)
    <3>1. v.messages[target] \in Message
      BY <1>1, <2>1
    <3>2. old \in Seq(Block)
      BY <3>1 DEF Message
    <3>3. IsInjective(old)
      BY <2>1 DEF Placed, PlacedOnce
    <3> QED BY <3>1, <3>2, <3>3
  <2>6. ToSet(old) \cap ToSet(mine) = {}
    BY <2>1, <2>2, AttachedIff DEF Placed
  <2>7. /\ old \o mine \in Seq(Block)
        /\ ToSet(old \o mine) = ToSet(old) \cup ToSet(mine)
        /\ IsInjective(old \o mine)
    BY <2>2, <2>5, <2>6, ConcatElements
  <2>8. /\ reply \in Message /\ reply.role = "assistant" /\ reply.turn = turn
        /\ reply.blocks = old \o mine
    BY <2>1, <2>5, <2>7 DEF Message
  <2>9. /\ w = [v EXCEPT !.messages = [v.messages EXCEPT ![target] = reply],
                         !.pending = others]
        /\ [v.messages EXCEPT ![target] = reply] \in Seq(Message)
    BY <1>1, <2>1, <2>4, <2>8
  <2> HIDE DEF reply, old
  <2>10. /\ w \in View /\ w.pending = others
         /\ DOMAIN w.messages = DOMAIN v.messages
         /\ \A i \in DOMAIN v.messages :
               w.messages[i] = IF i = target THEN reply ELSE v.messages[i]
    BY <1>1, <2>3, <2>9 DEF View
  <2>11. InPlace(w.messages)
    <3> SUFFICES ASSUME NEW i \in DOMAIN v.messages,
                        NEW block \in ToSet(w.messages[i].blocks)
                 PROVE  /\ w.messages[i].role = "assistant"
                        /\ w.messages[i].turn = block[1]
      BY <2>10 DEF InPlace
    <3>1. CASE i # target
      BY <2>10, <3>1 DEF Placed, InPlace
    <3>2. CASE i = target
      <4>1. block \in ToSet(old) \cup ToSet(mine)
        BY <2>7, <2>8, <2>10, <3>2
      <4>2. block[1] = turn
        BY <2>1, <2>2, <4>1 DEF Placed, InPlace, old
      <4> QED BY <2>8, <2>10, <3>2, <4>2
    <3> QED BY <3>1, <3>2
  <2>12. PlacedOnce(w.messages)
    <3>1. ASSUME NEW i \in DOMAIN v.messages PROVE IsInjective(w.messages[i].blocks)
      BY <2>7, <2>8, <2>10 DEF Placed, PlacedOnce
    <3>2. ASSUME NEW i \in DOMAIN v.messages, i # target
          PROVE  ToSet(v.messages[i].blocks) \cap ToSet(old \o mine) = {}
      <4>1. ToSet(v.messages[i].blocks) \cap ToSet(old) = {}
        BY <2>1, <3>2 DEF Placed, PlacedOnce, old
      <4>2. ToSet(v.messages[i].blocks) \cap ToSet(mine) = {}
        BY <2>2, <3>2, AttachedIff DEF Placed
      <4> QED BY <2>7, <4>1, <4>2
    <3>3. ASSUME NEW i \in DOMAIN v.messages, NEW j \in DOMAIN v.messages, i # j
          PROVE  ToSet(w.messages[i].blocks) \cap ToSet(w.messages[j].blocks) = {}
      <4>1. CASE i # target /\ j # target
        BY <2>10, <3>3, <4>1 DEF Placed, PlacedOnce
      <4>2. CASE i = target
        BY <2>8, <2>10, <3>2, <3>3, <4>2
      <4>3. CASE j = target
        BY <2>8, <2>10, <3>2, <3>3, <4>3
      <4> QED BY <4>1, <4>2, <4>3
    <3> QED BY <2>10, <3>1, <3>3 DEF PlacedOnce
  <2>13. Attached(w) \cap ToSet(w.pending) = {}
    <3>1. \A block \in Attached(w) : block \in Attached(v) \/ block \in ToSet(mine)
      BY <2>1, <2>7, <2>8, <2>10, AttachedIff DEF old
    <3>2. ToSet(mine) \cap ToSet(others) = {}
      BY <2>2, <2>3
    <3> QED BY <2>3, <2>10, <3>1, <3>2 DEF Placed
  <2>14. Placed(w)
    BY <2>3, <2>10, <2>11, <2>12, <2>13 DEF Placed
  <2>15. \A t : HasReply(w.messages, t) <=> HasReply(v.messages, t)
    BY <2>1, <2>8, <2>10 DEF HasReply
  <2>16. \A block \in ToSet(w.pending) : block[1] # turn
    BY <2>3, <2>10
  <2> QED BY <2>3, <2>10, <2>14, <2>15, <2>16 DEF w
<1> QED BY <1>2, <1>3

-----------------------------------------------------------------------------
(* What the other calls do                                                 *)

\* The calls that change neither the messages nor the pending blocks.
Quiet(w, v) == w \in View /\ w.messages = v.messages /\ w.pending = v.pending

LEMMA QuietFields ==
    ASSUME NEW v \in View, NEW a \in BOOLEAN, NEW b \in BOOLEAN,
           NEW status \in StreamStatus, NEW phase \in Phases
    PROVE  /\ Quiet([v EXCEPT !.plugins = a, !.progress = b], v)
           /\ Quiet([v EXCEPT !.streaming = a, !.status = status, !.text = b], v)
           /\ Quiet([v EXCEPT !.status = status, !.text = a], v)
           /\ Quiet([v EXCEPT !.status = status], v)
           /\ Quiet([v EXCEPT !.phase = phase], v)
           /\ Quiet([v EXCEPT !.progress = a], v)
           /\ Quiet([v EXCEPT !.summary = a], v)
           /\ Quiet([v EXCEPT !.initError = a], v)
BY DEF View, Quiet

LEMMA QuietTwice ==
    ASSUME NEW u, NEW v, NEW w, Quiet(u, v), Quiet(v, w) PROVE Quiet(u, w)
BY DEF Quiet

LEMMA PluginProcessingQuiet ==
    ASSUME NEW v \in View, NEW on \in BOOLEAN
    PROVE  Quiet(SetPluginProcessing(v, on), v)
<1>1. (v.progress /\ on) \in BOOLEAN
  OBVIOUS
<1> QED BY <1>1, QuietFields DEF SetPluginProcessing, StreamStatus, Phases

LEMMA QuietCalls ==
    ASSUME NEW v \in View, NEW phase \in {"plugins", "complete"} \cup Phases,
           NEW on \in BOOLEAN
    PROVE  /\ Quiet(Waiting(v), v)
           /\ Quiet(OnChunk(v), v)
           /\ Quiet(OnPhaseChange(v, phase), v)
           /\ Quiet(OnPluginProgress(v), v)
           /\ Quiet(OnPluginSummary(v), v)
           /\ Quiet(OnDisconnected(v), v)
           /\ Quiet([v EXCEPT !.status = "idle"], v)
           /\ Quiet([v EXCEPT !.initError = on], v)
<1>1. /\ Quiet(Waiting(v), v) /\ Quiet(OnChunk(v), v) /\ Quiet(OnDisconnected(v), v)
      /\ Quiet([v EXCEPT !.status = "idle"], v)
  BY QuietFields DEF Waiting, OnChunk, OnDisconnected, StreamStatus, Phases
<1>2. /\ Quiet(OnPluginProgress(v), v) /\ Quiet(OnPluginSummary(v), v)
      /\ Quiet([v EXCEPT !.initError = on], v)
  BY QuietFields DEF OnPluginProgress, OnPluginSummary, StreamStatus, Phases
<1>3. CASE phase = "plugins"
  <2>1. SetPluginProcessing(v, TRUE) \in View
    BY PluginProcessingQuiet DEF Quiet
  <2>2. Quiet([SetPluginProcessing(v, TRUE) EXCEPT !.summary = FALSE],
              SetPluginProcessing(v, TRUE))
    BY <2>1, QuietFields DEF StreamStatus, Phases
  <2>3. Quiet(OnPhaseChange(v, phase), v)
    BY <1>3, <2>2, PluginProcessingQuiet, QuietTwice DEF OnPhaseChange
  <2> QED BY <1>1, <1>2, <2>3
<1>4. CASE phase = "complete"
  BY <1>1, <1>2, <1>4, PluginProcessingQuiet DEF OnPhaseChange
<1>5. CASE phase \in Phases
  BY <1>1, <1>2, <1>5, QuietFields DEF OnPhaseChange, Phases, StreamStatus
<1> QED BY <1>3, <1>4, <1>5

LEMMA AddMessageType ==
    ASSUME NEW v \in View, NEW m \in Message
    PROVE  /\ AddMessage(v, m) \in View
           /\ AddMessage(v, m).messages = Append(v.messages, m)
           /\ AddMessage(v, m).pending = v.pending
BY DEF View, AddMessage

LEMMA AppendReplies ==
    ASSUME NEW messages \in Seq(Message), NEW m \in Message, NEW turn,
           HasReply(Append(messages, m), turn)
    PROVE  HasReply(messages, turn) \/ (m.role = "assistant" /\ m.turn = turn)
<1>1. /\ DOMAIN messages = 1..Len(messages) /\ Len(messages) \in Nat
      /\ DOMAIN Append(messages, m) = 1..(Len(messages) + 1)
      /\ \A i \in 1..Len(messages) : Append(messages, m)[i] = messages[i]
      /\ Append(messages, m)[Len(messages) + 1] = m
  OBVIOUS
<1>2. PICK i \in DOMAIN Append(messages, m) :
          /\ Append(messages, m)[i].role = "assistant"
          /\ Append(messages, m)[i].turn = turn
  BY DEF HasReply
<1>3. CASE i = Len(messages) + 1
  BY <1>1, <1>2, <1>3
<1>4. CASE i \in DOMAIN messages
  BY <1>1, <1>2, <1>4 DEF HasReply
<1> QED BY <1>1, <1>3, <1>4

\* The end of a reply adds a message only when there is something to show.
LEMMA DoneCall ==
    ASSUME NEW v \in View, NEW turn \in Nat, NEW text \in BOOLEAN,
           NEW hasBlocks \in BOOLEAN
    PROVE  /\ OnDone(v, turn, text, hasBlocks) \in View
           /\ OnDone(v, turn, text, hasBlocks).pending = v.pending
           /\ OnDone(v, turn, text, hasBlocks).messages =
                 IF text \/ hasBlocks THEN Append(v.messages, Reply(turn, text))
                 ELSE v.messages
           /\ Reply(turn, text) \in Message
<1>1. Reply(turn, text) \in Message
  <2>1. <<>> \in Seq(Block)
    OBVIOUS
  <2> QED BY <2>1 DEF Message, Roles, Reply
<1>2. Append(v.messages, Reply(turn, text)) \in Seq(Message)
  BY <1>1 DEF View
<1>3. CASE text \/ hasBlocks
  <2>1. OnDone(v, turn, text, hasBlocks) =
          [v EXCEPT !.streaming = FALSE, !.status = "done", !.text = FALSE,
                    !.messages = Append(v.messages, Reply(turn, text))]
    BY <1>3 DEF OnDone
  <2> QED BY <1>1, <1>2, <1>3, <2>1 DEF View, StreamStatus
<1>4. CASE ~(text \/ hasBlocks)
  <2>1. OnDone(v, turn, text, hasBlocks) =
          [v EXCEPT !.streaming = FALSE, !.status = "done", !.text = FALSE,
                    !.messages = v.messages]
    BY <1>4 DEF OnDone
  <2> QED BY <1>1, <1>4, <2>1 DEF View, StreamStatus
<1> QED BY <1>3, <1>4

LEMMA ErrorCall ==
    ASSUME NEW v \in View
    PROVE  /\ OnError(v) \in View /\ OnError(v).pending = v.pending
           /\ OnError(v).messages = Append(v.messages, SystemMessage)
           /\ SystemMessage \in Message
<1> DEFINE first == v.initError \/ v.phase = "init"
           before == [v EXCEPT !.streaming = FALSE, !.status = "error",
                               !.text = FALSE, !.initError = first]
<1>1. first \in BOOLEAN
  OBVIOUS
<1>2. OnError(v) = AddMessage(before, SystemMessage)
  BY DEF OnError
<1> HIDE DEF first
<1>3. Quiet(before, v)
  BY <1>1 DEF View, StreamStatus, Quiet
<1> HIDE DEF before
<1>4. SystemMessage \in Message
  <2>1. <<>> \in Seq(Block)
    OBVIOUS
  <2> QED BY <2>1 DEF Message, Roles, SystemMessage
<1> QED BY <1>2, <1>3, <1>4, AddMessageType DEF Quiet

LEMMA SetMessages ==
    ASSUME NEW v \in View, NEW messages \in Seq(Message)
    PROVE  /\ [v EXCEPT !.messages = messages] \in View
           /\ [v EXCEPT !.messages = messages].messages = messages
           /\ [v EXCEPT !.messages = messages].pending = v.pending
           /\ [v EXCEPT !.messages = messages, !.pending = <<>>] \in View
           /\ [v EXCEPT !.messages = messages, !.pending = <<>>].messages = messages
           /\ [v EXCEPT !.messages = messages, !.pending = <<>>].pending = <<>>
<1>1. <<>> \in Seq(Block)
  OBVIOUS
<1> QED BY <1>1 DEF View

\* Deleting a message, or the messages from one on.
LEMMA DeleteCalls ==
    ASSUME NEW v \in View, NEW i \in DOMAIN v.messages
    PROVE  \A w \in {DeleteMessage(v, i), DeleteMessagesFrom(v, i)} :
               /\ w \in View
               /\ Part(w.messages, v.messages)
               /\ w.pending \in {v.pending, <<>>}
<1>1. v.messages \in Seq(Message)
  BY DEF View
<1>2. /\ RemoveAt(v.messages, i) \in Seq(Message)
      /\ Part(RemoveAt(v.messages, i), v.messages)
  BY <1>1, RemovePart
<1>3. /\ SubSeq(v.messages, 1, i - 1) \in Seq(Message)
      /\ Part(SubSeq(v.messages, 1, i - 1), v.messages)
  BY <1>1, PrefixPart
<1>4. /\ DeleteMessage(v, i) \in View
      /\ DeleteMessage(v, i).messages = RemoveAt(v.messages, i)
      /\ DeleteMessage(v, i).pending = v.pending
  BY <1>2, SetMessages DEF DeleteMessage
<1>5. /\ DeleteMessagesFrom(v, i) \in View
      /\ DeleteMessagesFrom(v, i).messages = SubSeq(v.messages, 1, i - 1)
      /\ DeleteMessagesFrom(v, i).pending = <<>>
  BY <1>3, SetMessages DEF DeleteMessagesFrom
<1> QED BY <1>2, <1>3, <1>4, <1>5

LEMMA WholePart ==
    ASSUME NEW messages PROVE Part(messages, messages)
<1> DEFINE at == [j \in DOMAIN messages |-> j]
<1>1. at \in [DOMAIN messages -> DOMAIN messages] /\ IsInjective(at)
  BY DEF IsInjective
<1>2. \A j \in DOMAIN messages : messages[j] = messages[at[j]]
  OBVIOUS
<1> QED BY <1>1, <1>2 DEF Part

\* Retry takes the last reply away, if there is any.
LEMMA RemoveReplyCall ==
    ASSUME NEW v \in View
    PROVE  LET w == RemoveLastAssistantMessage(v)
           IN  /\ w \in View
               /\ Part(w.messages, v.messages)
               /\ w.pending \in {v.pending, <<>>}
<1> DEFINE w == RemoveLastAssistantMessage(v)
           I == {i \in 1..Len(v.messages) : v.messages[i].role = "assistant"}
<1>1. v.messages \in Seq(Message) /\ DOMAIN v.messages = 1..Len(v.messages)
      /\ Len(v.messages) \in Nat
  BY DEF View
<1>2. CASE I = {}
  <2>1. w = v
    BY <1>2 DEF RemoveLastAssistantMessage, SelectLastInSeq
  <2> QED BY <2>1, WholePart
<1>3. CASE I # {}
  <2>1. \E x \in I : \A y \in I : y <= x
    <3>1. I \in SUBSET Nat /\ \A y \in I : y <= Len(v.messages)
      BY <1>1
    <3> HIDE DEF I
    <3> QED BY <1>1, <1>3, <3>1, GreatestNatural
  <2> DEFINE last == CHOOSE x \in I : \A y \in I : x >= y
  <2>2. last \in I /\ last # 0
    <3>1. last \in I
      BY <2>1
    <3>2. 0 \notin I
      BY <1>1
    <3> QED BY <3>1, <3>2
  <2>3. w = [v EXCEPT !.messages = RemoveAt(@, last), !.pending = <<>>]
    BY <1>3, <2>2 DEF RemoveLastAssistantMessage, SelectLastInSeq, Max
  <2> HIDE DEF last, w
  <2>4. /\ RemoveAt(v.messages, last) \in Seq(Message)
        /\ Part(RemoveAt(v.messages, last), v.messages)
    BY <1>1, <2>2, RemovePart
  <2>5. /\ w \in View /\ w.messages = RemoveAt(v.messages, last)
        /\ w.pending = <<>>
    BY <2>3, <2>4, SetMessages
  <2> QED BY <2>4, <2>5 DEF w
<1> QED BY <1>2, <1>3
=============================================================================
