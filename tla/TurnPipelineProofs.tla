------------------------- MODULE TurnPipelineProofs -------------------------
(***************************************************************************)
(* Proofs about TurnPipeline, for every set of workers, plugins and block  *)
(* types and every value of the bounds.                                    *)
(***************************************************************************)
EXTENDS TurnPipeline, FiniteSetTheorems, SequenceTheorems, TLAPS

-----------------------------------------------------------------------------
(* Types                                                                   *)

\* The blocks that survive the conflict rules are blocks of the turn.
LEMMA FilterBlocksType ==
    ASSUME NEW blocks \in Batches, NEW hasPlayer \in BOOLEAN
    PROVE  FilterBlocks(blocks, hasPlayer) \in Pending
<1> DEFINE left == FilterBlocks(blocks, hasPlayer)
<1>1. PICK n \in 0..MaxBlocks : blocks \in [1..n -> BlockTypes]
  BY DEF Batches
<1>2. DOMAIN left \in SUBSET (1..MaxBlocks)
  BY <1>1, ConfigAssumption DEF FilterBlocks, ConfigAssumption
<1>3. left \in [DOMAIN left -> BlockTypes]
  BY <1>1 DEF FilterBlocks
<1> QED BY <1>2, <1>3 DEF Pending

\* Taking a block off the list leaves a list of blocks.
LEMMA PendingShrinks ==
    ASSUME NEW todos \in Pending, NEW i
    PROVE  [j \in DOMAIN todos \ {i} |-> todos[j]] \in Pending
<1>1. PICK D \in SUBSET (1..MaxBlocks) : todos \in [D -> BlockTypes]
  BY DEF Pending
<1>2. [j \in DOMAIN todos \ {i} |-> todos[j]] \in [D \ {i} -> BlockTypes]
  BY <1>1
<1> QED BY <1>1, <1>2 DEF Pending

LEMMA PendingEntry ==
    ASSUME NEW todos \in Pending, NEW i \in DOMAIN todos
    PROVE  todos[i] \in BlockTypes
BY DEF Pending

LEMMA EmptyPending == <<>> \in Pending
<1>1. <<>> \in [{} -> BlockTypes]
  OBVIOUS
<1> QED BY <1>1 DEF Pending

LEMMA EmptyRowType == EmptyRow \in Row /\ Zero \in [BlockTypes -> Nat]
BY DEF EmptyRow, Row, Zero

\* A worker that leaves its turn has well-typed empty local state.
LEMMA LeaveType ==
    ASSUME TypeOK, NEW w \in Workers, Leave(w)
    PROVE  /\ pc' \in [Workers -> Labels]
           /\ kind' \in [Workers -> Kinds]
           /\ orm' \in [Workers -> Row]
           /\ target' \in [Workers -> Nat]
           /\ todo' \in [Workers -> Pending]
           /\ counts' \in [Workers -> [BlockTypes -> Nat]]
           /\ wrote' \in [Workers -> [BlockTypes -> Nat]]
           /\ saved' \in [Workers -> SUBSET (BlockTypes \ InfraTypes)]
           /\ shown' \in [Workers -> SUBSET BlockTypes]
           /\ executed' \in [Workers -> SUBSET Plugins]
BY EmptyRowType, EmptyPending DEF TypeOK, Leave, Labels, Kinds

\* The row a turn writes back is well typed.
LEMMA AdvanceType ==
    ASSUME TypeOK, NEW w \in Workers
    PROVE  Advance(w) \in Row
<1> DEFINE plug == [p \in Plugins |->
                      IF p \in executed[w] THEN orm[w].plug[p] + 1 ELSE orm[w].plug[p]]
<1>1. orm[w] \in Row /\ counts[w] \in [BlockTypes -> Nat]
  BY DEF TypeOK
<1>2. plug \in [Plugins -> Nat]
  BY <1>1 DEF Row
<1>3. Advance(w) = [orm[w] EXCEPT !.blk = counts[w], !.plug = plug]
  BY DEF Advance
<1> HIDE DEF plug
<1> QED BY <1>1, <1>2, <1>3 DEF Row

\* Storing blocks in a message's metadata leaves a message.
LEMMA MessageBlocks ==
    ASSUME NEW m \in Message, NEW blocks \in SUBSET BlockTypes
    PROVE  [m EXCEPT !.blocks = blocks] \in Message
BY DEF Message

\* What a turn that commits adds to the history: its dispatches.
CountsAhead ==
    \A w \in Workers : pc[w] \in {"dispatch", "commit"} =>
        \A t \in BlockTypes : orm[w].blk[t] <= counts[w][t]

TypeInv == TypeOK /\ CountsAhead

LEMMA InitTypeInv == Init => TypeInv
BY EmptyRowType, EmptyPending, ConfigAssumption
   DEF Init, TypeInv, TypeOK, CountsAhead, Labels, Kinds, Message, ConfigAssumption

LEMMA NextTypeInv == TypeInv /\ [Next]_vars => TypeInv'
<1> SUFFICES ASSUME TypeInv, [Next]_vars PROVE TypeInv'
  OBVIOUS
<1> USE DEF TypeInv, store, local, tallies
<1>1. ASSUME NEW w \in Workers, NEW k \in Kinds, NEW m \in Narratives \cup {0},
             Begin(w, k, m)
      PROVE  TypeInv'
  <2>1. m \in Nat
    BY DEF Narratives, TypeOK
  <2>2. TypeOK'
    BY <1>1, <2>1 DEF Begin, TypeOK, Kinds, Labels
  <2>3. CountsAhead'
    BY <1>1 DEF Begin, TypeOK, CountsAhead, Kinds
  <2> QED BY <2>2, <2>3
<1>2. ASSUME NEW w \in Workers, SaveUserMessage(w)
      PROVE  TypeInv'
  <2>1. msgs' \in Seq(Message)
    BY <1>2 DEF SaveUserMessage, TypeOK, Message
  <2>2. TypeOK'
    BY <1>2, <2>1 DEF SaveUserMessage, TypeOK, Labels
  <2>3. CountsAhead'
    BY <1>2 DEF SaveUserMessage, TypeOK, CountsAhead
  <2> QED BY <2>2, <2>3
<1>3. ASSUME NEW w \in Workers, NarrativeFails(w)
      PROVE  TypeInv'
  <2>1. TypeOK'
    BY <1>3, LeaveType DEF NarrativeFails, TypeOK
  <2>2. CountsAhead'
    BY <1>3 DEF NarrativeFails, Leave, TypeOK, CountsAhead
  <2> QED BY <2>1, <2>2
<1>4. ASSUME NEW w \in Workers, NEW blank \in BOOLEAN, NarrativeArrives(w, blank)
      PROVE  TypeInv'
  BY <1>4 DEF NarrativeArrives, TypeOK, CountsAhead, Labels
<1>5. ASSUME NEW w \in Workers, SaveNarrative(w)
      PROVE  TypeInv'
  <2>1. msgs' \in Seq(Message) /\ Len(msgs) + 1 \in Nat
    BY <1>5 DEF SaveNarrative, TypeOK, Message
  <2>2. row' \in Row /\ orm' \in [Workers -> Row]
    <3>1. orm[w] \in Row
      BY DEF TypeOK
    <3>2. [orm[w] EXCEPT !.turns = @ + 1] \in Row
      BY <3>1 DEF Row
    <3> QED BY <1>5, <3>2 DEF SaveNarrative, TypeOK
  <2>3. TypeOK'
    BY <1>5, <2>1, <2>2 DEF SaveNarrative, TypeOK, Labels
  <2>4. CountsAhead'
    BY <1>5 DEF SaveNarrative, TypeOK, CountsAhead
  <2> QED BY <2>3, <2>4
<1>6. ASSUME NEW w \in Workers, NEW exec \in SUBSET Plugins, NEW blocks \in Batches,
             NEW hasPlayer \in BOOLEAN, RunAgent(w, exec, blocks, hasPlayer)
      PROVE  TypeInv'
  <2>1. todo' \in [Workers -> Pending]
    BY <1>6, FilterBlocksType DEF RunAgent, TypeOK
  <2>2. counts' \in [Workers -> [BlockTypes -> Nat]]
    BY <1>6 DEF RunAgent, TypeOK, Row
  <2>3. ran' \in [Plugins -> Nat]
    BY <1>6 DEF RunAgent, TypeOK
  <2>4. TypeOK'
    BY <1>6, <2>1, <2>2, <2>3 DEF RunAgent, TypeOK, Labels
  <2>5. CountsAhead'
    BY <1>6 DEF RunAgent, TypeOK, CountsAhead, Row
  <2> QED BY <2>4, <2>5
<1>7. ASSUME NEW w \in Workers, NEW i \in DOMAIN todo[w], SkipBlock(w, i)
      PROVE  TypeInv'
  <2>1. todo' \in [Workers -> Pending]
    BY <1>7, PendingShrinks DEF SkipBlock, NextBlock, TypeOK
  <2> QED BY <1>7, <2>1 DEF SkipBlock, NextBlock, TypeOK, CountsAhead
<1>8. ASSUME NEW w \in Workers, NEW i \in DOMAIN todo[w], NEW flushed \in BOOLEAN,
             DispatchFails(w, i, flushed)
      PROVE  TypeInv'
  <2>1. todo' \in [Workers -> Pending]
    BY <1>8, PendingShrinks DEF DispatchFails, NextBlock, TypeOK
  <2>2. todo[w][i] \in BlockTypes
    BY PendingEntry DEF TypeOK
  <2>3. wrote' \in [Workers -> [BlockTypes -> Nat]]
    BY <1>8, <2>2 DEF DispatchFails, TypeOK
  <2> QED BY <1>8, <2>1, <2>3 DEF DispatchFails, NextBlock, TypeOK, CountsAhead
<1>9. ASSUME NEW w \in Workers, NEW i \in DOMAIN todo[w], DispatchSucceeds(w, i)
      PROVE  TypeInv'
  <2>1. todo' \in [Workers -> Pending]
    BY <1>9, PendingShrinks DEF DispatchSucceeds, NextBlock, TypeOK
  <2>2. todo[w][i] \in BlockTypes
    BY PendingEntry DEF TypeOK
  <2>3. /\ wrote' \in [Workers -> [BlockTypes -> Nat]]
        /\ counts' \in [Workers -> [BlockTypes -> Nat]]
    BY <1>9, <2>2 DEF DispatchSucceeds, TypeOK
  <2>4. saved' \in [Workers -> SUBSET (BlockTypes \ InfraTypes)]
    BY <1>9, <2>2 DEF DispatchSucceeds, TypeOK
  <2>5. TypeOK'
    BY <1>9, <2>1, <2>3, <2>4 DEF DispatchSucceeds, NextBlock, TypeOK
  <2>6. CountsAhead'
    <3> SUFFICES ASSUME NEW v \in Workers, pc[v] \in {"dispatch", "commit"},
                        NEW t \in BlockTypes
                 PROVE  orm[v].blk[t] <= counts'[v][t]
      BY <1>9 DEF DispatchSucceeds, NextBlock, CountsAhead
    <3>1. orm[v].blk[t] <= counts[v][t] /\ orm[v].blk[t] \in Nat
      BY DEF CountsAhead, TypeOK, Row
    <3>2. counts[v][t] <= counts'[v][t] /\ counts[v][t] \in Nat /\ counts'[v][t] \in Nat
      BY <1>9, <2>2, <2>3 DEF DispatchSucceeds, TypeOK
    <3> QED BY <3>1, <3>2
  <2> QED BY <2>5, <2>6
<1>10. ASSUME NEW w \in Workers, SendBlocks(w)
       PROVE  TypeInv'
  BY <1>10 DEF SendBlocks, TypeOK, CountsAhead, Labels
<1>11. ASSUME NEW w \in Workers, CommitTurn(w)
       PROVE  TypeInv'
  <2>1. row' \in Row
    BY <1>11, AdvanceType DEF CommitTurn, TypeOK
  <2>2. msgs' \in Seq(Message)
    <3>1. saved[w] \in SUBSET BlockTypes /\ msgs \in Seq(Message)
      BY DEF TypeOK
    <3>2. CASE target[w] # 0 /\ saved[w] # {}
      <4> DEFINE message == [msgs[target[w]] EXCEPT !.blocks = saved[w]]
      <4>1. CASE target[w] \in DOMAIN msgs
        <5>1. target[w] \in 1..Len(msgs) /\ msgs[target[w]] \in Message
          BY <3>1, <4>1
        <5>2. message \in Message
          BY <3>1, <5>1, MessageBlocks
        <5>3. msgs' = [msgs EXCEPT ![target[w]] = message]
          BY <1>11, <3>2 DEF CommitTurn
        <5> HIDE DEF message
        <5> QED BY <3>1, <5>1, <5>2, <5>3, ExceptSeq
      <4>2. CASE target[w] \notin DOMAIN msgs
        <5>1. msgs' = msgs
          BY <1>11, <3>1, <3>2, <4>2 DEF CommitTurn
        <5> QED BY <3>1, <5>1
      <4> QED BY <4>1, <4>2
    <3>3. CASE ~(target[w] # 0 /\ saved[w] # {})
      BY <1>11, <3>1, <3>3 DEF CommitTurn
    <3> QED BY <3>2, <3>3
  <2>3. effects' \in [BlockTypes -> Nat]
    BY <1>11 DEF CommitTurn, TypeOK
  <2>4. published' \in [BlockTypes -> Nat]
    <3>1. ASSUME NEW t \in BlockTypes
          PROVE  published[t] + (counts[w][t] - orm[w].blk[t]) \in Nat
      <4>1. published[t] \in Nat /\ counts[w][t] \in Nat /\ orm[w].blk[t] \in Nat
        BY DEF TypeOK, Row
      <4>2. orm[w].blk[t] <= counts[w][t]
        BY <1>11 DEF CommitTurn, CountsAhead
      <4> QED BY <4>1, <4>2
    <3> QED BY <1>11, <3>1 DEF CommitTurn
  <2>5. TypeOK'
    BY <1>11, <2>1, <2>2, <2>3, <2>4 DEF CommitTurn, TypeOK, Labels
  <2>6. CountsAhead'
    BY <1>11 DEF CommitTurn, TypeOK, CountsAhead
  <2> QED BY <2>5, <2>6
<1>12. ASSUME NEW w \in Workers, EndTurn(w)
       PROVE  TypeInv'
  <2>1. TypeOK'
    BY <1>12, LeaveType DEF EndTurn, TypeOK
  <2>2. CountsAhead'
    BY <1>12 DEF EndTurn, Leave, TypeOK, CountsAhead
  <2> QED BY <2>1, <2>2
<1>13. ASSUME NEW w \in Workers, NEW exec \in SUBSET Plugins, Abort(w, exec)
       PROVE  TypeInv'
  <2>1. TypeOK'
    BY <1>13, LeaveType DEF Abort, TypeOK
  <2>2. CountsAhead'
    BY <1>13 DEF Abort, Leave, TypeOK, CountsAhead
  <2> QED BY <2>1, <2>2
<1>14. ASSUME UNCHANGED vars
       PROVE  TypeInv'
  BY <1>14 DEF vars, TypeOK, CountsAhead
<1> QED
  BY <1>1, <1>2, <1>3, <1>4, <1>5, <1>6, <1>7, <1>8, <1>9, <1>10, <1>11, <1>12,
     <1>13, <1>14 DEF Next, Step

\* The pipeline never leaves its state space; in particular the number of
\* dispatches a turn adds to the history is never negative.
THEOREM TypeCorrect == Spec => []TypeOK
<1>1. Spec => []TypeInv
  BY InitTypeInv, NextTypeInv, PTL DEF Spec
<1>2. TypeInv => TypeOK
  BY DEF TypeInv
<1> QED BY <1>1, <1>2, PTL

-----------------------------------------------------------------------------
(* The stored narratives                                                   *)

LEMMA NarrativesFinite ==
    ASSUME TypeOK
    PROVE  IsFiniteSet(Narratives) /\ Cardinality(Narratives) \in Nat
<1>1. Len(msgs) \in Nat /\ Narratives \subseteq 1..Len(msgs)
  BY DEF TypeOK, Narratives
<1>2. IsFiniteSet(1..Len(msgs))
  BY <1>1, FS_Interval
<1>3. IsFiniteSet(Narratives)
  BY <1>1, <1>2, FS_Subset
<1> QED BY <1>3, FS_CardinalityType

LEMMA SaveUserMessageNarratives ==
    ASSUME TypeOK, NEW w \in Workers, SaveUserMessage(w)
    PROVE  Narratives' = Narratives
<1>1. msgs \in Seq(Message) /\ msgs' = Append(msgs, [role |-> "user", blocks |-> {}])
  BY DEF TypeOK, SaveUserMessage
<1> QED BY <1>1 DEF Narratives

LEMMA SaveNarrativeNarratives ==
    ASSUME TypeOK, NEW w \in Workers, SaveNarrative(w)
    PROVE  Cardinality(Narratives') = Cardinality(Narratives) + 1
<1>1. msgs \in Seq(Message) /\ msgs' = Append(msgs, [role |-> "assistant", blocks |-> {}])
  BY DEF TypeOK, SaveNarrative
<1>2. Narratives' = Narratives \cup {Len(msgs) + 1}
  BY <1>1 DEF Narratives
<1>3. Len(msgs) + 1 \notin Narratives
  BY <1>1 DEF Narratives
<1> QED BY <1>2, <1>3, NarrativesFinite, FS_AddElement

\* Storing blocks in metadata changes no role.
LEMMA CommitTurnNarratives ==
    ASSUME TypeOK, NEW w \in Workers, CommitTurn(w)
    PROVE  Narratives' = Narratives
<1>1. msgs \in Seq(Message)
  BY DEF TypeOK
<1>2. DOMAIN msgs' = DOMAIN msgs
  BY DEF CommitTurn
<1>3. ASSUME NEW i \in DOMAIN msgs
      PROVE  msgs'[i].role = msgs[i].role
  <2>1. msgs[i] \in Message
    BY <1>1
  <2>2. msgs'[i] = msgs[i] \/ msgs'[i] = [msgs[i] EXCEPT !.blocks = saved[w]]
    BY DEF CommitTurn
  <2> QED BY <2>1, <2>2 DEF Message
<1> QED BY <1>2, <1>3 DEF Narratives

-----------------------------------------------------------------------------
(* The turn counter under overlapping turns                                *)

\* A stale copy of the row counts no more turns than there are narratives
\* either: that is what makes the lost updates harmless to the bound.
TurnInv ==
    /\ row.turns <= Cardinality(Narratives)
    /\ \A w \in Workers : orm[w].turns <= Cardinality(Narratives)

LEMMA TurnsAreNumbers ==
    ASSUME TypeOK
    PROVE  /\ row.turns \in Nat
           /\ \A w \in Workers : orm[w].turns \in Nat
BY DEF TypeOK, Row

LEMMA AdvanceKeepsTurns ==
    ASSUME TypeOK, NEW w \in Workers
    PROVE  Advance(w).turns = orm[w].turns
<1>1. orm[w] \in Row
  BY DEF TypeOK
<1> QED BY <1>1 DEF Advance, Row

LEMMA InitTurnInv == Init => TurnInv
<1> SUFFICES ASSUME Init PROVE TurnInv
  OBVIOUS
<1>1. Narratives = {}
  BY DEF Init, Narratives
<1>2. Cardinality(Narratives) = 0
  BY <1>1, FS_EmptySet
<1> QED BY <1>2 DEF Init, TurnInv, EmptyRow

LEMMA NextTurnInv == TypeOK /\ TypeOK' /\ TurnInv /\ [Next]_vars => TurnInv'
<1> SUFFICES ASSUME TypeOK, TypeOK', TurnInv, [Next]_vars PROVE TurnInv'
  OBVIOUS
<1> USE DEF store, local, tallies
<1>0. Cardinality(Narratives) \in Nat
  BY NarrativesFinite
<1>1. ASSUME NEW w \in Workers, Leave(w), UNCHANGED <<row, msgs>>
      PROVE  TurnInv'
  <2>1. Narratives' = Narratives
    BY <1>1 DEF Narratives
  <2>2. EmptyRow.turns <= Cardinality(Narratives)
    BY <1>0 DEF EmptyRow
  <2> QED BY <1>1, <2>1, <2>2 DEF TurnInv, Leave, TypeOK
<1>2. ASSUME UNCHANGED <<row, orm, msgs>>
      PROVE  TurnInv'
  <2>1. Narratives' = Narratives
    BY <1>2 DEF Narratives
  <2> QED BY <1>2, <2>1 DEF TurnInv
<1>3. ASSUME NEW w \in Workers, NEW k \in Kinds, NEW m \in Narratives \cup {0},
             Begin(w, k, m)
      PROVE  TurnInv'
  <2>1. Narratives' = Narratives
    BY <1>3 DEF Begin, Narratives
  <2> QED BY <1>3, <2>1 DEF Begin, TurnInv, TypeOK
<1>4. ASSUME NEW w \in Workers, SaveUserMessage(w)
      PROVE  TurnInv'
  BY <1>4, SaveUserMessageNarratives DEF SaveUserMessage, TurnInv
<1>5. ASSUME NEW w \in Workers, SaveNarrative(w)
      PROVE  TurnInv'
  <2>1. Cardinality(Narratives') = Cardinality(Narratives) + 1
    BY <1>5, SaveNarrativeNarratives
  <2>2. /\ row'.turns = orm[w].turns + 1
        /\ orm'[w].turns = orm[w].turns + 1
        /\ \A v \in Workers \ {w} : orm'[v] = orm[v]
    BY <1>5 DEF SaveNarrative, TypeOK, Row
  <2>3. \A v \in Workers : orm'[v].turns <= Cardinality(Narratives) + 1
    BY <1>0, <2>2, TurnsAreNumbers DEF TurnInv
  <2> QED BY <1>0, <2>1, <2>2, <2>3, TurnsAreNumbers DEF TurnInv
<1>6. ASSUME NEW w \in Workers, CommitTurn(w)
      PROVE  TurnInv'
  <2>1. row'.turns = row.turns \/ row'.turns = orm[w].turns
    BY <1>6, AdvanceKeepsTurns DEF CommitTurn
  <2> QED BY <1>6, <2>1, CommitTurnNarratives DEF CommitTurn, TurnInv
<1> QED
  BY <1>1, <1>2, <1>3, <1>4, <1>5, <1>6
     DEF Next, Step, NarrativeFails, NarrativeArrives, RunAgent, SkipBlock,
         DispatchFails, DispatchSucceeds, NextBlock, SendBlocks, EndTurn, Abort, vars

\* However turns overlap and wherever they are cut off, turn_count never runs
\* ahead of the stored narratives (SaveNarrative commits both together).
THEOREM TurnCountNeverAhead == Spec => []TurnCountBounded
<1>1. Init => TypeInv /\ TurnInv
  BY InitTypeInv, InitTurnInv
<1>2. TypeInv /\ TurnInv /\ [Next]_vars => (TypeInv /\ TurnInv)'
  BY NextTypeInv, NextTurnInv DEF TypeInv
<1>3. TurnInv => TurnCountBounded
  BY DEF TurnInv, TurnCountBounded
<1> QED BY <1>1, <1>2, <1>3, PTL DEF Spec

-----------------------------------------------------------------------------
(* The block and execution counters under overlapping turns                *)

\* No copy of the block counters is ahead of the committed dispatches, and
\* none has a once-per-session type twice.
BlockInv ==
    /\ \A t \in BlockTypes :
          /\ row.blk[t] <= published[t]
          /\ \A w \in Workers : orm[w].blk[t] <= published[t]
    /\ \A t \in OnceTypes :
          /\ row.blk[t] <= 1
          /\ \A w \in Workers : orm[w].blk[t] <= 1 /\ counts[w][t] <= 1

LEMMA BlocksAreNumbers ==
    ASSUME TypeOK, NEW t \in BlockTypes
    PROVE  /\ row.blk[t] \in Nat /\ published[t] \in Nat
           /\ \A w \in Workers : orm[w].blk[t] \in Nat /\ counts[w][t] \in Nat
BY DEF TypeOK, Row

LEMMA AdvanceStoresCounts ==
    ASSUME TypeOK, NEW w \in Workers
    PROVE  Advance(w).blk = counts[w]
<1>1. orm[w] \in Row
  BY DEF TypeOK
<1> QED BY <1>1 DEF Advance, Row

\* What one commit does to the block counters and to the history.
LEMMA CommitTurnBlocks ==
    ASSUME TypeInv, NEW w \in Workers, CommitTurn(w), NEW t \in BlockTypes
    PROVE  /\ row'.blk[t] = row.blk[t] \/ row'.blk[t] = counts[w][t]
           /\ published'[t] = published[t] + (counts[w][t] - orm[w].blk[t])
           /\ orm[w].blk[t] <= counts[w][t]
<1>1. row' = row \/ row' = Advance(w)
  BY DEF CommitTurn
<1>2. row'.blk = row.blk \/ row'.blk = counts[w]
  BY <1>1, AdvanceStoresCounts DEF TypeInv
<1> QED BY <1>2 DEF CommitTurn, TypeInv, CountsAhead

LEMMA InitBlockInv == Init => BlockInv
BY ConfigAssumption DEF Init, BlockInv, EmptyRow, Zero, ConfigAssumption

LEMMA NextBlockInv == TypeInv /\ TypeOK' /\ BlockInv /\ [Next]_vars => BlockInv'
<1> SUFFICES ASSUME TypeInv, TypeOK', BlockInv, [Next]_vars PROVE BlockInv'
  OBVIOUS
<1> USE DEF store, local, tallies
<1>0. TypeOK /\ OnceTypes \subseteq BlockTypes
  BY ConfigAssumption DEF TypeInv, ConfigAssumption
<1>1. ASSUME NEW w \in Workers, Leave(w), UNCHANGED <<row, published>>
      PROVE  BlockInv'
  <2>1. \A t \in BlockTypes : EmptyRow.blk[t] = 0 /\ Zero[t] = 0 /\ published[t] \in Nat
    BY <1>0 DEF EmptyRow, Zero, TypeOK
  <2>2. /\ orm'[w] = EmptyRow /\ counts'[w] = Zero
        /\ \A v \in Workers \ {w} : orm'[v] = orm[v] /\ counts'[v] = counts[v]
    BY <1>0, <1>1 DEF Leave, TypeOK
  <2> QED BY <1>0, <1>1, <2>1, <2>2 DEF BlockInv
<1>2. ASSUME UNCHANGED <<row, published, orm, counts>>
      PROVE  BlockInv'
  BY <1>2 DEF BlockInv
<1>3. ASSUME NEW w \in Workers, NEW k \in Kinds, NEW m \in Narratives \cup {0},
             Begin(w, k, m)
      PROVE  BlockInv'
  <2>1. /\ orm'[w] = row
        /\ \A v \in Workers \ {w} : orm'[v] = orm[v]
        /\ UNCHANGED <<row, published, counts>>
    BY <1>0, <1>3 DEF Begin, TypeOK
  <2> QED BY <1>0, <2>1 DEF BlockInv
<1>4. ASSUME NEW w \in Workers, SaveNarrative(w)
      PROVE  BlockInv'
  <2>1. /\ row'.blk = orm[w].blk /\ orm'[w].blk = orm[w].blk
        /\ \A v \in Workers \ {w} : orm'[v] = orm[v]
        /\ UNCHANGED <<published, counts>>
    BY <1>0, <1>4 DEF SaveNarrative, TypeOK, Row
  <2> QED BY <1>0, <2>1 DEF BlockInv
<1>5. ASSUME NEW w \in Workers, NEW exec \in SUBSET Plugins, NEW blocks \in Batches,
             NEW hasPlayer \in BOOLEAN, RunAgent(w, exec, blocks, hasPlayer)
      PROVE  BlockInv'
  <2>1. /\ counts'[w] = orm[w].blk
        /\ \A v \in Workers \ {w} : counts'[v] = counts[v]
        /\ UNCHANGED <<row, published, orm>>
    BY <1>0, <1>5 DEF RunAgent, TypeOK
  <2> QED BY <1>0, <2>1 DEF BlockInv
<1>6. ASSUME NEW w \in Workers, NEW i \in DOMAIN todo[w], DispatchSucceeds(w, i)
      PROVE  BlockInv'
  <2> DEFINE b == todo[w][i]
  <2>1. b \in BlockTypes
    BY <1>0, PendingEntry DEF TypeOK
  <2>2. /\ counts'[w] = [counts[w] EXCEPT ![b] = @ + 1]
        /\ \A v \in Workers \ {w} : counts'[v] = counts[v]
        /\ UNCHANGED <<row, published, orm>>
    BY <1>0, <1>6 DEF DispatchSucceeds, NextBlock, TypeOK
  <2>3. ~Consumed(w, b)
    BY <1>6 DEF DispatchSucceeds
  <2>4. ASSUME NEW t \in OnceTypes
        PROVE  counts'[w][t] <= 1
    <3>1. counts[w] \in [BlockTypes -> Nat] /\ t \in BlockTypes /\ counts[w][t] <= 1
      BY <1>0 DEF BlockInv, TypeOK
    <3>2. CASE t = b
      BY <2>2, <2>3, <3>1, <3>2 DEF Consumed
    <3>3. CASE t # b
      BY <2>2, <3>1, <3>3
    <3> QED BY <3>2, <3>3
  <2> HIDE DEF b
  <2> QED BY <1>0, <2>2, <2>4 DEF BlockInv
<1>7. ASSUME NEW w \in Workers, CommitTurn(w)
      PROVE  BlockInv'
  <2>1. UNCHANGED <<orm, counts>>
    BY <1>7 DEF CommitTurn
  <2>2. ASSUME NEW t \in BlockTypes
        PROVE  /\ published[t] <= published'[t]
               /\ row'.blk[t] <= published'[t]
    BY <1>0, <1>7, CommitTurnBlocks, BlocksAreNumbers DEF BlockInv
  <2>3. ASSUME NEW t \in BlockTypes, NEW v \in Workers
        PROVE  orm'[v].blk[t] <= published'[t]
    <3>1. /\ orm[v].blk[t] <= published[t] /\ orm'[v] = orm[v]
          /\ orm[v].blk[t] \in Nat /\ published[t] \in Nat /\ published'[t] \in Nat
      BY <1>0, <2>1, BlocksAreNumbers DEF BlockInv, TypeOK
    <3> QED BY <2>2, <3>1
  <2>4. \A t \in OnceTypes : row'.blk[t] <= 1
    BY <1>0, <1>7, CommitTurnBlocks DEF BlockInv
  <2> QED BY <1>0, <2>1, <2>2, <2>3, <2>4 DEF BlockInv
<1> QED
  BY <1>1, <1>2, <1>3, <1>4, <1>5, <1>6, <1>7
     DEF Next, Step, NarrativeFails, NarrativeArrives, SaveUserMessage, SkipBlock,
         DispatchFails, NextBlock, SendBlocks, EndTurn, Abort, vars

\* However turns overlap, the block counters never exceed the committed
\* dispatches and count a once-per-session type once.
THEOREM BlockCountsNeverAhead == Spec => []BlockCountsBounded
<1>1. Init => TypeInv /\ BlockInv
  BY InitTypeInv, InitBlockInv
<1>2. TypeInv /\ BlockInv /\ [Next]_vars => (TypeInv /\ BlockInv)'
  BY NextTypeInv, NextBlockInv DEF TypeInv
<1>3. BlockInv => BlockCountsBounded
  BY DEF BlockInv, BlockCountsBounded
<1> QED BY <1>1, <1>2, <1>3, PTL DEF Spec

\* A turn counts the executions it saw in its copy and its own, all of which
\* have happened; before the plugins run it has none of its own.
ExecInv ==
    /\ \A p \in Plugins : row.plug[p] <= ran[p]
    /\ \A w \in Workers, p \in Plugins :
          /\ orm[w].plug[p] <= ran[p]
          /\ p \in executed[w] => orm[w].plug[p] + 1 <= ran[p]
    /\ \A w \in Workers :
          pc[w] \notin {"dispatch", "commit", "finalize"} => executed[w] = {}

LEMMA ExecutionsAreNumbers ==
    ASSUME TypeOK, NEW p \in Plugins
    PROVE  /\ row.plug[p] \in Nat /\ ran[p] \in Nat
           /\ \A w \in Workers : orm[w].plug[p] \in Nat
BY DEF TypeOK, Row

LEMMA AdvanceCountsExecuted ==
    ASSUME TypeOK, NEW w \in Workers, NEW p \in Plugins
    PROVE  Advance(w).plug[p] =
               IF p \in executed[w] THEN orm[w].plug[p] + 1 ELSE orm[w].plug[p]
<1>1. orm[w] \in Row
  BY DEF TypeOK
<1>2. Advance(w).plug = [q \in Plugins |->
                           IF q \in executed[w] THEN orm[w].plug[q] + 1 ELSE orm[w].plug[q]]
  BY <1>1 DEF Advance, Row
<1> QED BY <1>2

LEMMA InitExecInv == Init => ExecInv
BY DEF Init, ExecInv, EmptyRow

LEMMA NextExecInv == TypeOK /\ TypeOK' /\ ExecInv /\ [Next]_vars => ExecInv'
<1> SUFFICES ASSUME TypeOK, TypeOK', ExecInv, [Next]_vars PROVE ExecInv'
  OBVIOUS
<1> USE DEF store, local, tallies
\* Executions can only be added to the history.
<1>0. \A p \in Plugins : row.plug[p] \in Nat /\ ran[p] \in Nat /\ ran'[p] \in Nat
  BY ExecutionsAreNumbers DEF TypeOK
<1>1. ASSUME NEW w \in Workers, Leave(w), row' = row,
             \A p \in Plugins : ran[p] <= ran'[p]
      PROVE  ExecInv'
  <2>1. /\ orm'[w] = EmptyRow /\ executed'[w] = {}
        /\ \A v \in Workers \ {w} :
              orm'[v] = orm[v] /\ executed'[v] = executed[v] /\ pc'[v] = pc[v]
    BY <1>1 DEF Leave, TypeOK
  <2>2. \A p \in Plugins : EmptyRow.plug[p] = 0
    BY DEF EmptyRow
  <2> QED BY <1>0, <1>1, <2>1, <2>2, ExecutionsAreNumbers DEF ExecInv
<1>2. ASSUME UNCHANGED <<row, orm, executed, ran, pc>>
      PROVE  ExecInv'
  BY <1>2 DEF ExecInv
<1>3. ASSUME NEW w \in Workers, NEW k \in Kinds, NEW m \in Narratives \cup {0},
             Begin(w, k, m)
      PROVE  ExecInv'
  <2>1. /\ orm'[w] = row /\ executed[w] = {}
        /\ \A v \in Workers \ {w} : orm'[v] = orm[v] /\ pc'[v] = pc[v]
        /\ UNCHANGED <<row, ran, executed>>
    BY <1>3 DEF Begin, TypeOK, ExecInv
  <2> QED BY <1>3, <2>1 DEF ExecInv
<1>4. ASSUME NEW w \in Workers,
             pc[w] \in {"loaded", "ask", "save"}, executed' = executed, ran' = ran,
             \A p \in Plugins : row'.plug[p] \in {row.plug[p], orm[w].plug[p]},
             \A p \in Plugins : orm'[w].plug[p] = orm[w].plug[p],
             \A v \in Workers \ {w} : orm'[v] = orm[v] /\ pc'[v] = pc[v]
      PROVE  ExecInv'
  <2>1. executed[w] = {}
    BY <1>4 DEF ExecInv
  <2>2. \A p \in Plugins : row'.plug[p] <= ran[p]
    BY <1>4 DEF ExecInv
  <2>3. \A v \in Workers, p \in Plugins :
           orm'[v].plug[p] = orm[v].plug[p]
    BY <1>4
  <2> QED BY <1>4, <2>1, <2>2, <2>3 DEF ExecInv
<1>5. ASSUME NEW w \in Workers, NEW exec \in SUBSET Plugins, NEW blocks \in Batches,
             NEW hasPlayer \in BOOLEAN, RunAgent(w, exec, blocks, hasPlayer)
      PROVE  ExecInv'
  <2>1. /\ executed'[w] = exec /\ pc'[w] = "dispatch"
        /\ \A v \in Workers \ {w} : executed'[v] = executed[v] /\ pc'[v] = pc[v]
        /\ UNCHANGED <<row, orm>>
    BY <1>5 DEF RunAgent, TypeOK
  <2>2. \A p \in Plugins : ran'[p] = IF p \in exec THEN ran[p] + 1 ELSE ran[p]
    BY <1>5 DEF RunAgent
  <2> QED BY <1>0, <2>1, <2>2, ExecutionsAreNumbers DEF ExecInv
<1>6. ASSUME NEW w \in Workers, SendBlocks(w)
      PROVE  ExecInv'
  BY <1>6 DEF SendBlocks, ExecInv, TypeOK
<1>7. ASSUME NEW w \in Workers, CommitTurn(w)
      PROVE  ExecInv'
  <2>1. \A p \in Plugins : row'.plug[p] <= ran[p]
    BY <1>7, AdvanceCountsExecuted DEF CommitTurn, ExecInv
  <2> QED BY <1>7, <2>1 DEF CommitTurn, ExecInv, TypeOK
<1>8. ASSUME NEW w \in Workers, SaveNarrative(w)
      PROVE  ExecInv'
  <2>1. /\ row'.plug = orm[w].plug /\ orm'[w].plug = orm[w].plug
        /\ \A v \in Workers \ {w} : orm'[v] = orm[v] /\ pc'[v] = pc[v]
        /\ pc[w] = "save" /\ UNCHANGED <<executed, ran>>
    BY <1>8 DEF SaveNarrative, TypeOK, Row
  <2> QED BY <1>4, <2>1
<1>9. ASSUME NEW w \in Workers, SaveUserMessage(w)
      PROVE  ExecInv'
  BY <1>4, <1>9 DEF SaveUserMessage, TypeOK
<1>10. ASSUME NEW w \in Workers, NEW blank \in BOOLEAN, NarrativeArrives(w, blank)
       PROVE  ExecInv'
  BY <1>4, <1>10 DEF NarrativeArrives, TypeOK
<1>11. ASSUME NEW w \in Workers, NEW exec \in SUBSET Plugins, Abort(w, exec)
       PROVE  ExecInv'
  BY <1>0, <1>1, <1>11 DEF Abort
<1>12. ASSUME NEW w \in Workers, NarrativeFails(w) \/ EndTurn(w)
       PROVE  ExecInv'
  BY <1>0, <1>1, <1>12 DEF NarrativeFails, EndTurn
<1> QED
  BY <1>2, <1>3, <1>5, <1>6, <1>7, <1>8, <1>9, <1>10, <1>11, <1>12
     DEF Next, Step, SkipBlock, DispatchFails, DispatchSucceeds, NextBlock, vars

\* However turns overlap and wherever they are cut off, no plugin is counted
\* as executed more often than it has been.
THEOREM ExecutionCountsNeverAhead == Spec => []ExecutionCountsBounded
<1>1. Init => TypeInv /\ ExecInv
  BY InitTypeInv, InitExecInv
<1>2. TypeInv /\ ExecInv /\ [Next]_vars => (TypeInv /\ ExecInv)'
  BY NextTypeInv, NextExecInv DEF TypeInv
<1>3. ExecInv => ExecutionCountsBounded
  BY DEF ExecInv, ExecutionCountsBounded
<1> QED BY <1>1, <1>2, <1>3, PTL DEF Spec

-----------------------------------------------------------------------------
(* Commands handled one at a time: a single worker u                       *)

\* Until it commits, the turn's copy is the committed row, so what the turn
\* adds to its copy is what the ledger gains.
SerialInv(u) ==
    /\ row.turns = Cardinality(Narratives)
    /\ \A t \in BlockTypes : row.blk[t] = published[t]
    /\ pc[u] \in {"loaded", "ask", "save", "agent", "dispatch", "commit"} => orm[u] = row

LEMMA InitSerialInv ==
    ASSUME NEW u, Workers = {u}
    PROVE  Init => SerialInv(u)
<1> SUFFICES ASSUME Init PROVE SerialInv(u)
  OBVIOUS
<1>1. Narratives = {}
  BY DEF Init, Narratives
<1>2. Cardinality(Narratives) = 0
  BY <1>1, FS_EmptySet
<1> QED BY <1>2 DEF Init, SerialInv, EmptyRow

\* Every step of a single worker is a step of the ledger or invisible to it.
LEMMA SerialStep ==
    ASSUME NEW u, Workers = {u},
           TypeInv, TypeOK', BlockInv', SerialInv(u), [Next]_vars
    PROVE  SerialInv(u)' /\ [Ledger!Next]_(Ledger!ledgerVars)
<1> USE DEF store, local, tallies
<1>0. TypeOK /\ u \in Workers
  BY DEF TypeInv
<1> DEFINE Goal == SerialInv(u)' /\ [Ledger!Next]_(Ledger!ledgerVars)
<1>1. ASSUME UNCHANGED <<row, published, Narratives>>,
             \/ pc'[u] \in {"idle", "finalize"}
             \/ /\ pc[u] \in {"loaded", "ask", "save", "agent", "dispatch", "commit"}
                /\ orm'[u] = orm[u]
             \/ orm'[u] = row
      PROVE  Goal
  BY <1>1 DEF SerialInv, Ledger!ledgerVars
<1>2. ASSUME SaveNarrative(u)
      PROVE  Goal
  <2>1. orm[u] = row /\ row \in Row
    BY <1>0, <1>2 DEF SaveNarrative, SerialInv, TypeOK
  <2>2. /\ row' = [row EXCEPT !.turns = @ + 1] /\ orm'[u] = row'
        /\ UNCHANGED published
    BY <1>0, <1>2, <2>1 DEF SaveNarrative, TypeOK
  <2>3. row'.turns = row.turns + 1 /\ row'.blk = row.blk
    BY <2>1, <2>2 DEF Row
  <2>4. Cardinality(Narratives') = Cardinality(Narratives) + 1
    BY <1>0, <1>2, SaveNarrativeNarratives
  <2>5. SerialInv(u)'
    BY <2>2, <2>3, <2>4 DEF SerialInv
  <2>6. Ledger!Narrate
    BY <2>2, <2>3, <2>4 DEF Ledger!Narrate
  <2> QED BY <2>5, <2>6 DEF Ledger!Next
<1>3. ASSUME CommitTurn(u)
      PROVE  Goal
  <2>1. orm[u] = row /\ pc'[u] = "finalize"
    BY <1>0, <1>3 DEF CommitTurn, SerialInv, TypeOK
  <2>2. Narratives' = Narratives
    BY <1>0, <1>3, CommitTurnNarratives
  <2>3. row'.turns = row.turns
    BY <1>0, <1>3, <2>1, AdvanceKeepsTurns DEF CommitTurn
  <2>4. row'.blk = counts[u]
    BY <1>0, <1>3, <2>1, AdvanceStoresCounts DEF CommitTurn
  <2>5. ASSUME NEW t \in BlockTypes
        PROVE  row'.blk[t] = published'[t] /\ published[t] <= published'[t]
    <3>1. /\ published'[t] = published[t] + (counts[u][t] - orm[u].blk[t])
          /\ orm[u].blk[t] <= counts[u][t]
      BY <1>0, <1>3, CommitTurnBlocks
    <3>2. orm[u].blk[t] = published[t]
      BY <2>1 DEF SerialInv
    <3>3. published[t] \in Nat /\ counts[u][t] \in Nat
      BY <1>0, BlocksAreNumbers
    <3> QED BY <2>4, <3>1, <3>2, <3>3
  <2>6. SerialInv(u)'
    BY <2>1, <2>2, <2>3, <2>5 DEF SerialInv
  <2>7. \A t \in OnceTypes : published'[t] <= 1
    BY <2>5, ConfigAssumption DEF BlockInv, ConfigAssumption
  <2>8. Ledger!Publish
    BY <2>2, <2>3, <2>5, <2>7 DEF Ledger!Publish, TypeOK
  <2> QED BY <2>6, <2>8 DEF Ledger!Next
<1>4. ASSUME SaveUserMessage(u)
      PROVE  Goal
  <2>1. Narratives' = Narratives
    BY <1>0, <1>4, SaveUserMessageNarratives
  <2> QED BY <1>1, <1>4, <2>1 DEF SaveUserMessage
<1>5. CASE UNCHANGED msgs /\ \E w \in Workers : NarrativeFails(w) \/ EndTurn(w)
  BY <1>0, <1>1, <1>5 DEF NarrativeFails, EndTurn, Leave, Narratives, TypeOK
<1>6. ASSUME NEW exec \in SUBSET Plugins, Abort(u, exec)
      PROVE  Goal
  BY <1>0, <1>1, <1>6 DEF Abort, Leave, Narratives, TypeOK
<1>7. ASSUME NEW k \in Kinds, NEW m \in Narratives \cup {0}, Begin(u, k, m)
      PROVE  Goal
  BY <1>0, <1>1, <1>7 DEF Begin, Narratives, TypeOK
<1>8. ASSUME UNCHANGED <<row, msgs, published, orm>>,
             pc[u] \in {"loaded", "ask", "save", "agent", "dispatch", "commit"}
      PROVE  Goal
  BY <1>1, <1>8 DEF Narratives
<1>9. ASSUME UNCHANGED vars
      PROVE  Goal
  BY <1>9 DEF vars, SerialInv, Narratives, Ledger!ledgerVars
<1>10. ASSUME Step(u)
       PROVE  Goal
  <2>1. CASE SaveUserMessage(u) \/ SaveNarrative(u) \/ CommitTurn(u)
    BY <1>2, <1>3, <1>4, <2>1
  <2>2. CASE NarrativeFails(u) \/ EndTurn(u)
    BY <1>0, <1>5, <2>2 DEF NarrativeFails, EndTurn
  <2>3. CASE \E blank \in BOOLEAN : NarrativeArrives(u, blank)
    BY <1>8, <2>3 DEF NarrativeArrives
  <2>4. CASE \E exec \in SUBSET Plugins, blocks \in Batches, hasPlayer \in BOOLEAN :
                RunAgent(u, exec, blocks, hasPlayer)
    BY <1>8, <2>4 DEF RunAgent
  <2>5. CASE \E i \in DOMAIN todo[u] : SkipBlock(u, i) \/ DispatchSucceeds(u, i)
    BY <1>8, <2>5 DEF SkipBlock, DispatchSucceeds, NextBlock
  <2>6. CASE \E i \in DOMAIN todo[u], flushed \in BOOLEAN : DispatchFails(u, i, flushed)
    BY <1>8, <2>6 DEF DispatchFails, NextBlock
  <2>7. CASE SendBlocks(u)
    BY <1>8, <2>7 DEF SendBlocks
  <2> HIDE DEF Goal
  <2> QED BY <1>10, <2>1, <2>2, <2>3, <2>4, <2>5, <2>6, <2>7 DEF Step
<1> HIDE DEF Goal
<1>11. Goal
  BY <1>6, <1>7, <1>9, <1>10 DEF Next
<1> QED BY <1>11 DEF Goal

\* A single worker's pipeline implements the ledger: every narrative stored
\* is counted, every committed dispatch is counted, and a once-per-session
\* block is dispatched at most once.
THEOREM SerialKeepsLedger ==
    ASSUME NEW u, Workers = {u}
    PROVE  Spec => LedgerKept
<1> DEFINE Inv == TypeInv /\ BlockInv /\ SerialInv(u)
<1>1. Init => Inv
  BY InitTypeInv, InitBlockInv, InitSerialInv
<1>2. Inv /\ [Next]_vars => Inv' /\ [Ledger!Next]_(Ledger!ledgerVars)
  BY NextTypeInv, NextBlockInv, SerialStep DEF TypeInv
<1>3. Init => Ledger!Init
  <2> SUFFICES ASSUME Init PROVE Ledger!Init
    OBVIOUS
  <2>1. Inv
    BY <1>1
  <2> QED BY <2>1 DEF Init, Ledger!Init, SerialInv, EmptyRow, Zero
<1> QED BY <1>1, <1>2, <1>3, PTL DEF Spec, LedgerKept, Ledger!Spec

\* Executions of p that the turn of u has made and not yet committed.
Uncounted(u, p) ==
    IF pc[u] \in {"dispatch", "commit"} /\ p \in executed[u] THEN 1 ELSE 0

\* Every execution is in the committed counter, in the turn that is running,
\* or was lost with a turn that was cut off.
LimitInv(u) ==
    \A p \in DOMAIN MaxTriggers :
        /\ ran[p] <= row.plug[p] + Uncounted(u, p) + aborts
        /\ row.plug[p] + Uncounted(u, p) <= MaxTriggers[p]

LEMMA NextLimitInv ==
    ASSUME NEW u, Workers = {u},
           TypeInv, TypeOK', SerialInv(u), LimitInv(u), [Next]_vars
    PROVE  LimitInv(u)'
<1> USE DEF store, local, tallies
<1>0. /\ TypeOK /\ u \in Workers
      /\ DOMAIN MaxTriggers \subseteq Plugins
      /\ \A p \in DOMAIN MaxTriggers : MaxTriggers[p] \in Nat
      /\ aborts \in Nat /\ aborts' \in Nat
      /\ \A p \in Plugins : row.plug[p] \in Nat /\ ran[p] \in Nat /\ ran'[p] \in Nat
      /\ \A p \in Plugins : Uncounted(u, p) \in {0, 1}
  BY ConfigAssumption, ExecutionsAreNumbers DEF TypeInv, ConfigAssumption, TypeOK, Uncounted
<1>1. ASSUME UNCHANGED <<row, ran, aborts>>,
             \A p \in Plugins : Uncounted(u, p)' = Uncounted(u, p)
      PROVE  LimitInv(u)'
  BY <1>0, <1>1 DEF LimitInv
<1>2. ASSUME SaveNarrative(u)
      PROVE  LimitInv(u)'
  <2>1. orm[u] = row /\ row \in Row
    BY <1>0, <1>2 DEF SaveNarrative, SerialInv, TypeOK
  <2>2. row'.plug = row.plug
    BY <1>2, <2>1 DEF SaveNarrative, Row
  <2>3. \A p \in Plugins : Uncounted(u, p)' = 0 /\ Uncounted(u, p) = 0
    BY <1>0, <1>2 DEF SaveNarrative, Uncounted, TypeOK
  <2> QED BY <1>0, <1>2, <2>2, <2>3 DEF SaveNarrative, LimitInv
<1>3. ASSUME NEW exec \in SUBSET Plugins, NEW blocks \in Batches,
             NEW hasPlayer \in BOOLEAN, RunAgent(u, exec, blocks, hasPlayer)
      PROVE  LimitInv(u)'
  <2>1. orm[u] = row
    BY <1>3 DEF RunAgent, SerialInv
  <2>2. \A p \in exec \cap DOMAIN MaxTriggers : row.plug[p] < MaxTriggers[p]
    BY <1>3, <2>1 DEF RunAgent, BelowLimit
  <2>3. \A p \in Plugins : /\ Uncounted(u, p) = 0
                           /\ Uncounted(u, p)' = IF p \in exec THEN 1 ELSE 0
                           /\ ran'[p] = IF p \in exec THEN ran[p] + 1 ELSE ran[p]
    BY <1>0, <1>3 DEF RunAgent, Uncounted, TypeOK
  <2>4. UNCHANGED <<row, aborts>>
    BY <1>3 DEF RunAgent
  <2> QED BY <1>0, <2>2, <2>3, <2>4 DEF LimitInv
<1>4. ASSUME CommitTurn(u)
      PROVE  LimitInv(u)'
  <2>1. orm[u] = row
    BY <1>4 DEF CommitTurn, SerialInv
  <2>2. \A p \in Plugins : row'.plug[p] = row.plug[p] + Uncounted(u, p)
    BY <1>0, <1>4, <2>1, AdvanceCountsExecuted DEF CommitTurn, Uncounted
  <2>3. \A p \in Plugins : Uncounted(u, p)' = 0
    BY <1>0, <1>4 DEF CommitTurn, Uncounted, TypeOK
  <2>4. UNCHANGED <<ran, aborts>>
    BY <1>4 DEF CommitTurn
  <2> QED BY <1>0, <2>2, <2>3, <2>4 DEF LimitInv
<1>5. ASSUME NEW exec \in SUBSET Plugins, Abort(u, exec)
      PROVE  LimitInv(u)'
  <2>1. \A p \in Plugins :
           /\ Uncounted(u, p)' = 0
           /\ ran'[p] = ran[p] \/ (ran'[p] = ran[p] + 1 /\ Uncounted(u, p) = 0)
    BY <1>0, <1>5 DEF Abort, Leave, Uncounted, TypeOK
  <2>2. aborts' = aborts + 1 /\ row' = row
    BY <1>5 DEF Abort
  <2> QED BY <1>0, <2>1, <2>2 DEF LimitInv
<1>6. ASSUME NEW k \in Kinds, NEW m \in Narratives \cup {0}, Begin(u, k, m)
      PROVE  LimitInv(u)'
  BY <1>0, <1>1, <1>6 DEF Begin, Uncounted, Kinds, TypeOK
<1>7. ASSUME Step(u)
      PROVE  LimitInv(u)'
  <2>1. CASE NarrativeFails(u) \/ EndTurn(u)
    BY <1>0, <1>1, <2>1 DEF NarrativeFails, EndTurn, Leave, Uncounted, TypeOK
  <2>2. CASE SaveUserMessage(u) \/ \E blank \in BOOLEAN : NarrativeArrives(u, blank)
    BY <1>0, <1>1, <2>2 DEF SaveUserMessage, NarrativeArrives, Uncounted, TypeOK
  <2>3. CASE \E i \in DOMAIN todo[u] : SkipBlock(u, i) \/ DispatchSucceeds(u, i)
    BY <1>0, <1>1, <2>3 DEF SkipBlock, DispatchSucceeds, NextBlock, Uncounted
  <2>4. CASE \E i \in DOMAIN todo[u], flushed \in BOOLEAN : DispatchFails(u, i, flushed)
    BY <1>0, <1>1, <2>4 DEF DispatchFails, NextBlock, Uncounted
  <2>5. CASE SendBlocks(u)
    BY <1>0, <1>1, <2>5 DEF SendBlocks, Uncounted, TypeOK
  <2> QED BY <1>2, <1>3, <1>4, <1>7, <2>1, <2>2, <2>3, <2>4, <2>5 DEF Step
<1>8. ASSUME UNCHANGED vars
      PROVE  LimitInv(u)'
  BY <1>1, <1>8 DEF vars, Uncounted
<1> QED BY <1>5, <1>6, <1>7, <1>8 DEF Next

\* A single worker's pipeline executes a plugin that declares max_triggers no
\* more often than that, but for one execution per turn that was cut off.
THEOREM SerialTriggerLimit ==
    ASSUME NEW u, Workers = {u}
    PROVE  Spec => []TriggerLimit
<1> DEFINE Inv == TypeInv /\ BlockInv /\ SerialInv(u) /\ LimitInv(u)
<1>1. Init => Inv
  <2>1. Init => LimitInv(u)
    BY ConfigAssumption DEF Init, LimitInv, Uncounted, EmptyRow, ConfigAssumption
  <2> QED BY <2>1, InitTypeInv, InitBlockInv, InitSerialInv
<1>2. Inv /\ [Next]_vars => Inv'
  BY NextTypeInv, NextBlockInv, SerialStep, NextLimitInv DEF TypeInv
<1>3. Inv => TriggerLimit
  <2> SUFFICES ASSUME Inv, NEW p \in DOMAIN MaxTriggers
               PROVE  ran[p] <= MaxTriggers[p] + aborts
    BY DEF TriggerLimit
  <2>1. /\ row.plug[p] \in Nat /\ ran[p] \in Nat /\ aborts \in Nat
        /\ MaxTriggers[p] \in Nat /\ Uncounted(u, p) \in Nat
    BY ConfigAssumption, ExecutionsAreNumbers
       DEF TypeInv, TypeOK, ConfigAssumption, Uncounted
  <2> QED BY <2>1 DEF LimitInv
<1> QED BY <1>1, <1>2, <1>3, PTL DEF Spec

-----------------------------------------------------------------------------
(* What the player has seen is what is stored                              *)

\* The block types the turn of u has dispatched.
Dispatched(u) == {t \in BlockTypes : counts[u][t] > orm[u].blk[t]}

\* A turn collects exactly what it dispatches, for a message that has no
\* blocks before the turn commits.
ShownInv(u) ==
    /\ pc[u] \notin {"dispatch", "commit", "finalize"} => saved[u] = {}
    /\ pc[u] \in {"dispatch", "commit"} => saved[u] = Dispatched(u) \ InfraTypes
    /\ kind[u] = "message" /\ pc[u] = "commit" => shown[u] = Dispatched(u)
    /\ kind[u] = "message" /\ target[u] # 0 =>
          /\ target[u] \in DOMAIN msgs
          /\ pc[u] # "finalize" => msgs[target[u]].blocks = {}
          /\ pc[u] = "finalize" => shown[u] \ InfraTypes = msgs[target[u]].blocks

LEMMA NextShownInv ==
    ASSUME NEW u, Workers = {u}, TypeInv, ShownInv(u), [Next]_vars
    PROVE  ShownInv(u)'
<1> USE DEF store, local, tallies
<1>0. TypeOK /\ u \in Workers
  BY DEF TypeInv
<1>1. ASSUME NEW k \in Kinds, NEW m \in Narratives \cup {0}, Begin(u, k, m)
      PROVE  ShownInv(u)'
  <2>1. kind'[u] = k /\ target'[u] = m /\ (k = "message" => m = 0)
    BY <1>0, <1>1 DEF Begin, TypeOK
  <2>2. pc'[u] \in {"loaded", "ask", "agent"} /\ saved'[u] = {}
    BY <1>0, <1>1 DEF Begin, TypeOK, Kinds, ShownInv
  <2> QED BY <2>1, <2>2 DEF ShownInv
<1>2. ASSUME SaveUserMessage(u)
      PROVE  ShownInv(u)'
  <2>1. /\ pc[u] = "loaded" /\ pc'[u] = "ask" /\ UNCHANGED <<saved, kind, target>>
        /\ msgs' = Append(msgs, [role |-> "user", blocks |-> {}]) /\ msgs \in Seq(Message)
    BY <1>0, <1>2 DEF SaveUserMessage, TypeOK
  <2>2. \A i \in DOMAIN msgs : i \in DOMAIN msgs' /\ msgs'[i] = msgs[i]
    BY <2>1
  <2> QED BY <2>1, <2>2 DEF ShownInv
<1>3. ASSUME NEW blank \in BOOLEAN, NarrativeArrives(u, blank)
      PROVE  ShownInv(u)'
  <2>1. pc[u] = "ask" /\ pc'[u] \in {"save", "agent"}
        /\ UNCHANGED <<saved, kind, target, msgs>>
    BY <1>0, <1>3 DEF NarrativeArrives, TypeOK
  <2> QED BY <2>1 DEF ShownInv
<1>4. ASSUME SaveNarrative(u)
      PROVE  ShownInv(u)'
  <2>1. /\ pc[u] = "save" /\ pc'[u] = "agent" /\ saved' = saved
        /\ target'[u] = Len(msgs) + 1 /\ msgs \in Seq(Message)
        /\ msgs' = Append(msgs, [role |-> "assistant", blocks |-> {}])
    BY <1>0, <1>4 DEF SaveNarrative, TypeOK
  <2>2. target'[u] \in DOMAIN msgs' /\ msgs'[target'[u]].blocks = {}
    BY <2>1
  <2> QED BY <2>1, <2>2 DEF ShownInv
<1>5. ASSUME NEW exec \in SUBSET Plugins, NEW blocks \in Batches,
             NEW hasPlayer \in BOOLEAN, RunAgent(u, exec, blocks, hasPlayer)
      PROVE  ShownInv(u)'
  <2>1. /\ pc[u] = "agent" /\ pc'[u] = "dispatch" /\ counts'[u] = orm[u].blk
        /\ UNCHANGED <<saved, kind, target, msgs, orm, shown>>
    BY <1>0, <1>5 DEF RunAgent, TypeOK
  <2>2. Dispatched(u)' = {}
    <3>1. \A t \in BlockTypes : orm[u].blk[t] \in Nat
      BY <1>0 DEF TypeOK, Row
    <3> QED BY <2>1, <3>1 DEF Dispatched
  <2> QED BY <2>1, <2>2 DEF ShownInv
<1>6. ASSUME NEW i \in DOMAIN todo[u],
             \/ SkipBlock(u, i)
             \/ \E flushed \in BOOLEAN : DispatchFails(u, i, flushed)
      PROVE  ShownInv(u)'
  <2>1. pc[u] = "dispatch" /\ UNCHANGED <<pc, saved, kind, target, msgs, orm, shown, counts>>
    BY <1>6 DEF SkipBlock, DispatchFails, NextBlock
  <2> QED BY <2>1 DEF ShownInv, Dispatched
<1>7. ASSUME NEW i \in DOMAIN todo[u], DispatchSucceeds(u, i)
      PROVE  ShownInv(u)'
  <2> DEFINE t == todo[u][i]
  <2>1. /\ pc[u] = "dispatch" /\ UNCHANGED <<pc, kind, target, msgs, orm, shown>>
        /\ counts' = [counts EXCEPT ![u][t] = @ + 1]
        /\ saved' = [saved EXCEPT ![u] = IF t \in InfraTypes THEN @ ELSE @ \cup {t}]
    BY <1>7 DEF DispatchSucceeds, NextBlock
  <2>2. t \in BlockTypes
    BY <1>0, PendingEntry DEF TypeOK
  <2> HIDE DEF t
  <2>3. saved'[u] = IF t \in InfraTypes THEN saved[u] ELSE saved[u] \cup {t}
    BY <1>0, <2>1 DEF TypeOK
  <2>4. \A b \in BlockTypes : counts'[u][b] = IF b = t THEN counts[u][b] + 1 ELSE counts[u][b]
    BY <1>0, <2>1 DEF TypeOK
  <2>5. \A b \in BlockTypes : /\ counts[u][b] \in Nat /\ orm[u].blk[b] \in Nat
                              /\ orm[u].blk[b] <= counts[u][b]
    BY <1>0, <2>1 DEF TypeInv, TypeOK, Row, CountsAhead
  <2>6. \A b \in BlockTypes : counts'[u][b] > orm'[u].blk[b] <=>
                                 (b = t \/ counts[u][b] > orm[u].blk[b])
    BY <2>1, <2>4, <2>5
  <2>7. Dispatched(u)' = Dispatched(u) \cup {t}
    BY <2>2, <2>6 DEF Dispatched
  <2>8. saved[u] = Dispatched(u) \ InfraTypes
    BY <2>1 DEF ShownInv
  <2>9. saved'[u] = Dispatched(u)' \ InfraTypes
    BY <2>3, <2>7, <2>8
  <2> QED BY <2>1, <2>9 DEF ShownInv
<1>8. ASSUME SendBlocks(u)
      PROVE  ShownInv(u)'
  <2>1. /\ pc[u] = "dispatch" /\ pc'[u] = "commit"
        /\ UNCHANGED <<saved, kind, target, msgs, orm, counts>>
        /\ kind[u] = "message" => shown'[u] = Dispatched(u)
    BY <1>0, <1>8 DEF SendBlocks, TypeOK, Dispatched
  <2>2. Dispatched(u)' = Dispatched(u)
    BY <2>1 DEF Dispatched
  <2> QED BY <2>1, <2>2 DEF ShownInv
<1>9. ASSUME CommitTurn(u)
      PROVE  ShownInv(u)'
  <2>1. /\ pc[u] = "commit" /\ pc'[u] = "finalize"
        /\ UNCHANGED <<saved, kind, target, shown>>
        /\ msgs' = IF target[u] # 0 /\ saved[u] # {}
                   THEN [msgs EXCEPT ![target[u]].blocks = saved[u]] ELSE msgs
    BY <1>0, <1>9 DEF CommitTurn, TypeOK
  <2>2. ASSUME kind[u] = "message", target[u] # 0
        PROVE  target[u] \in DOMAIN msgs' /\ msgs'[target[u]].blocks = shown[u] \ InfraTypes
    <3>1. /\ target[u] \in DOMAIN msgs /\ msgs[target[u]].blocks = {}
          /\ shown[u] \ InfraTypes = saved[u]
      BY <2>1, <2>2 DEF ShownInv
    <3>2. msgs[target[u]] \in Message
      BY <1>0, <3>1 DEF TypeOK
    <3>3. CASE saved[u] = {}
      BY <2>1, <3>1, <3>3
    <3>4. CASE saved[u] # {}
      <4>1. msgs' = [msgs EXCEPT ![target[u]] =
                        [msgs[target[u]] EXCEPT !.blocks = saved[u]]]
        BY <2>1, <2>2, <3>4
      <4> QED BY <1>0, <3>1, <3>2, <4>1 DEF TypeOK, Message
    <3> QED BY <3>3, <3>4
  <2> QED BY <2>1, <2>2 DEF ShownInv
<1>10. ASSUME \/ NarrativeFails(u) \/ EndTurn(u)
              \/ \E exec \in SUBSET Plugins : Abort(u, exec)
       PROVE  ShownInv(u)'
  <2>1. pc'[u] = "idle" /\ target'[u] = 0 /\ saved'[u] = {}
    BY <1>0, <1>10 DEF NarrativeFails, EndTurn, Abort, Leave, TypeOK
  <2> QED BY <2>1 DEF ShownInv
<1>11. ASSUME UNCHANGED vars
       PROVE  ShownInv(u)'
  BY <1>11 DEF vars, ShownInv, Dispatched
<1> QED
  BY <1>1, <1>2, <1>3, <1>4, <1>5, <1>6, <1>7, <1>8, <1>9, <1>10, <1>11 DEF Next, Step

\* When a turn of a single worker that stored its narrative ends, the blocks
\* the player has seen, infrastructure blocks aside, are the metadata of its
\* message.
THEOREM SerialShownStored ==
    ASSUME NEW u, Workers = {u}
    PROVE  Spec => []ShownBlocksStored
<1>1. Init => TypeInv /\ ShownInv(u)
  <2>1. Init => ShownInv(u)
    BY DEF Init, ShownInv
  <2> QED BY <2>1, InitTypeInv
<1>2. TypeInv /\ ShownInv(u) /\ [Next]_vars => (TypeInv /\ ShownInv(u))'
  BY NextTypeInv, NextShownInv
<1>3. ShownInv(u) => ShownBlocksStored
  BY DEF ShownInv, ShownBlocksStored
<1> QED BY <1>1, <1>2, <1>3, PTL DEF Spec
=============================================================================
