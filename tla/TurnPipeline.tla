---------------------------- MODULE TurnPipeline ----------------------------
(***************************************************************************)
(* One game session's turns, as process_message and retrigger_plugins of   *)
(* backend/app/services/chat_service.py run them.                          *)
(*                                                                         *)
(* A worker is whatever executes chat commands one after the other: one    *)
(* WebSocket connection (its receive loop handles a command to the end     *)
(* before it reads the next) or one HTTP client.  Workers share the rows   *)
(* of the database and nothing else; no lock serialises them.  A turn      *)
(* works on the GameSession object its database session loaded first: with *)
(* expire_on_commit=False that object (orm) is never read again, and every *)
(* commit writes its game_state_json column back as a whole.               *)
(*                                                                         *)
(* A worker may be cut off between any two steps (Abort): the client       *)
(* disconnects while events are being sent, a commit fails, the process    *)
(* stops.  What the open transaction holds is then rolled back.            *)
(***************************************************************************)
EXTENDS Naturals, Sequences, FiniteSets

CONSTANTS Workers,      \* connections and HTTP clients on this session
          BlockTypes,   \* the block types the enabled plugins declare
          OnceTypes,    \* of these, trigger mode once_per_session
          InfraTypes,   \* _INFRA_BLOCK_TYPES: executed, not stored
          MultiWrite,   \* types whose handler makes several writes
          SheetType,    \* character_sheet
          GuideTypes,   \* guide, choices, auto_guide
          Plugins,      \* the plugins with the hook of this phase
          MaxTriggers,  \* max_triggers of the plugins that declare one
          MaxBlocks,    \* bound: blocks the plugins of one turn emit
          MaxCommands,  \* bound: commands the clients issue
          MaxAborts     \* bound: turns that are cut off

ASSUME ConfigAssumption ==
    /\ OnceTypes \subseteq BlockTypes
    /\ InfraTypes \subseteq BlockTypes
    /\ MultiWrite \subseteq BlockTypes
    /\ GuideTypes \subseteq BlockTypes
    /\ DOMAIN MaxTriggers \subseteq Plugins
    /\ MaxTriggers \in [DOMAIN MaxTriggers -> Nat]
    /\ MaxBlocks \in Nat
    /\ MaxCommands \in Nat
    /\ MaxAborts \in Nat

VARIABLES
    row,        \* committed game_state_json of the session
    msgs,       \* committed messages, in order of creation
    effects,    \* per block type, handler runs whose writes are committed
    pc,         \* where each worker is in its turn
    kind,       \* the command it executes
    orm,        \* its copy of game_state_json
    target,     \* its message: 0, or the position in msgs
    todo,       \* blocks still to dispatch, by their position
    counts,     \* its block_trigger_counts dict
    wrote,      \* per block type, handler runs with uncommitted writes
    saved,      \* block types going into the message's metadata
    shown,      \* block types sent to the client in this turn
    executed,   \* plugins of this turn's plugins_executed
    ran,        \* history: executions of each plugin
    published,  \* history: committed successful dispatches per block type
    commands,   \* number of commands issued
    aborts      \* number of turns cut off

store   == <<row, msgs, effects, published>>
local   == <<kind, orm, target, todo, counts, wrote, saved, shown, executed>>
tallies == <<ran, commands, aborts>>
vars    == <<store, pc, local, tallies>>

Kinds == {"message", "force", "retrigger"}

\* SessionStateAccessor: the parts of game_state_json the pipeline counts in.
\* token_usage moves with turn_count, in the same assignment.
Row == [turns : Nat, plug : [Plugins -> Nat], blk : [BlockTypes -> Nat]]

Message == [role : {"user", "assistant"}, blocks : SUBSET BlockTypes]

Zero == [t \in BlockTypes |-> 0]

EmptyRow == [turns |-> 0, plug |-> [p \in Plugins |-> 0], blk |-> Zero]

\* The blocks of one turn that are left, by position.
Pending == UNION {[positions -> BlockTypes] : positions \in SUBSET (1..MaxBlocks)}

Labels == {"idle", "loaded", "ask", "save", "agent", "dispatch", "commit", "finalize"}

Narratives == {i \in DOMAIN msgs : msgs[i].role = "assistant"}

Init == /\ row = EmptyRow
        /\ msgs = <<>>
        /\ effects = Zero
        /\ published = Zero
        /\ pc = [w \in Workers |-> "idle"]
        /\ kind = [w \in Workers |-> "message"]
        /\ orm = [w \in Workers |-> EmptyRow]
        /\ target = [w \in Workers |-> 0]
        /\ todo = [w \in Workers |-> <<>>]
        /\ counts = [w \in Workers |-> Zero]
        /\ wrote = [w \in Workers |-> Zero]
        /\ saved = [w \in Workers |-> {}]
        /\ shown = [w \in Workers |-> {}]
        /\ executed = [w \in Workers |-> {}]
        /\ ran = [p \in Plugins |-> 0]
        /\ commands = 0
        /\ aborts = 0

-----------------------------------------------------------------------------
(* The steps of a turn                                                     *)

\* The turn's coroutine is gone: what it held only in memory goes with it.
Leave(w) == /\ pc' = [pc EXCEPT ![w] = "idle"]
            /\ kind' = [kind EXCEPT ![w] = "message"]
            /\ orm' = [orm EXCEPT ![w] = EmptyRow]
            /\ target' = [target EXCEPT ![w] = 0]
            /\ todo' = [todo EXCEPT ![w] = <<>>]
            /\ counts' = [counts EXCEPT ![w] = Zero]
            /\ wrote' = [wrote EXCEPT ![w] = Zero]
            /\ saved' = [saved EXCEPT ![w] = {}]
            /\ shown' = [shown EXCEPT ![w] = {}]
            /\ executed' = [executed EXCEPT ![w] = {}]

\* A command arrives and build_turn_context loads the session row.  A player
\* message is stored first; a forced trigger (save_user_msg=False) is not; a
\* retrigger works on a stored narrative and goes straight to the plugins.
Begin(w, k, m) ==
    /\ pc[w] = "idle"
    /\ commands < MaxCommands
    /\ k = "retrigger" <=> m # 0
    /\ commands' = commands + 1
    /\ kind' = [kind EXCEPT ![w] = k]
    /\ orm' = [orm EXCEPT ![w] = row]
    /\ target' = [target EXCEPT ![w] = m]
    /\ pc' = [pc EXCEPT ![w] = CASE k = "message" -> "loaded"
                                 [] k = "force" -> "ask"
                                 [] k = "retrigger" -> "agent"]
    /\ UNCHANGED <<store, todo, counts, wrote, saved, shown, executed, ran, aborts>>

SaveUserMessage(w) ==
    /\ pc[w] = "loaded"
    /\ msgs' = Append(msgs, [role |-> "user", blocks |-> {}])
    /\ pc' = [pc EXCEPT ![w] = "ask"]
    /\ UNCHANGED <<row, effects, published, local, tallies>>

\* The narrative call raises: an error event ends the turn.
NarrativeFails(w) ==
    /\ pc[w] = "ask"
    /\ Leave(w)
    /\ UNCHANGED <<store, tallies>>

\* The narrative is complete and `done` is sent.  A blank one is not stored,
\* nor is the reply to a forced trigger (save_assistant_msg=False).
NarrativeArrives(w, blank) ==
    /\ pc[w] = "ask"
    /\ pc' = [pc EXCEPT ![w] =
                 IF kind[w] = "message" /\ ~blank THEN "save" ELSE "agent"]
    /\ UNCHANGED <<store, local, tallies>>

\* Message and turn counter go into one commit.
SaveNarrative(w) ==
    LET counted == [orm[w] EXCEPT !.turns = @ + 1] IN
    /\ pc[w] = "save"
    /\ msgs' = Append(msgs, [role |-> "assistant", blocks |-> {}])
    /\ target' = [target EXCEPT ![w] = Len(msgs) + 1]
    /\ orm' = [orm EXCEPT ![w] = counted]
    /\ row' = counted
    /\ pc' = [pc EXCEPT ![w] = "agent"]
    /\ UNCHANGED <<effects, published, kind, todo, counts, wrote, saved, shown,
                   executed, tallies>>

\* Mutant: the limit is passed once too often.
BelowLimit_OffByOne(w) ==
    {p \in Plugins : p \in DOMAIN MaxTriggers => orm[w].plug[p] <= MaxTriggers[p]}

\* run_plugin_agent's max_triggers gate, on the counters of the turn's copy.
BelowLimit(w) ==
    {p \in Plugins : p \in DOMAIN MaxTriggers => orm[w].plug[p] < MaxTriggers[p]}

Batches == UNION {[1..n -> BlockTypes] : n \in 0..MaxBlocks}

\* _filter_plugin_blocks: a character sheet suppresses the guides, and is
\* itself dropped when the session already has a player character.
FilterBlocks(blocks, hasPlayer) ==
    LET sheets == {i \in DOMAIN blocks : blocks[i] = SheetType}
        guides == {i \in DOMAIN blocks : blocks[i] \in GuideTypes}
        dropped == IF sheets = {} THEN {}
                   ELSE IF hasPlayer THEN guides \cup sheets
                   ELSE guides
    IN [i \in DOMAIN blocks \ dropped |-> blocks[i]]

\* Mutant: the plugins that were started are counted, failed ones included.
RunAgent_CountsStarted(w, exec, blocks, hasPlayer) ==
    /\ pc[w] = "agent"
    /\ exec \subseteq BelowLimit(w)
    /\ exec = {} => blocks = <<>>
    /\ executed' = [executed EXCEPT ![w] = BelowLimit(w)]
    /\ ran' = [p \in Plugins |-> IF p \in exec THEN ran[p] + 1 ELSE ran[p]]
    /\ todo' = [todo EXCEPT ![w] = FilterBlocks(blocks, hasPlayer)]
    /\ counts' = [counts EXCEPT ![w] = orm[w].blk]
    /\ pc' = [pc EXCEPT ![w] = "dispatch"]
    /\ UNCHANGED <<store, kind, orm, target, wrote, saved, shown, commands, aborts>>

\* The plugins ran: those below their limit and not held back by hook,
\* interval or manual policy, less those that failed.  Their own writes are
\* committed by their flush, so the executions have happened for good.
RunAgent(w, exec, blocks, hasPlayer) ==
    /\ pc[w] = "agent"
    /\ exec \subseteq BelowLimit(w)
    /\ exec = {} => blocks = <<>>
    /\ executed' = [executed EXCEPT ![w] = exec]
    /\ ran' = [p \in Plugins |-> IF p \in exec THEN ran[p] + 1 ELSE ran[p]]
    /\ todo' = [todo EXCEPT ![w] = FilterBlocks(blocks, hasPlayer)]
    /\ counts' = [counts EXCEPT ![w] = orm[w].blk]
    /\ pc' = [pc EXCEPT ![w] = "dispatch"]
    /\ UNCHANGED <<store, kind, orm, target, wrote, saved, shown, commands, aborts>>

-----------------------------------------------------------------------------
(* _dispatch_blocks_stage, one block at a time                             *)

NextBlock(w, i) ==
    /\ pc[w] = "dispatch"
    /\ \A j \in DOMAIN todo[w] : i <= j
    /\ todo' = [todo EXCEPT ![w] = [j \in DOMAIN @ \ {i} |-> @[j]]]
    /\ UNCHANGED <<store, pc, kind, orm, target, shown, executed, tallies>>

\* Mutant: once per turn instead of once per session.
Consumed_ThisTurn(w, t) == t \in OnceTypes /\ counts[w][t] > orm[w].blk[t]

Consumed(w, t) == t \in OnceTypes /\ counts[w][t] > 0

\* Mutant: the loop does not go on to the next block.
SkipBlock_Stuck(w, i) == pc[w] = "dispatch" /\ UNCHANGED vars

\* Already dispatched in this session, or invalid by its declared schema.
SkipBlock(w, i) ==
    /\ NextBlock(w, i)
    /\ UNCHANGED <<counts, wrote, saved>>

\* Mutant: a block is collected before its handler has succeeded.
DispatchFails_Collects(w, i, flushed) ==
    /\ NextBlock(w, i)
    /\ LET t == todo[w][i] IN
       /\ ~Consumed(w, t)
       /\ flushed => t \in MultiWrite
       /\ wrote' = [wrote EXCEPT ![w][t] = IF flushed THEN @ + 1 ELSE @]
       /\ saved' = [saved EXCEPT ![w] = @ \cup ({t} \ InfraTypes)]
    /\ UNCHANGED counts

\* The handler raises; what it flushed before stays in the transaction.
DispatchFails(w, i, flushed) ==
    /\ NextBlock(w, i)
    /\ LET t == todo[w][i] IN
       /\ ~Consumed(w, t)
       /\ flushed => t \in MultiWrite
       /\ wrote' = [wrote EXCEPT ![w][t] = IF flushed THEN @ + 1 ELSE @]
    /\ UNCHANGED <<counts, saved>>

\* Mutant: infrastructure blocks are stored like the others.
DispatchSucceeds_KeepsInfra(w, i) ==
    /\ NextBlock(w, i)
    /\ LET t == todo[w][i] IN
       /\ ~Consumed(w, t)
       /\ counts' = [counts EXCEPT ![w][t] = @ + 1]
       /\ wrote' = [wrote EXCEPT ![w][t] = @ + 1]
       /\ saved' = [saved EXCEPT ![w] = @ \cup {t}]

DispatchSucceeds(w, i) ==
    /\ NextBlock(w, i)
    /\ LET t == todo[w][i] IN
       /\ ~Consumed(w, t)
       /\ counts' = [counts EXCEPT ![w][t] = @ + 1]
       /\ wrote' = [wrote EXCEPT ![w][t] = @ + 1]
       /\ saved' = [saved EXCEPT ![w] = IF t \in InfraTypes THEN @ ELSE @ \cup {t}]

\* The stage is over: its events go to the client, before the commit.  A
\* retrigger emits none (emit_front_events=False).
SendBlocks(w) ==
    /\ pc[w] = "dispatch"
    /\ DOMAIN todo[w] = {}
    /\ shown' = [shown EXCEPT ![w] =
          IF kind[w] = "retrigger" THEN {}
          ELSE {t \in BlockTypes : counts[w][t] > orm[w].blk[t]}]
    /\ pc' = [pc EXCEPT ![w] = "commit"]
    /\ UNCHANGED <<store, kind, orm, target, todo, counts, wrote, saved, executed, tallies>>

\* Mutant: the finalize commit counts the turn a second time.
Advance_Recounts(w) ==
    [orm[w] EXCEPT !.turns = @ + 1,
                   !.blk = counts[w],
                   !.plug = [p \in Plugins |->
                               IF p \in executed[w] THEN @[p] + 1 ELSE @[p]]]

\* Mutant: the turn's counters are added to the committed ones.
Advance_AddsToRow(w) ==
    [orm[w] EXCEPT !.blk = [t \in BlockTypes |-> row.blk[t] + counts[w][t]],
                   !.plug = [p \in Plugins |->
                               IF p \in executed[w] THEN @[p] + 1 ELSE @[p]]]

\* The row as the turn leaves it: the counters it loaded, plus its own.
Advance(w) ==
    [orm[w] EXCEPT !.blk = counts[w],
                   !.plug = [p \in Plugins |->
                               IF p \in executed[w] THEN @[p] + 1 ELSE @[p]]]

\* Block metadata, block counters, execution counters and handler writes in
\* one commit.  The column is written only if the turn changed it.
CommitTurn(w) ==
    /\ pc[w] = "commit"
    /\ row' = IF counts[w] # orm[w].blk \/ executed[w] # {} THEN Advance(w) ELSE row
    /\ msgs' = IF target[w] # 0 /\ saved[w] # {}
               THEN [msgs EXCEPT ![target[w]].blocks = saved[w]] ELSE msgs
    /\ effects' = [t \in BlockTypes |-> effects[t] + wrote[w][t]]
    /\ published' = [t \in BlockTypes |-> published[t] + (counts[w][t] - orm[w].blk[t])]
    /\ pc' = [pc EXCEPT ![w] = "finalize"]
    /\ UNCHANGED <<local, tallies>>

\* The finalize hooks have run and turn_end is sent.
EndTurn(w) ==
    /\ pc[w] = "finalize"
    /\ Leave(w)
    /\ UNCHANGED <<store, tallies>>

\* Plugins that were running when the turn was cut off may have completed:
\* agent_task is awaited by nobody then, and is not cancelled.
Abort(w, exec) ==
    /\ pc[w] # "idle"
    /\ aborts < MaxAborts
    /\ exec \subseteq IF pc[w] = "agent" THEN BelowLimit(w) ELSE {}
    /\ aborts' = aborts + 1
    /\ ran' = [p \in Plugins |-> IF p \in exec THEN ran[p] + 1 ELSE ran[p]]
    /\ Leave(w)
    /\ UNCHANGED <<store, commands>>

Step(w) ==
    \/ SaveUserMessage(w)
    \/ NarrativeFails(w)
    \/ \E blank \in BOOLEAN : NarrativeArrives(w, blank)
    \/ SaveNarrative(w)
    \/ \E exec \in SUBSET Plugins, blocks \in Batches, hasPlayer \in BOOLEAN :
          RunAgent(w, exec, blocks, hasPlayer)
    \/ \E i \in DOMAIN todo[w] : SkipBlock(w, i)
    \/ \E i \in DOMAIN todo[w], flushed \in BOOLEAN : DispatchFails(w, i, flushed)
    \/ \E i \in DOMAIN todo[w] : DispatchSucceeds(w, i)
    \/ SendBlocks(w)
    \/ CommitTurn(w)
    \/ EndTurn(w)

Next == \E w \in Workers :
            \/ \E k \in Kinds, m \in Narratives \cup {0} : Begin(w, k, m)
            \/ Step(w)
            \/ \E exec \in SUBSET Plugins : Abort(w, exec)

\* The event loop keeps resuming a turn that can go on, and every LLM call
\* returns or raises; clients need not send anything and nothing need fail.
Fairness == \A w \in Workers : WF_vars(Step(w))

Spec == Init /\ [][Next]_vars

FairSpec == Spec /\ Fairness

-----------------------------------------------------------------------------
(* Properties                                                              *)

TypeOK ==
    /\ row \in Row
    /\ msgs \in Seq(Message)
    /\ effects \in [BlockTypes -> Nat]
    /\ published \in [BlockTypes -> Nat]
    /\ pc \in [Workers -> Labels]
    /\ kind \in [Workers -> Kinds]
    /\ orm \in [Workers -> Row]
    /\ target \in [Workers -> Nat]
    /\ todo \in [Workers -> Pending]
    /\ counts \in [Workers -> [BlockTypes -> Nat]]
    /\ wrote \in [Workers -> [BlockTypes -> Nat]]
    /\ saved \in [Workers -> SUBSET (BlockTypes \ InfraTypes)]
    /\ shown \in [Workers -> SUBSET BlockTypes]
    /\ executed \in [Workers -> SUBSET Plugins]
    /\ ran \in [Plugins -> Nat]
    /\ commands \in Nat
    /\ aborts \in Nat

\* However turns overlap, the counter that drives archive and plugin
\* intervals never runs ahead of the narratives that are really stored: a
\* stale snapshot can lose a count, it can never invent one.
TurnCountBounded == row.turns <= Cardinality(Narratives)

\* However turns overlap, the per-session block counters never exceed the
\* dispatches that were really committed, and a once-per-session type is
\* never counted twice, even where two overlapping turns both dispatched it.
BlockCountsBounded ==
    /\ \A t \in BlockTypes : row.blk[t] <= published[t]
    /\ \A t \in OnceTypes : row.blk[t] <= 1

\* However turns overlap and wherever they are cut off, a plugin's execution
\* counter never exceeds its executions: max_triggers cannot shut a plugin
\* out before it has really run that often.
ExecutionCountsBounded == \A p \in Plugins : row.plug[p] <= ran[p]

\* When a turn that stored its narrative ends, a reload of the session shows
\* the blocks the player has just seen, no less and no more: what was sent,
\* infrastructure blocks aside, is the metadata of the turn's message.
ShownBlocksStored ==
    \A w \in Workers :
        pc[w] = "finalize" /\ kind[w] = "message" /\ target[w] # 0 =>
            shown[w] \ InfraTypes = msgs[target[w]].blocks

\* max_triggers limits the executions of a plugin in a session: a turn that
\* is cut off between execution and commit loses its count, and nothing else
\* does, so the limit is overrun at most once per such turn.
TriggerLimit ==
    \A p \in DOMAIN MaxTriggers : ran[p] <= MaxTriggers[p] + aborts

\* Every command reaches its terminal event: no block, plugin or failure
\* leaves a turn hanging.
CommandsEnd == \A w \in Workers : pc[w] # "idle" ~> pc[w] = "idle"

\* With commands handled one at a time, the pipeline keeps the ledger.
Ledger == INSTANCE TurnLedger WITH
              turns <- row.turns,
              narratives <- Cardinality(Narratives),
              published <- published

LedgerKept == Ledger!Spec

\* "In transaction mode, fail fast so caller can rollback stage writes"
\* (block_handlers.py): a dispatch that failed leaves no write behind.
FailedDispatchRolledBack == \A t \in BlockTypes : effects[t] <= published[t]
=============================================================================
