------------------------------ MODULE ChatView ------------------------------
(***************************************************************************)
(* What the player of one session sees, and what each event of the backend *)
(* does to it (frontend: stores/sessionStore.ts, stores/sessionTurnUtils,  *)
(* hooks/useWsCallbacks.ts).  A view is a record; every operator here maps *)
(* the view before a call to the view after it.                            *)
(*                                                                         *)
(* A block is the pair <<turn, n>> of the turn that emitted it and the id  *)
(* it carries; the text of a message is reduced to whether there is any.   *)
(***************************************************************************)
EXTENDS Naturals, Sequences, SequencesExt

Roles == {"user", "assistant", "system"}

Phases == {"init", "character_creation", "playing"}

StreamStatus == {"idle", "waiting", "streaming", "done", "error"}

Block == Nat \X Nat

\* "stored" says that the id of the message is the one the backend knows.
Message == [role : Roles, turn : Nat, text : BOOLEAN, stored : BOOLEAN,
            blocks : Seq(Block)]

View == [messages : Seq(Message), pending : Seq(Block), phase : Phases,
         streaming : BOOLEAN, status : StreamStatus, text : BOOLEAN,
         plugins : BOOLEAN, progress : BOOLEAN, summary : BOOLEAN,
         initError : BOOLEAN]

UserMessage ==
    [role |-> "user", turn |-> 0, text |-> TRUE, stored |-> FALSE, blocks |-> <<>>]

SystemMessage ==
    [role |-> "system", turn |-> 0, text |-> TRUE, stored |-> FALSE, blocks |-> <<>>]

\* A reply that arrives live gets an id made up by the browser: the backend
\* sends no message_id with it.
Reply(turn, text) ==
    [role |-> "assistant", turn |-> turn, text |-> text, stored |-> FALSE,
     blocks |-> <<>>]

\* The store after switchSession and the answer of fetchMessages.
Opened(history, phase) ==
    [messages |-> history, pending |-> <<>>, phase |-> phase,
     streaming |-> FALSE, status |-> "idle", text |-> FALSE,
     plugins |-> FALSE, progress |-> FALSE, summary |-> FALSE,
     initError |-> FALSE]

-----------------------------------------------------------------------------
(* The session store                                                       *)

AddMessage(view, message) == [view EXCEPT !.messages = Append(@, message)]

SetPluginProcessing(view, on) ==
    [view EXCEPT !.plugins = on, !.progress = @ /\ on]

Waiting(view) ==
    [view EXCEPT !.streaming = TRUE, !.status = "waiting", !.text = FALSE]

\* The blocks that belong to a set, in their order.
Among(blocks, S) ==
    LET kept[i \in 0..Len(blocks)] ==
            IF i = 0 THEN <<>>
            ELSE IF blocks[i] \in S THEN Append(kept[i - 1], blocks[i])
            ELSE kept[i - 1]
    IN  kept[Len(blocks)]

OfTurn(blocks, turn) == Among(blocks, {turn} \X Nat)

NotOfTurn(blocks, turn) == Among(blocks, (Nat \ {turn}) \X Nat)

\* The last reply of the turn, 0 when there is none on display.
ReplyOf(messages, turn) ==
    LET isReply(m) == m.role = "assistant" /\ m.turn = turn
    IN  SelectLastInSeq(messages, isReply)

\* A slip: the reply of another turn will do.
AttachToLastReply(view, turn) ==
    LET isReply(m) == m.role = "assistant"
        target == SelectLastInSeq(view.messages, isReply)
    IN  IF target = 0 THEN view
        ELSE [view EXCEPT
                 !.messages[target].blocks = @ \o OfTurn(view.pending, turn),
                 !.pending = NotOfTurn(@, turn)]

AttachPendingBlocksForTurn(view, turn) ==
    LET target == ReplyOf(view.messages, turn)
    IN  IF target = 0 THEN view
        ELSE [view EXCEPT
                 !.messages[target].blocks = @ \o OfTurn(view.pending, turn),
                 !.pending = NotOfTurn(@, turn)]

RemoveLastAssistantMessage(view) ==
    LET isReply(m) == m.role = "assistant"
        last == SelectLastInSeq(view.messages, isReply)
    IN  IF last = 0 THEN view
        ELSE [view EXCEPT !.messages = RemoveAt(@, last), !.pending = <<>>]

DeleteMessage(view, i) == [view EXCEPT !.messages = RemoveAt(@, i)]

DeleteMessagesFrom(view, i) ==
    [view EXCEPT !.messages = SubSeq(@, 1, i - 1), !.pending = <<>>]

\* Every block is attached to the reply of the turn that emitted it.
InPlace(messages) ==
    \A i \in DOMAIN messages :
        \A block \in ToSet(messages[i].blocks) :
            messages[i].role = "assistant" /\ messages[i].turn = block[1]

\* No block is attached twice.
PlacedOnce(messages) ==
    /\ \A i \in DOMAIN messages : IsInjective(messages[i].blocks)
    /\ \A i, j \in DOMAIN messages :
           i # j => ToSet(messages[i].blocks) \cap ToSet(messages[j].blocks) = {}

Attached(view) == UNION {ToSet(view.messages[i].blocks) : i \in DOMAIN view.messages}

Shown(view) == Attached(view) \cup ToSet(view.pending)

-----------------------------------------------------------------------------
(* The callbacks of the connection                                         *)

OnChunk(view) == [view EXCEPT !.status = "streaming", !.text = TRUE]

\* A slip: the input stays locked.
OnDoneStillStreaming(view, turn, text, hasBlocks) ==
    [view EXCEPT !.status = "done", !.text = FALSE,
                 !.messages = IF text \/ hasBlocks
                              THEN Append(@, Reply(turn, text)) ELSE @]

OnDone(view, turn, text, hasBlocks) ==
    [view EXCEPT !.streaming = FALSE, !.status = "done", !.text = FALSE,
                 !.messages = IF text \/ hasBlocks
                              THEN Append(@, Reply(turn, text)) ELSE @]

\* A slip: only the beginning of the plugin stage is noticed.
OnPhaseChangeIgnoringComplete(view, phase) ==
    CASE phase = "plugins"  -> [SetPluginProcessing(view, TRUE) EXCEPT !.summary = FALSE]
      [] phase = "complete" -> view
      [] OTHER              -> [view EXCEPT !.phase = phase]

\* 'plugins' and 'complete' are stages of a turn, not phases of the game.
OnPhaseChange(view, phase) ==
    CASE phase = "plugins"  -> [SetPluginProcessing(view, TRUE) EXCEPT !.summary = FALSE]
      [] phase = "complete" -> SetPluginProcessing(view, FALSE)
      [] OTHER              -> [view EXCEPT !.phase = phase]

OnPluginProgress(view) == [view EXCEPT !.progress = TRUE]

OnPluginSummary(view) == [view EXCEPT !.summary = TRUE]

\* A slip: blocks that are attached already are not looked for.
OnBlockCheckingPending(view, block) ==
    IF block \in ToSet(view.pending) THEN view
    ELSE [view EXCEPT !.pending = Append(@, block)]

\* A block that is on display, attached or pending, only gets new data; any
\* other one waits for the end of its turn.
OnBlock(view, block) ==
    IF block \in Shown(view) THEN view
    ELSE [view EXCEPT !.pending = Append(@, block)]

\* A slip: only a reply that is still the last message gets its blocks.
OnTurnEndIfLast(view, turn) ==
    IF ReplyOf(view.messages, turn) = Len(view.messages)
    THEN AttachPendingBlocksForTurn(view, turn) ELSE view

OnTurnEnd(view, turn) == AttachPendingBlocksForTurn(view, turn)

OnError(view) ==
    AddMessage([view EXCEPT !.streaming = FALSE, !.status = "error", !.text = FALSE,
                            !.initError = @ \/ view.phase = "init"],
               SystemMessage)

OnDisconnected(view) ==
    [view EXCEPT !.streaming = FALSE, !.status = "error", !.text = FALSE]
=============================================================================
