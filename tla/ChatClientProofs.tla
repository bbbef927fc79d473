-------------------------- MODULE ChatClientProofs --------------------------
(***************************************************************************)
(* Proofs about ChatClient, for every session that can be opened, every    *)
(* limit of reconnects and every value of the bounds.                      *)
(***************************************************************************)
EXTENDS ChatClient, ChatViewProofs

-----------------------------------------------------------------------------
(* Types                                                                   *)

EventNames == {"start", "phase", "chunk", "done", "plugins", "progress", "complete",
               "summary", "block", "turn_end", "error"}

\* A command that is not under way yet, and one that is.
Asked == [kind : Kinds, event : {"start"}, stored : BOOLEAN, blocks : Nat]

Served == [kind : Kinds, event : EventNames, stored : BOOLEAN, blocks : Nat]

\* What TypeOK says, and what it leaves out about the commands.
Types ==
    /\ view \in View
    /\ socket \in {"new", "none", "connecting", "open"}
    /\ attempts \in 0..MaxReconnect
    /\ timer \in BOOLEAN /\ mounted \in BOOLEAN /\ failed \in BOOLEAN
    /\ behind \in BOOLEAN /\ dropped \in BOOLEAN
    /\ banner \in {"connected", "reconnecting", "disconnected"}
    /\ queue \in Seq(Asked)
    /\ serving \in Served \cup {Idle}
    /\ lastAction \in Asked \cup {Idle}
    /\ images \in SUBSET Block /\ answered \in SUBSET Block
    /\ ended \in SUBSET Nat /\ late \in SUBSET Nat
    /\ idlers \in Nat /\ turns \in Nat /\ given \in Nat
    /\ losses \in Nat /\ deletes \in Nat

LEMMA TypesTypeOK == Types => TypeOK
<1> SUFFICES ASSUME Types PROVE TypeOK
  OBVIOUS
<1>1. \A i \in DOMAIN queue : queue[i].kind \in Kinds
  <2>1. \A i \in DOMAIN queue : queue[i] \in Asked
    BY DEF Types
  <2> QED BY <2>1 DEF Asked
<1>2. serving = Idle \/ serving.kind \in Kinds
  BY DEF Types, Served
<1>3. {timer, mounted, failed, behind, dropped} \subseteq BOOLEAN
  BY Zenon DEF Types
<1> QED BY <1>1, <1>2, <1>3 DEF Types, TypeOK

LEMMA CommandType ==
    ASSUME NEW kind \in Kinds, NEW stored \in BOOLEAN
    PROVE  Command(kind, stored) \in Asked
BY DEF Command, Asked

LEMMA OpenedType ==
    ASSUME NEW h \in Seq(Message), NEW phase \in Phases
    PROVE  /\ Opened(h, phase) \in View
           /\ Opened(h, phase).messages = h /\ Opened(h, phase).pending = <<>>
<1>1. <<>> \in Seq(Block)
  OBVIOUS
<1> QED BY <1>1 DEF View, Opened, StreamStatus

-----------------------------------------------------------------------------
(* What the steps do to the view                                           *)

\* A step that shows no new reply and no new pending block.
Calm ==
    /\ view' \in View
    /\ Placed(view')
    /\ \A t : HasReply(view'.messages, t) => HasReply(view.messages, t)
    /\ ToSet(view'.pending) \subseteq ToSet(view.pending)

LEMMA QuietCalm ==
    ASSUME view \in View, Placed(view), Quiet(view', view)
    PROVE  Calm
<1>1. Placed(view')
  BY DEF Quiet, Placed, Attached
<1> QED BY <1>1 DEF Calm, Quiet

LEMMA PartCalm ==
    ASSUME view \in View, Placed(view), view' \in View,
           Part(view'.messages, view.messages), view'.pending \in {view.pending, <<>>}
    PROVE  Calm
<1>1. Placed(view')
  BY PlacedPart
<1>2. \A t : HasReply(view'.messages, t) => HasReply(view.messages, t)
  BY PartReplies
<1>3. ToSet(view'.pending) \subseteq ToSet(view.pending)
  BY EmptyList
<1> QED BY <1>1, <1>2, <1>3 DEF Calm

\* handleSend: the pending blocks are dropped, the player's message is added.
LEMMA SendCalm ==
    ASSUME view \in View, Placed(view), NEW before \in View,
           Part(before.messages, view.messages), SendText(before)
    PROVE  Calm
<1> DEFINE cleared == [before EXCEPT !.pending = <<>>]
           added == AddMessage(cleared, UserMessage)
<1>1. cleared \in View /\ cleared.messages = before.messages /\ cleared.pending = <<>>
  <2>1. <<>> \in Seq(Block)
    OBVIOUS
  <2> QED BY <2>1 DEF View
<1>2. UserMessage \in Message
  <2>1. <<>> \in Seq(Block)
    OBVIOUS
  <2> QED BY <2>1 DEF UserMessage, Message, Roles
<1> HIDE DEF cleared
<1>3. /\ added \in View
      /\ added.messages = Append(before.messages, UserMessage)
      /\ added.pending = <<>>
  BY <1>1, <1>2, AddMessageType
<1> HIDE DEF added
<1>4. Quiet(view', added)
  BY <1>3, QuietCalls DEF SendText, added, cleared
<1>5. Placed(cleared)
  BY <1>1, PlacedPart
<1>6. Placed(view')
  <2>1. /\ cleared.messages \in Seq(Message)
        /\ view'.messages = Append(cleared.messages, UserMessage)
        /\ view'.pending = cleared.pending
    BY <1>1, <1>3, <1>4 DEF Quiet, View
  <2>2. UserMessage.blocks = <<>>
    BY DEF UserMessage
  <2> QED BY <1>2, <1>5, <2>1, <2>2, PlacedAppend
<1>7. ASSUME NEW t, HasReply(view'.messages, t) PROVE HasReply(view.messages, t)
  <2>1. HasReply(before.messages, t)
    <3>1. before.messages \in Seq(Message)
      BY DEF View
    <3>2. UserMessage.role # "assistant"
      BY DEF UserMessage
    <3> QED BY <1>2, <1>3, <1>4, <1>7, <3>1, <3>2, AppendReplies DEF Quiet
  <2> QED BY <2>1, PartReplies
<1>8. ToSet(view'.pending) \subseteq ToSet(view.pending)
  BY <1>3, <1>4, EmptyList DEF Quiet
<1>9. view' \in View
  BY <1>4 DEF Quiet
<1> QED BY <1>6, <1>7, <1>8, <1>9 DEF Calm

\* Whatever the player does, and whatever the connection, leaves the view calm.
LEMMA PlayerCalm ==
    ASSUME view \in View, Placed(view), Player
    PROVE  Calm
<1>1. CASE Send
  BY <1>1, SendCalm, WholePart DEF Send
<1>2. CASE StartGame
  <2>1. Quiet(Waiting(view), view)
    BY QuietCalls DEF Phases
  <2>2. Quiet(view', Waiting(view))
    BY <1>2, <2>1, QuietCalls DEF StartGame, Phases, Quiet
  <2> QED BY <2>1, <2>2, QuietTwice, QuietCalm
<1>3. CASE Answer
  <2>1. CASE view.streaming
    <3>1. view' = view
      BY <1>3, <2>1 DEF Answer
    <3> QED BY <3>1, QuietCalm DEF Quiet
  <2>2. CASE ~view.streaming
    <3>1. SendText(view) \/ view' = Waiting(view)
      BY <1>3, <2>2 DEF Answer
    <3>2. CASE SendText(view)
      BY <3>2, SendCalm, WholePart
    <3>3. CASE view' = Waiting(view)
      BY <3>3, QuietCalls, QuietCalm DEF Phases
    <3> QED BY <3>1, <3>2, <3>3
  <2> QED BY <2>1, <2>2
<1>4. CASE ForceTrigger
  BY <1>4, QuietCalls, QuietCalm DEF ForceTrigger, Phases
<1>5. CASE Retry
  <2> DEFINE removed == RemoveLastAssistantMessage(view)
             before == [removed EXCEPT !.status = "idle"]
             waiting == Waiting(before)
             initError == waiting.initError /\ lastAction.kind # "init_game"
  <2>1. /\ removed \in View /\ Part(removed.messages, view.messages)
        /\ removed.pending \in {view.pending, <<>>}
    BY RemoveReplyCall
  <2> HIDE DEF removed
  <2>2. Quiet(before, removed)
    BY <2>1, QuietCalls DEF Phases
  <2> HIDE DEF before
  <2>3. Quiet(waiting, before)
    BY <2>2, QuietCalls DEF Phases, Quiet
  <2> HIDE DEF waiting
  <2>4. initError \in BOOLEAN
    OBVIOUS
  <2>5. view' = [waiting EXCEPT !.initError = initError]
    BY <1>5 DEF Retry, waiting, before, removed
  <2> HIDE DEF initError
  <2>6. Quiet(view', waiting)
    BY <2>3, <2>4, <2>5, QuietCalls DEF Phases, Quiet
  <2>7. Quiet(view', removed)
    BY <2>2, <2>3, <2>6, QuietTwice
  <2> QED BY <2>1, <2>7, PartCalm DEF Quiet
<1>6. CASE RetriggerPlugins \/ Leave
  <2>1. view' = view
    BY <1>6 DEF RetriggerPlugins, Leave
  <2> QED BY <2>1, QuietCalm DEF Quiet
<1>7. CASE Delete
  <2>1. PICK i \in DOMAIN view.messages :
            view' \in {DeleteMessage(view, i), DeleteMessagesFrom(view, i)}
    BY <1>7 DEF Delete
  <2> QED BY <2>1, DeleteCalls, PartCalm
<1>8. CASE EditAndResend
  <2>1. PICK i \in DOMAIN view.messages :
            \/ view' = DeleteMessagesFrom(view, i)
            \/ SendText(DeleteMessagesFrom(view, i))
    BY <1>8 DEF EditAndResend
  <2>2. /\ DeleteMessagesFrom(view, i) \in View
        /\ Part(DeleteMessagesFrom(view, i).messages, view.messages)
        /\ DeleteMessagesFrom(view, i).pending \in {view.pending, <<>>}
    BY DeleteCalls
  <2> QED BY <2>1, <2>2, SendCalm, PartCalm
<1> QED BY <1>1, <1>2, <1>3, <1>4, <1>5, <1>6, <1>7, <1>8 DEF Player

\* The events that only say how far the turn is.
Progress == Chunk \/ PhaseChanges \/ PluginsStart \/ PluginsProgress
              \/ PluginsComplete \/ PluginsSummary

LEMMA ProgressCalm ==
    ASSUME view \in View, Placed(view), Progress
    PROVE  Calm
<1>1. CASE PhaseChanges
  BY <1>1, QuietCalls, QuietCalm DEF PhaseChanges, Phases
<1>2. CASE Chunk \/ PluginsStart \/ PluginsProgress \/ PluginsComplete \/ PluginsSummary
  BY <1>2, QuietCalls, QuietCalm
     DEF Chunk, PluginsStart, PluginsProgress, PluginsComplete, PluginsSummary, Phases
<1> QED BY <1>1, <1>2 DEF Progress

LEMMA ErrorCalm ==
    ASSUME view \in View, Placed(view), Error
    PROVE  Calm
<1>1. /\ view' \in View /\ view'.pending = view.pending
      /\ view'.messages = Append(view.messages, SystemMessage)
      /\ SystemMessage \in Message
  BY ErrorCall DEF Error
<1>2. view.messages \in Seq(Message)
  BY DEF View
<1>3. SystemMessage.blocks = <<>> /\ SystemMessage.role # "assistant"
  BY DEF SystemMessage
<1>4. Placed(view')
  BY <1>1, <1>2, <1>3, PlacedAppend
<1>5. \A t : HasReply(view'.messages, t) => HasReply(view.messages, t)
  BY <1>1, <1>2, <1>3, AppendReplies
<1> QED BY <1>1, <1>4, <1>5 DEF Calm

\* The end of a turn, which is calm, moves the blocks of the turn away from
\* the pending ones.
LEMMA TurnEndsCalm ==
    ASSUME view \in View, Placed(view), turns \in Nat, TurnEnds
    PROVE  /\ Calm
           /\ HasReply(view'.messages, turns) =>
                 \A block \in ToSet(view'.pending) : block[1] # turns
<1>1. view' = AttachPendingBlocksForTurn(view, turns)
  BY DEF TurnEnds, OnTurnEnd
<1> QED BY <1>1, PlacedAttach DEF Calm

\* The end of a reply may show a reply of the turn under way, of no other.
LEMMA DoneView ==
    ASSUME view \in View, Placed(view), turns \in Nat, Done
    PROVE  /\ view' \in View
           /\ Placed(view')
           /\ view'.pending = view.pending
           /\ \A t : HasReply(view'.messages, t) =>
                  \/ HasReply(view.messages, t)
                  \/ t = turns /\ serving.kind # "sheet"
<1>1. PICK text \in BOOLEAN, hasBlocks \in BOOLEAN :
          /\ serving.kind \in {"guide", "sheet"} => ~text
          /\ serving.kind # "guide" => ~hasBlocks
          /\ view' = OnDone(view, turns, text, hasBlocks)
  BY DEF Done
<1>2. view.messages \in Seq(Message)
  BY DEF View
<1>3. /\ view' \in View /\ view'.pending = view.pending
      /\ view'.messages = IF text \/ hasBlocks
                          THEN Append(view.messages, Reply(turns, text))
                          ELSE view.messages
      /\ Reply(turns, text) \in Message
  BY <1>1, DoneCall
<1>4. Reply(turns, text).blocks = <<>> /\ Reply(turns, text).turn = turns
  BY DEF Reply
<1>5. CASE text \/ hasBlocks
  <2>1. serving.kind # "sheet"
    BY <1>1, <1>5
  <2>2. Placed(view')
    BY <1>2, <1>3, <1>4, <1>5, PlacedAppend
  <2>3. \A t : HasReply(view'.messages, t) => HasReply(view.messages, t) \/ t = turns
    BY <1>2, <1>3, <1>4, <1>5, AppendReplies
  <2> QED BY <1>3, <2>1, <2>2, <2>3
<1>6. CASE ~(text \/ hasBlocks)
  <2>1. Quiet(view', view)
    BY <1>3, <1>6 DEF Quiet
  <2> QED BY <1>3, <2>1, QuietCalm DEF Calm
<1> QED BY <1>5, <1>6

\* A block that arrives is one of the turn under way, an image that arrives
\* later one of those the backend regenerates.
LEMMA BlockView ==
    ASSUME Types, Placed(view), BlockArrives \/ ImageReady
    PROVE  /\ view' \in View
           /\ Placed(view')
           /\ view'.messages = view.messages
           /\ \A block \in ToSet(view'.pending) :
                  \/ block \in ToSet(view.pending)
                  \/ BlockArrives /\ block[1] = turns
                  \/ ImageReady /\ block \in images
<1>1. CASE BlockArrives
  <2>1. PICK n \in 1..(serving.blocks + 1) : view' = OnBlock(view, <<turns, n>>)
    BY <1>1 DEF BlockArrives
  <2>2. serving.blocks \in Nat
    BY DEF Types, Served, Idle
  <2>3. <<turns, n>> \in Block /\ <<turns, n>>[1] = turns
    BY <2>1, <2>2 DEF Types, Block
  <2> QED BY <1>1, <2>1, <2>3, PlacedOnBlock DEF Types
<1>2. CASE ImageReady
  <2>1. PICK image \in images : view' = OnBlock(view, image)
    BY <1>2 DEF ImageReady
  <2>2. image \in Block
    BY <2>1 DEF Types
  <2> QED BY <1>2, <2>1, <2>2, PlacedOnBlock DEF Types
<1> QED BY <1>1, <1>2

\* The other steps: none of them touches the messages or the blocks.
Rest == Connect \/ Reconnect \/ FallIdle \/ Opens \/ Breaks \/ Start \/ Ends

LEMMA RestCalm ==
    ASSUME view \in View, Placed(view), Rest \/ UNCHANGED vars
    PROVE  Calm
<1>1. CASE Breaks
  <2>1. view' = view \/ view' = OnDisconnected(view)
    BY <1>1 DEF Breaks, OnClose
  <2> QED BY <2>1, QuietCalls, QuietCalm DEF Phases, Quiet
<1>2. CASE FallIdle
  BY <1>2, QuietCalls, QuietCalm DEF FallIdle, Phases
<1>3. CASE Connect \/ Reconnect \/ Opens \/ Start \/ Ends \/ UNCHANGED vars
  <2>1. view' = view
    BY <1>3 DEF Connect, Reconnect, Opens, Start, Ends, vars
  <2> QED BY <2>1, QuietCalm DEF Quiet
<1> QED BY <1>1, <1>2, <1>3 DEF Rest

LEMMA StepKinds ==
    Next <=> \/ Rest \/ Progress \/ Error \/ TurnEnds \/ Done
             \/ BlockArrives \/ ImageReady \/ Player
BY DEF Next, Rest, Timers, Events, Progress

\* Every step keeps the type of the view, and every block in one place.
LEMMA NextView ==
    ASSUME Types, Placed(view), [Next]_vars
    PROVE  view' \in View /\ Placed(view')
<1>1. view \in View /\ turns \in Nat
  BY DEF Types
<1>2. CASE Rest \/ UNCHANGED vars
  BY <1>1, <1>2, RestCalm DEF Calm
<1>3. CASE Progress \/ Error \/ TurnEnds
  BY <1>1, <1>3, ProgressCalm, ErrorCalm, TurnEndsCalm DEF Calm
<1>4. CASE Done \/ BlockArrives \/ ImageReady
  BY <1>1, <1>4, DoneView, BlockView
<1>5. CASE Player
  BY <1>1, <1>5, PlayerCalm DEF Calm
<1> QED BY <1>2, <1>3, <1>4, <1>5, StepKinds

-----------------------------------------------------------------------------
(* Type correctness                                                        *)

LEMMA LimitType == MaxReconnect \in Nat
BY ChatClientAssumption DEF ChatClientAssumption

LEMMA InitTypes == Init => Types
<1> SUFFICES ASSUME Init PROVE Types
  OBVIOUS
<1>1. view \in View
  <2>1. PICK h \in Histories : view = Opened(h, IF h = <<>> THEN "init" ELSE "playing")
    BY DEF Init
  <2>2. h \in Seq(Message)
    BY ChatClientAssumption DEF ChatClientAssumption
  <2> QED BY <2>1, <2>2, OpenedType DEF Phases
<1>2. queue \in Seq(Asked)
  BY DEF Init
<1>3. attempts \in 0..MaxReconnect
  BY LimitType DEF Init
<1> QED BY <1>1, <1>2, <1>3 DEF Init, Types

\* The next event of a command is a command under way again.
LEMMA SendsTypes ==
    ASSUME Types, NEW event \in EventNames, Sends(event)
    PROVE  serving \in Served /\ serving' \in Served
<1>1. serving \in Served
  BY DEF Types, Sends
<1>2. (IF event = "block" THEN serving.blocks + 1 ELSE serving.blocks) \in Nat
  BY <1>1 DEF Served
<1> QED BY <1>1, <1>2 DEF Sends, Served

LEMMA TransmitTypes ==
    ASSUME Types, NEW command \in Asked, Transmit(command)
    PROVE  /\ given' \in Nat /\ queue' \in Seq(Asked) /\ dropped' \in BOOLEAN
           /\ UNCHANGED <<connection, serving, images, turns, idlers, losses, ended,
                          late, failed, behind>>
<1>1. given' \in Nat
  BY DEF Types, Transmit
<1>2. queue' \in Seq(Asked)
  BY DEF Types, Transmit
<1>3. dropped' \in BOOLEAN
  BY Zenon DEF Transmit
<1> QED BY <1>1, <1>2, <1>3 DEF Transmit

LEMMA SendTextTypes ==
    ASSUME Types, NEW before, SendText(before)
    PROVE  /\ given' \in Nat /\ queue' \in Seq(Asked) /\ dropped' \in BOOLEAN
           /\ lastAction' \in Asked
           /\ UNCHANGED <<connection, serving, images, turns, idlers, losses, ended,
                          late, failed, behind>>
BY TransmitTypes, CommandType DEF SendText, Kinds

\* What every command of the player leaves alone or keeps in its type.
LEMMA PlayerTypes ==
    ASSUME Types, view' \in View, Player
    PROVE  Types'
<1> USE DEF connection, history, backend
<1>1. CASE Send
  BY <1>1, SendTextTypes DEF Types, Send
<1>2. CASE StartGame
  BY <1>2, TransmitTypes, CommandType DEF Types, StartGame, Kinds
<1>3. CASE Answer
  <2>1. PICK block \in Unlocked \ answered,
             kind \in Commands \cap {"message", "response", "sheet", "regenerate"} :
          /\ answered' = answered \cup {block}
          /\ \/ UNCHANGED <<view, connection, backend, idlers, lastAction, given,
                            losses, history>>
             \/ SendText(view)
             \/ /\ lastAction' = Command(kind, FALSE)
                /\ Transmit(Command(kind, FALSE))
    BY <1>3 DEF Answer
  <2>2. Unlocked \subseteq Block
    <3>1. view.pending \in Seq(Block) /\ view.messages \in Seq(Message)
      BY DEF Types, View
    <3>2. ToSet(view.pending) \subseteq Block
      BY <3>1 DEF ToSet
    <3>3. ASSUME view.messages # <<>>
          PROVE  ToSet(Last(view.messages).blocks) \subseteq Block
      <4>1. Last(view.messages) \in Message
        BY <3>1, <3>3 DEF Last
      <4>2. Last(view.messages).blocks \in Seq(Block)
        BY <4>1 DEF Message
      <4> QED BY <4>2 DEF ToSet
    <3> QED BY <3>2, <3>3 DEF Unlocked
  <2>3. answered' \in SUBSET Block
    BY <2>1, <2>2 DEF Types
  <2>4. kind \in Kinds
    BY DEF Kinds
  <2>5. deletes' = deletes
    BY <1>3 DEF Answer
  <2>6. CASE UNCHANGED <<view, connection, backend, idlers, lastAction, given,
                         losses, history>>
    BY <2>3, <2>5, <2>6 DEF Types
  <2>7. CASE SendText(view)
    BY <2>3, <2>5, <2>7, SendTextTypes DEF Types
  <2>8. CASE lastAction' = Command(kind, FALSE) /\ Transmit(Command(kind, FALSE))
    BY <2>3, <2>4, <2>5, <2>8, TransmitTypes, CommandType DEF Types
  <2> QED BY <2>1, <2>6, <2>7, <2>8
<1>4. CASE ForceTrigger
  BY <1>4, TransmitTypes, CommandType DEF Types, ForceTrigger, Kinds
<1>5. CASE Retry
  <2>1. lastAction \in Asked /\ Transmit(lastAction)
    BY <1>5 DEF Types, Retry
  <2> QED BY <1>5, <2>1, TransmitTypes DEF Types, Retry
<1>6. CASE RetriggerPlugins
  <2>1. PICK i \in DOMAIN view.messages :
            Transmit(Command("retrigger", view.messages[i].stored))
    BY <1>6 DEF RetriggerPlugins
  <2>2. view.messages[i] \in Message
    BY DEF Types, View
  <2>3. view.messages[i].stored \in BOOLEAN
    BY <2>2 DEF Message
  <2>4. Command("retrigger", view.messages[i].stored) \in Asked
    BY <2>3, CommandType DEF Kinds
  <2> QED BY <1>6, <2>1, <2>4, TransmitTypes DEF Types, RetriggerPlugins
<1>7. CASE Delete
  BY <1>7 DEF Types, Delete
<1>8. CASE EditAndResend
  <2>1. PICK i \in DOMAIN view.messages :
            \/ UNCHANGED <<connection, backend, idlers, lastAction, given,
                           losses, history>>
            \/ SendText(DeleteMessagesFrom(view, i))
    BY <1>8 DEF EditAndResend
  <2>2. deletes' \in Nat /\ answered' = answered
    BY <1>8 DEF Types, EditAndResend
  <2> QED BY <2>1, <2>2, SendTextTypes DEF Types
<1>9. CASE Leave
  <2>1. queue' \in Seq(Asked) /\ images' \in SUBSET Block
    BY <1>9 DEF Leave
  <2>2. dropped' \in BOOLEAN /\ mounted' \in BOOLEAN
    BY <1>9 DEF Leave
  <2>3. UNCHANGED <<attempts, timer, banner, turns, idlers, player, losses,
                    ended, late, failed, behind>>
    BY <1>9 DEF Leave
  <2>4. socket' = "none" /\ serving' = Idle
    BY <1>9 DEF Leave
  <2> QED BY <2>1, <2>2, <2>3, <2>4 DEF Types, player
<1> QED BY <1>1, <1>2, <1>3, <1>4, <1>5, <1>6, <1>7, <1>8, <1>9 DEF Player

\* The same for the events of the backend.
LEMMA EventTypes ==
    ASSUME Types, view' \in View, Events
    PROVE  Types'
<1> USE DEF connection, history, player
<1> USE DEF EventNames
<1>1. CASE Chunk
  BY <1>1, SendsTypes DEF Types, Chunk, Sends
<1>2. CASE PhaseChanges
  BY <1>2, SendsTypes DEF Types, PhaseChanges, Sends
<1>3. CASE Done
  BY <1>3, SendsTypes DEF Types, Done, Sends
<1>4. CASE PluginsStart \/ PluginsProgress \/ PluginsComplete \/ PluginsSummary
  BY <1>4, SendsTypes
     DEF Types, PluginsStart, PluginsProgress, PluginsComplete, PluginsSummary, Sends
<1>5. CASE BlockArrives
  <2>1. <<turns, 1>> \in Block
    BY DEF Types, Block
  <2>2. images' \in SUBSET Block /\ late' \in SUBSET Nat
    BY <1>5, <2>1 DEF Types, BlockArrives
  <2> QED BY <1>5, <2>2, SendsTypes DEF Types, BlockArrives, Sends
<1>6. CASE TurnEnds
  <2>1. behind' \in BOOLEAN
    BY <1>6, Zenon DEF Types, TurnEnds
  <2>2. ended' \in SUBSET Nat
    BY <1>6 DEF Types, TurnEnds
  <2> QED BY <1>6, <2>1, <2>2, SendsTypes DEF Types, TurnEnds, Sends
<1>7. CASE Error
  <2>1. failed' \in BOOLEAN
    BY <1>7, Zenon DEF Error
  <2> QED BY <1>7, <2>1, SendsTypes DEF Types, Error, Sends
<1> QED BY <1>1, <1>2, <1>3, <1>4, <1>5, <1>6, <1>7 DEF Events

\* The command that is started, in the way it is served, and its turn.
LEMMA StartServes ==
    ASSUME Types, Start
    PROVE  /\ serving' \in Asked
           /\ turns' = IF serving'.kind = "sheet" THEN turns ELSE turns + 1
           /\ turns' \in Nat
<1>1. Head(queue) \in Asked
  BY HeadTailProperties DEF Types, Start
<1>2. PICK kind \in Ways(Head(queue).kind) :
          /\ serving' = [Head(queue) EXCEPT !.kind = kind]
          /\ turns' = IF kind = "sheet" THEN turns ELSE turns + 1
  BY DEF Start
<1>3. kind \in Kinds
  BY <1>1 DEF Ways, Kinds, Asked
<1>4. serving' \in Asked /\ serving'.kind = kind
  BY <1>1, <1>2, <1>3 DEF Asked
<1>5. turns \in Nat
  BY DEF Types
<1> QED BY <1>2, <1>4, <1>5

LEMMA RestTypes ==
    ASSUME Types, view' \in View, Rest \/ ImageReady
    PROVE  Types'
<1> USE DEF connection, backend, history, player
<1>1. CASE Connect \/ Reconnect \/ Opens
  <2>1. attempts' \in 0..MaxReconnect
    BY <1>1, LimitType DEF Types, Connect, Reconnect, Opens
  <2>2. socket' \in {"new", "none", "connecting", "open"}
    BY <1>1 DEF Types, Connect, Reconnect, Opens
  <2> QED BY <1>1, <2>1, <2>2 DEF Types, Connect, Reconnect, Opens
<1>2. CASE Breaks
  <2>1. /\ attempts' \in 0..MaxReconnect /\ timer' \in BOOLEAN
        /\ banner' \in {"connected", "reconnecting", "disconnected"}
    <3>1. CASE attempts < MaxReconnect
      BY <1>2, <3>1, LimitType DEF Types, Breaks, OnClose
    <3>2. CASE ~(attempts < MaxReconnect)
      <4>1. attempts' = attempts /\ timer' = timer /\ banner' = "disconnected"
        BY <1>2, <3>2 DEF Breaks, OnClose
      <4> QED BY <4>1 DEF Types
    <3> QED BY <3>1, <3>2
  <2>2. dropped' \in BOOLEAN
    BY <1>2, Zenon DEF Breaks
  <2>3. /\ queue' \in Seq(Asked) /\ images' \in SUBSET Block /\ losses' \in Nat
        /\ serving' = Idle /\ socket' = "none"
    BY <1>2 DEF Types, Breaks
  <2> QED BY <1>2, <2>1, <2>2, <2>3 DEF Types, Breaks
<1>3. CASE Start
  <2>1. Head(queue) \in Asked /\ Tail(queue) \in Seq(Asked)
    BY <1>3, HeadTailProperties DEF Types, Start
  <2>2. serving' \in Asked /\ turns' \in Nat
    BY <1>3, StartServes
  <2>3. serving' \in Served
    BY <2>2 DEF Asked, Served, EventNames
  <2> QED BY <1>3, <2>1, <2>2, <2>3 DEF Types, Start
<1>4. CASE Ends \/ FallIdle \/ ImageReady
  BY <1>4 DEF Types, Ends, FallIdle, ImageReady
<1> QED BY <1>1, <1>2, <1>3, <1>4 DEF Rest

LEMMA NextTypes ==
    ASSUME Types, Placed(view), [Next]_vars
    PROVE  Types'
<1>1. view' \in View
  BY NextView
<1>2. CASE Next
  BY <1>1, <1>2, PlayerTypes, EventTypes, RestTypes
     DEF Next, Timers, Rest
<1>3. CASE UNCHANGED vars
  BY <1>3 DEF Types, vars, connection, backend, player, history
<1> QED BY <1>2, <1>3

LEMMA InitPlaced == Init => Placed(view)
<1> SUFFICES ASSUME Init PROVE Placed(view)
  OBVIOUS
<1>1. PICK h \in Histories : view = Opened(h, IF h = <<>> THEN "init" ELSE "playing")
  BY DEF Init
<1>2. h \in Seq(Message) /\ InPlace(h) /\ PlacedOnce(h)
  BY ChatClientAssumption DEF ChatClientAssumption
<1>3. view.messages = h /\ view.pending = <<>>
  BY <1>1, <1>2, OpenedType DEF Phases
<1> QED BY <1>2, <1>3, EmptyList DEF Placed

\* The types of all variables.
THEOREM TypeCorrect == Spec => []TypeOK
<1>1. Init => Types /\ Placed(view)
  BY InitTypes, InitPlaced
<1>2. Types /\ Placed(view) /\ [Next]_vars => (Types /\ Placed(view))'
  BY NextTypes, NextView
<1> QED BY <1>1, <1>2, TypesTypeOK, PTL DEF Spec

LEMMA TypesHold == Spec => [](Types /\ Placed(view))
<1>1. Init => Types /\ Placed(view)
  BY InitTypes, InitPlaced
<1>2. Types /\ Placed(view) /\ [Next]_vars => (Types /\ Placed(view))'
  BY NextTypes, NextView
<1> QED BY <1>1, <1>2, PTL DEF Spec

\* Whatever the player deletes, retries or sends in between, a block is only
\* ever attached to the reply of the turn that emitted it.
THEOREM BlocksStayWithTheirTurn == Spec => []BlocksOfTheirTurn
<1>1. Placed(view) => BlocksOfTheirTurn
  BY DEF Placed, BlocksOfTheirTurn
<1> QED BY <1>1, TypesHold, PTL

\* No block is ever on display twice, attached or pending.
THEOREM BlocksShownOnce == Spec => []BlockShownOnce
<1>1. Placed(view) => BlockShownOnce
  BY DEF Placed, BlockShownOnce
<1> QED BY <1>1, TypesHold, PTL

-----------------------------------------------------------------------------
(* The connection                                                          *)

\* A timer runs only while there is no socket, and a session that was left
\* has none.
ConnectionInv ==
    /\ ConnectionWatched
    /\ DisconnectedIsFinal
    /\ mounted /\ timer => socket = "none"
    /\ ~mounted => socket = "none"

LEMMA ConnectionKept ==
    ASSUME Progress \/ Error \/ TurnEnds \/ Done \/ BlockArrives \/ ImageReady
           \/ FallIdle \/ Start \/ Ends \/ UNCHANGED vars
    PROVE  UNCHANGED connection
BY DEF Progress, Chunk, PhaseChanges, PluginsStart, PluginsProgress, PluginsComplete,
       PluginsSummary, Error, TurnEnds, Done, BlockArrives, ImageReady, FallIdle,
       Start, Ends, Sends, vars

LEMMA PlayerKeepsConnection ==
    ASSUME Player
    PROVE  UNCHANGED connection \/ Leave
<1>1. CASE Send \/ StartGame \/ ForceTrigger \/ Retry \/ RetriggerPlugins \/ Delete
  BY <1>1 DEF Send, StartGame, ForceTrigger, Retry, RetriggerPlugins, Delete,
              SendText, Transmit
<1>2. CASE Answer
  BY <1>2 DEF Answer, SendText, Transmit
<1>3. CASE EditAndResend
  BY <1>3 DEF EditAndResend, SendText, Transmit
<1> QED BY <1>1, <1>2, <1>3 DEF Player

LEMMA NextConnection ==
    ASSUME Types, ConnectionInv, [Next]_vars
    PROVE  ConnectionInv'
<1> USE DEF ConnectionInv, ConnectionWatched, DisconnectedIsFinal
<1>1. CASE UNCHANGED connection
  BY <1>1 DEF connection
<1>2. CASE Connect
  BY <1>2 DEF Types, Connect
<1>3. CASE Opens
  BY <1>3 DEF Types, Opens
<1>4. CASE Breaks
  BY <1>4, LimitType DEF Types, Breaks, OnClose
<1>5. CASE Reconnect
  BY <1>5 DEF Types, Reconnect
<1>6. CASE Leave
  BY <1>6 DEF Types, Leave
<1> QED BY <1>1, <1>2, <1>3, <1>4, <1>5, <1>6, ConnectionKept,
           PlayerKeepsConnection, StepKinds DEF Rest

LEMMA ConnectionHolds == Spec => []ConnectionInv
<1>1. Init => ConnectionInv
  BY DEF Init, ConnectionInv, ConnectionWatched, DisconnectedIsFinal
<1>2. Types /\ ConnectionInv /\ [Next]_vars => ConnectionInv'
  BY NextConnection
<1> QED BY <1>1, <1>2, TypesHold, PTL DEF Spec

\* The player is never left without a connection, an attempt to get one or
\* the word that there is none.
THEOREM ConnectionIsWatched == Spec => []ConnectionWatched
<1>1. ConnectionInv => ConnectionWatched
  BY DEF ConnectionInv
<1> QED BY <1>1, ConnectionHolds, PTL

\* The word that there is no connection comes after all of the attempts.
THEOREM GivingUpIsFinal == Spec => []DisconnectedIsFinal
<1>1. ConnectionInv => DisconnectedIsFinal
  BY DEF ConnectionInv
<1> QED BY <1>1, ConnectionHolds, PTL

\* No step opens a connection the player has left.
THEOREM LeavingIsFinal == Spec => LeftForGood
<1>1. ConnectionInv /\ [Next]_vars => [~mounted => socket' = "none"]_vars
  <2> SUFFICES ASSUME ConnectionInv, [Next]_vars, ~mounted PROVE socket' = "none"
    OBVIOUS
  <2>1. socket = "none"
    BY DEF ConnectionInv
  <2>2. CASE UNCHANGED connection
    BY <2>1, <2>2 DEF connection
  <2>3. CASE Connect \/ Opens \/ Breaks \/ Reconnect \/ Leave
    BY <2>1, <2>3 DEF Connect, Opens, Breaks, Reconnect, Leave
  <2> QED BY <2>2, <2>3, ConnectionKept, PlayerKeepsConnection, StepKinds DEF Rest
<1> QED BY <1>1, ConnectionHolds, PTL DEF Spec, LeftForGood

-----------------------------------------------------------------------------
(* The blocks of ended turns                                               *)

\* Where the command under way can be: a turn that has ended is only followed
\* by the end of its command, or by a sheet, which is no turn and ends without
\* blocks.
ServingInv ==
    /\ \A t \in ended : t <= turns
    /\ serving # Idle /\ serving.kind = "sheet" =>
          serving.event \in {"start", "done", "error"}
    /\ serving # Idle /\ turns \in ended =>
          serving.kind = "sheet" \/ serving.event = "turn_end"
    /\ \A image \in images : image[1] \in late

\* An ended turn whose blocks are still pending has no reply on display, or
\* they are of an image that was regenerated.
Flushed ==
    \A block \in ToSet(view.pending) :
        block[1] \in ended /\ HasReply(view.messages, block[1]) => block[1] \in late

LEMMA FlushedIff == Types => (Flushed <=> EndedTurnsFlushed)
<1> SUFFICES ASSUME Types PROVE Flushed <=> EndedTurnsFlushed
  OBVIOUS
<1>1. view.messages \in Seq(Message)
  BY DEF Types, View
<1>2. \A t : ReplyOf(view.messages, t) # 0 <=> HasReply(view.messages, t)
  BY <1>1, ReplyOfProperties
<1> QED BY <1>2 DEF Flushed, EndedTurnsFlushed

\* Which event can follow which, as far as the end of a turn depends on it.
LEMMA SendsStep ==
    ASSUME Types, ServingInv, NEW event \in EventNames, Sends(event)
    PROVE  /\ serving \in Served /\ serving # Idle /\ serving' \in Served
           /\ serving'.kind = serving.kind /\ serving'.event = event /\ turns' = turns
           /\ serving.kind = "sheet" => event \in {"done", "error"}
           /\ turns \in ended => serving.kind = "sheet"
<1>1. serving \in Served /\ serving # Idle /\ serving' \in Served
  BY SendsTypes DEF Sends
<1>2. serving'.kind = serving.kind /\ serving'.event = event /\ turns' = turns
  BY <1>1 DEF Sends, Served
<1>3. event \in Follow(serving) /\ event # "end"
  BY DEF Sends, EventNames
<1>4. ASSUME serving.kind = "sheet" PROVE event \in {"done", "error"}
  <2>1. serving.event \in {"start", "done", "error"}
    BY <1>1, <1>4 DEF ServingInv
  <2>2. CASE serving.event = "start"
    BY <1>3, <1>4, <2>2 DEF Follow, MayRaise, Planned, First, Narrative
  <2>3. CASE serving.event = "done"
    BY <1>3, <1>4, <2>3 DEF Follow, MayRaise, Planned, AfterDone, Narrative
  <2>4. CASE serving.event = "error"
    BY <1>3, <1>4, <2>4 DEF Follow, MayRaise, Planned
  <2> QED BY <2>1, <2>2, <2>3, <2>4
<1>5. ASSUME turns \in ended PROVE serving.kind = "sheet"
  <2> SUFFICES ASSUME serving.event = "turn_end" PROVE FALSE
    BY <1>1, <1>5 DEF ServingInv
  <2> QED BY <1>3 DEF Follow, MayRaise, Planned
<1> QED BY <1>1, <1>2, <1>4, <1>5

\* What the player does leaves the backend's command alone, or ends it.
LEMMA PlayerServing ==
    ASSUME Player
    PROVE  /\ UNCHANGED <<turns, ended, late>>
           /\ UNCHANGED <<serving, images>> \/ (serving' = Idle /\ images' = {})
<1> USE DEF backend, history
<1>1. CASE Send \/ StartGame \/ ForceTrigger \/ Retry \/ RetriggerPlugins \/ Delete
  BY <1>1 DEF Send, StartGame, ForceTrigger, Retry, RetriggerPlugins, Delete,
              SendText, Transmit
<1>2. CASE Answer
  BY <1>2 DEF Answer, SendText, Transmit
<1>3. CASE EditAndResend
  BY <1>3 DEF EditAndResend, SendText, Transmit
<1>4. CASE Leave
  BY <1>4 DEF Leave
<1> QED BY <1>1, <1>2, <1>3, <1>4 DEF Player

LEMMA RestServing ==
    ASSUME Rest \/ UNCHANGED vars
    PROVE  UNCHANGED <<ended, late>>
BY DEF Rest, Connect, Reconnect, FallIdle, Opens, Breaks, OnClose, Start, Ends,
       vars, history

LEMMA EventServing ==
    ASSUME Progress \/ Error \/ Done
    PROVE  UNCHANGED <<ended, late, images>>
BY DEF Progress, Chunk, PhaseChanges, PluginsStart, PluginsProgress, PluginsComplete,
       PluginsSummary, Error, Done, history

LEMMA EventSends ==
    ASSUME Progress \/ Error \/ Done
    PROVE  \E event \in EventNames : Sends(event)
BY DEF Progress, Chunk, PhaseChanges, PluginsStart, PluginsProgress, PluginsComplete,
       PluginsSummary, Error, Done, EventNames

LEMMA NextServing ==
    ASSUME Types, ServingInv, [Next]_vars
    PROVE  ServingInv'
<1>1. CASE UNCHANGED <<serving, images, turns, ended, late>>
  BY <1>1 DEF ServingInv
<1>2. CASE serving' = Idle /\ images' \in {images, {}} /\ UNCHANGED <<turns, ended, late>>
  BY <1>2 DEF ServingInv
<1>3. CASE Start
  <2>1. serving' \in Asked
    BY <1>3, StartServes
  <2>2. UNCHANGED <<images, ended, late>>
    BY <1>3 DEF Start, history
  <2>3. serving'.event = "start"
    BY <2>1 DEF Asked
  <2>4. turns' = IF serving'.kind = "sheet" THEN turns ELSE turns + 1
    BY <1>3, StartServes
  <2>5. turns' >= turns /\ (serving'.kind # "sheet" => turns' \notin ended)
    BY <2>4 DEF Types, ServingInv
  <2>6. \A t \in ended' : t <= turns'
    BY <2>2, <2>4 DEF Types, ServingInv
  <2> QED BY <2>2, <2>3, <2>5, <2>6 DEF ServingInv
<1>4. CASE Progress \/ Error \/ Done
  <2>1. PICK event \in EventNames : Sends(event)
    BY <1>4, EventSends
  <2>2. UNCHANGED <<ended, late, images>>
    BY <1>4, EventServing
  <2> QED BY <2>1, <2>2, SendsStep DEF ServingInv
<1>5. CASE BlockArrives
  <2>1. Sends("block") /\ "block" \in EventNames /\ ended' = ended
    BY <1>5 DEF BlockArrives, EventNames
  <2>2. \A image \in images' : image[1] \in late'
    BY <1>5 DEF BlockArrives, ServingInv
  <2> QED BY <2>1, <2>2, SendsStep DEF ServingInv
<1>6. CASE TurnEnds
  <2>1. /\ Sends("turn_end") /\ "turn_end" \in EventNames
        /\ ended' = ended \cup {turns} /\ UNCHANGED <<images, late>>
    BY <1>6 DEF TurnEnds, EventNames
  <2>2. \A t \in ended' : t <= turns
    BY <2>1 DEF Types, ServingInv
  <2> QED BY <2>1, <2>2, SendsStep DEF ServingInv
<1>7. CASE ImageReady
  BY <1>7 DEF ImageReady, ServingInv, history
<1>8. CASE Rest \/ UNCHANGED vars
  <2>1. CASE Breaks \/ Ends
    BY <1>2, <2>1 DEF Breaks, Ends, history
  <2>2. CASE Connect \/ Reconnect \/ FallIdle \/ Opens \/ UNCHANGED vars
    BY <1>1, <2>2 DEF Connect, Reconnect, FallIdle, Opens, vars, backend, history
  <2> QED BY <1>3, <1>8, <2>1, <2>2 DEF Rest
<1> QED BY <1>1, <1>2, <1>4, <1>5, <1>6, <1>7, <1>8, PlayerServing, StepKinds

LEMMA CalmFlushed ==
    ASSUME Flushed, Calm, ended' = ended, late' = late
    PROVE  Flushed'
BY DEF Flushed, Calm

LEMMA NextFlushed ==
    ASSUME Types, Placed(view), ServingInv, Flushed, [Next]_vars
    PROVE  Flushed'
<1>1. view \in View /\ turns \in Nat
  BY DEF Types
<1>2. CASE Rest \/ Player \/ UNCHANGED vars
  BY <1>1, <1>2, RestCalm, PlayerCalm, RestServing, PlayerServing, CalmFlushed
<1>3. CASE Progress \/ Error
  BY <1>1, <1>3, ProgressCalm, ErrorCalm, EventServing, CalmFlushed
<1>4. CASE TurnEnds
  <2>1. /\ Calm
        /\ HasReply(view'.messages, turns) =>
              \A block \in ToSet(view'.pending) : block[1] # turns
    BY <1>1, <1>4, TurnEndsCalm
  <2>2. ended' = ended \cup {turns} /\ late' = late
    BY <1>4 DEF TurnEnds
  <2> QED BY <2>1, <2>2 DEF Flushed, Calm
<1>5. CASE Done
  <2>1. Sends("done") /\ "done" \in EventNames
    BY <1>5 DEF Done, EventNames
  <2>2. turns \in ended => serving.kind = "sheet"
    BY <2>1, SendsStep
  <2>3. ended' = ended /\ late' = late
    BY <1>5, EventServing
  <2> QED BY <1>1, <1>5, <2>2, <2>3, DoneView DEF Flushed
<1>6. CASE BlockArrives
  <2>1. Sends("block") /\ "block" \in EventNames
    BY <1>6 DEF BlockArrives, EventNames
  <2>2. turns \notin ended
    BY <2>1, SendsStep
  <2>3. ended' = ended /\ late \subseteq late'
    BY <1>6 DEF BlockArrives
  <2>4. /\ view'.messages = view.messages
        /\ \A block \in ToSet(view'.pending) :
              \/ block \in ToSet(view.pending)
              \/ block[1] = turns
              \/ block \in images
    BY <1>6, BlockView
  <2> QED BY <2>2, <2>3, <2>4 DEF Flushed, ServingInv
<1>7. CASE ImageReady
  <2>1. ended' = ended /\ late' = late
    BY <1>7 DEF ImageReady, history
  <2>2. /\ view'.messages = view.messages
        /\ \A block \in ToSet(view'.pending) :
              block \in ToSet(view.pending) \/ block \in images \/ BlockArrives
    BY <1>7, BlockView
  <2> QED BY <1>6, <2>1, <2>2 DEF Flushed, ServingInv
<1> QED BY <1>2, <1>3, <1>4, <1>5, <1>6, <1>7, StepKinds

\* After turn_end no block of the turn is left behind while its reply is on
\* display, except an image that was regenerated in the background.
THEOREM EndedTurnsAreFlushed == Spec => []EndedTurnsFlushed
<1>1. Init => ServingInv /\ Flushed
  <2> SUFFICES ASSUME Init PROVE ServingInv /\ Flushed
    OBVIOUS
  <2> QED BY DEF Init, ServingInv, Flushed, Idle
<1>2. Types /\ Placed(view) /\ ServingInv /\ Flushed /\ [Next]_vars
        => (ServingInv /\ Flushed)'
  BY NextServing, NextFlushed
<1> QED BY <1>1, <1>2, TypesHold, FlushedIff, PTL DEF Spec
=============================================================================
