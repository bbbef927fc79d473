----------------------------- MODULE ChatClient -----------------------------
(***************************************************************************)
(* The web client in one game session over a web socket: the connection    *)
(* and its reconnects (services/websocket.ts, hooks/useGameWebSocket.ts),  *)
(* the player's commands (hooks/useGameActions.ts, components/game) and    *)
(* the events that answer them (ChatView).                                 *)
(*                                                                         *)
(* The backend handles the commands of a connection one after the other    *)
(* and answers each with a fixed sequence of events; what is in its queue  *)
(* or on its way when the connection breaks is lost.  Since events arrive  *)
(* in the order they are sent, "the next event arrives" is one action.     *)
(***************************************************************************)
EXTENDS ChatView, FiniteSets

CONSTANTS MaxReconnect,  \* maxReconnectAttempts
          Histories,     \* what the session may hold when it is opened
          Commands,      \* the kinds of command the player uses
          MaxCommands,   \* bound: commands given
          MaxBlocks,     \* bound: blocks of one turn
          MaxLosses,     \* bound: open connections lost
          MaxDeletes     \* bound: messages deleted or edited

\* The backend keeps the blocks of a turn in the metadata of the turn's message
\* and of no other (chat_service.py _dispatch_and_persist_blocks): a history
\* that is loaded has each block once and in its place.
ASSUME ChatClientAssumption ==
    /\ MaxReconnect \in Nat
    /\ Histories \subseteq Seq(Message)
    /\ \A h \in Histories : InPlace(h) /\ PlacedOnce(h)
    /\ {MaxCommands, MaxBlocks, MaxLosses, MaxDeletes} \subseteq Nat

VARIABLES
    view,       \* the stores (ChatView)
    socket,     \* the web socket of the GameWebSocket object
    attempts,   \* reconnectAttempts
    timer,      \* a reconnect timer is running
    mounted,    \* the game panel is on display: the object has a session
    banner,     \* wsStatus
    queue,      \* commands the backend has not started on
    serving,    \* the command it works on and the event it sends next
    images,     \* story image blocks it regenerates in the background
    idlers,     \* three-second timers that will set the status to idle
    lastAction, \* what Retry repeats
    answered,   \* blocks whose answer was given (blockInteractionStore)
    turns,      \* turns started so far
    given,      \* commands given so far
    losses,     \* open connections lost so far
    deletes,    \* messages deleted or edited so far
    ended,      \* history: turns whose turn_end has arrived
    late,       \* history: turns with an image regenerated in the background
    failed,     \* history: a plugin stage ended in an error
    behind,     \* history: a reply got new blocks the view does not show
    dropped     \* history: a command or its answer was lost

connection == <<socket, attempts, timer, mounted, banner>>
backend    == <<queue, serving, images, turns>>
player     == <<lastAction, answered, given, deletes>>
history    == <<ended, late, failed, behind, dropped>>
vars == <<view, connection, backend, idlers, player, losses, history>>

\* What the backend serves: the commands, a sheet that ends the creation of the
\* character and opens the game, and a guide whose session is gone.
Kinds == {"message", "init_game", "response", "sheet", "guide", "regenerate",
          "retrigger", "opening", "lost"}

Idle == [kind |-> "none", event |-> "end", stored |-> FALSE, blocks |-> 0]

Command(kind, stored) ==
    [kind |-> kind, event |-> "start", stored |-> stored, blocks |-> 0]

Init == /\ \E h \in Histories :
               view = Opened(h, IF h = <<>> THEN "init" ELSE "playing")
        /\ socket = "new" /\ attempts = 0 /\ timer = FALSE
        /\ mounted = TRUE /\ banner = "connected"
        /\ queue = <<>> /\ serving = Idle /\ images = {}
        /\ idlers = 0 /\ lastAction = Idle /\ answered = {}
        /\ turns = 0 /\ given = 0 /\ losses = 0 /\ deletes = 0
        /\ ended = {} /\ late = {} /\ failed = FALSE
        /\ behind = FALSE /\ dropped = FALSE

-----------------------------------------------------------------------------
(* The connection                                                          *)

\* connect, 100 ms after the panel is mounted.
Connect ==
    /\ mounted /\ socket = "new"
    /\ socket' = "connecting"
    /\ UNCHANGED <<view, attempts, timer, mounted, banner, backend, idlers,
                   player, losses, history>>

Opens ==
    /\ socket = "connecting"
    /\ socket' = "open"
    /\ attempts' = 0
    /\ banner' = "connected"
    /\ UNCHANGED <<view, timer, mounted, backend, idlers, player, losses, history>>

\* Slips: the attempts are not counted against the limit; the last one fails
\* without a word; the banner comes one attempt too early.
RetryForever ==
    /\ attempts' = attempts + 1
    /\ banner' = "reconnecting"
    /\ timer' = TRUE
    /\ view' = view

GiveUpSilently ==
    IF attempts < MaxReconnect THEN RetryForever
    ELSE UNCHANGED <<attempts, banner, timer, view>>

GiveUpEarly ==
    /\ banner' = IF attempts + 1 < MaxReconnect THEN "reconnecting" ELSE "disconnected"
    /\ attempts' = attempts + 1
    /\ timer' = (attempts < MaxReconnect)
    /\ view' = view

\* What onclose does when nobody asked for it.
OnClose ==
    IF attempts < MaxReconnect
    THEN /\ attempts' = attempts + 1
         /\ banner' = "reconnecting"
         /\ timer' = TRUE
         /\ view' = view
    ELSE /\ banner' = "disconnected"
         /\ view' = OnDisconnected(view)
         /\ UNCHANGED <<attempts, timer>>

\* An open connection is lost, or an attempt to get one fails.
Breaks ==
    /\ mounted
    /\ socket \in {"connecting", "open"}
    /\ socket = "open" => losses < MaxLosses
    /\ losses' = IF socket = "open" THEN losses + 1 ELSE losses
    /\ socket' = "none"
    /\ OnClose
    /\ queue' = <<>>
    /\ serving' = Idle
    /\ images' = {}
    /\ dropped' = (dropped \/ queue # <<>> \/ serving # Idle)
    /\ UNCHANGED <<mounted, turns, idlers, player, ended, late, failed, behind>>

\* Slips: the timer of an object that was disconnected opens a socket; the
\* timer fires without an attempt.
ReconnectAnyway ==
    /\ timer
    /\ timer' = FALSE
    /\ socket' = "connecting"
    /\ UNCHANGED <<view, attempts, mounted, banner, backend, idlers, player,
                   losses, history>>

ReconnectWithoutSocket ==
    /\ timer
    /\ timer' = FALSE
    /\ UNCHANGED <<view, socket, attempts, mounted, banner, backend, idlers, player,
                   losses, history>>

\* createConnection when the timer fires; an object without a session stops.
Reconnect ==
    /\ timer
    /\ timer' = FALSE
    /\ socket' = IF mounted THEN "connecting" ELSE socket
    /\ UNCHANGED <<view, attempts, mounted, banner, backend, idlers, player,
                   losses, history>>

\* The cleanup of the effect: disconnect.  A running timer keeps running.
Leave ==
    /\ mounted
    /\ mounted' = FALSE
    /\ socket' = "none"
    /\ queue' = <<>>
    /\ serving' = Idle
    /\ images' = {}
    /\ dropped' = TRUE
    /\ UNCHANGED <<view, attempts, timer, banner, turns, idlers, player, losses,
                   ended, late, failed, behind>>

-----------------------------------------------------------------------------
(* The backend: which event follows which                                  *)

Ways(kind) ==
    CASE kind = "sheet" -> {"sheet", "opening"}
      [] kind = "guide" -> {"guide", "lost"}
      [] OTHER          -> {kind}

Narrative == {"message", "init_game", "response", "opening"}

First(kind) ==
    CASE kind = "message"                 -> {"chunk", "done"}
      [] kind \in {"init_game", "opening"} -> {"phase"}
      [] kind = "response"                -> {"phase", "chunk", "done"}
      [] kind \in {"sheet", "regenerate"} -> {"done"}
      [] OTHER                            -> {"plugins"}

AfterDone(kind) ==
    CASE kind \in Narrative   -> {"plugins"}
      [] kind = "guide"       -> {"turn_end"}
      [] kind = "regenerate"  -> {"block"}
      [] kind = "sheet"       -> {"end"}

AfterPlugins(kind) ==
    CASE kind = "guide"     -> {"block"}
      [] kind = "lost"      -> {"error"}
      [] kind = "retrigger" -> {"complete"}
      [] OTHER              -> {"progress", "complete"}

AfterComplete(kind) ==
    CASE kind = "guide"     -> {"done"}
      [] kind = "lost"      -> {"turn_end"}
      [] kind = "retrigger" -> {"summary", "turn_end"}
      [] OTHER              -> {"summary", "block", "turn_end"}

AfterSummary(kind) ==
    CASE kind = "guide"     -> {"complete"}
      [] kind = "retrigger" -> {"turn_end"}
      [] OTHER              -> {"block", "turn_end"}

AfterBlock(kind, blocks) ==
    (IF blocks < MaxBlocks /\ kind # "regenerate" THEN {"block"} ELSE {})
    \cup (IF kind = "guide" THEN {"summary"} ELSE {"turn_end"})

Planned(now) ==
    CASE now.event = "start"    -> First(now.kind)
      [] now.event = "phase"    -> {"chunk", "done"}
      [] now.event = "chunk"    -> {"done"}
      [] now.event = "done"     -> AfterDone(now.kind)
      [] now.event = "plugins"  -> AfterPlugins(now.kind)
      [] now.event = "progress" -> {"complete"}
      [] now.event = "complete" -> AfterComplete(now.kind)
      [] now.event = "summary"  -> AfterSummary(now.kind)
      [] now.event = "block"    -> AfterBlock(now.kind, now.blocks)
      [] now.event = "turn_end" -> {"end"}
      [] now.event = "error"    -> IF now.kind = "lost" THEN {"complete"} ELSE {"end"}

\* Where a handler has more to do before its next event than to send it.
MayRaise(now) ==
    CASE now.kind \in {"sheet", "regenerate"} -> now.event = "start"
      [] now.kind = "guide"                  -> now.event = "plugins"
      [] now.kind = "lost"                   -> FALSE
      [] OTHER                               -> now.event \notin {"turn_end", "error"}

\* What a handler raises ends its command with an error.
Follow(now) == Planned(now) \cup (IF MayRaise(now) THEN {"error"} ELSE {})

\* The next command of the connection; every one but a sheet begins a turn.
Start ==
    /\ socket = "open"
    /\ serving = Idle /\ queue # <<>>
    /\ \E kind \in Ways(Head(queue).kind) :
          /\ serving' = [Head(queue) EXCEPT !.kind = kind]
          /\ turns' = IF kind = "sheet" THEN turns ELSE turns + 1
    /\ queue' = Tail(queue)
    /\ UNCHANGED <<view, connection, images, idlers, player, losses, history>>

\* The next event of the command in hand, and nothing else, arrives.
Sends(event) ==
    /\ socket = "open"
    /\ serving # Idle
    /\ event \in Follow(serving)
    /\ serving' = [serving EXCEPT !.event = event,
                                  !.blocks = IF event = "block" THEN @ + 1 ELSE @]
    /\ UNCHANGED <<connection, queue, turns, player, losses>>

Ends == /\ socket = "open"
        /\ serving # Idle
        /\ "end" \in Follow(serving)
        /\ serving' = Idle
        /\ UNCHANGED <<view, connection, queue, images, turns, idlers, player,
                       losses, history>>

Chunk == /\ Sends("chunk")
         /\ view' = OnChunk(view)
         /\ UNCHANGED <<images, idlers, history>>

\* Only a form for the player's character, the start of the game and the sheet
\* that ends the creation of the character change the phase.
PhaseChanges ==
    /\ Sends("phase")
    /\ view' = OnPhaseChange(view, IF serving.kind = "init_game"
                                   THEN "character_creation" ELSE "playing")
    /\ UNCHANGED <<images, idlers, history>>

Done == /\ Sends("done")
        /\ \E text, hasBlocks \in BOOLEAN :
               /\ serving.kind \in {"guide", "sheet"} => ~text
               /\ serving.kind # "guide" => ~hasBlocks
               /\ serving.kind = "regenerate" => text
               /\ view' = OnDone(view, turns, text, hasBlocks)
        /\ idlers' = idlers + 1
        /\ UNCHANGED <<images, history>>

\* A message whose id the backend does not know cannot be retriggered.
PluginsStart ==
    /\ Sends("plugins")
    /\ serving.kind = "retrigger" => serving.stored
    /\ view' = OnPhaseChange(view, "plugins")
    /\ UNCHANGED <<images, idlers, history>>

PluginsProgress == /\ Sends("progress")
                   /\ view' = OnPluginProgress(view)
                   /\ UNCHANGED <<images, idlers, history>>

PluginsComplete == /\ Sends("complete")
                   /\ view' = OnPhaseChange(view, "complete")
                   /\ UNCHANGED <<images, idlers, history>>

PluginsSummary == /\ Sends("summary")
                  /\ view' = OnPluginSummary(view)
                  /\ UNCHANGED <<images, idlers, history>>

\* A plugin may send the same block again, with new data.
BlockArrives ==
    /\ Sends("block")
    /\ \E n \in 1..(serving.blocks + 1) : view' = OnBlock(view, <<turns, n>>)
    /\ images' = IF serving.kind = "regenerate" THEN images \cup {<<turns, 1>>} ELSE images
    /\ late' = IF serving.kind = "regenerate" THEN late \cup {turns} ELSE late
    /\ UNCHANGED <<idlers, ended, failed, behind, dropped>>

\* The image is ready: the placeholder block is sent again, filled in.
ImageReady ==
    /\ socket = "open"
    /\ \E image \in images :
          /\ serving.kind = "regenerate" => turns # image[1]
          /\ view' = OnBlock(view, image)
          /\ images' = images \ {image}
    /\ UNCHANGED <<connection, queue, serving, turns, idlers, player, losses, history>>

TurnEnds == /\ Sends("turn_end")
            /\ view' = OnTurnEnd(view, turns)
            /\ ended' = ended \cup {turns}
            /\ behind' \in IF serving.kind = "retrigger" THEN {behind, TRUE} ELSE {behind}
            /\ UNCHANGED <<images, idlers, late, failed, dropped>>

Error == /\ Sends("error")
         /\ view' = OnError(view)
         /\ failed' = (failed \/ serving.event \in {"plugins", "progress"})
         /\ UNCHANGED <<images, idlers, ended, late, behind, dropped>>

\* The timer set by onDone, whatever has happened since.
FallIdle == /\ idlers > 0
            /\ idlers' = idlers - 1
            /\ view' = [view EXCEPT !.status = "idle"]
            /\ UNCHANGED <<connection, backend, player, losses, history>>

-----------------------------------------------------------------------------
(* The player                                                              *)

InGame == mounted /\ view.phase # "init"

InputEnabled == InGame /\ ~view.streaming /\ ~view.plugins

\* send: without an open socket the command is dropped without a word.
Transmit(command) ==
    /\ given < MaxCommands
    /\ given' = given + 1
    /\ queue' = IF socket = "open" THEN Append(queue, command) ELSE queue
    /\ dropped' = (dropped \/ socket # "open")
    /\ UNCHANGED <<connection, serving, images, turns, idlers, losses, ended, late, failed, behind>>

\* handleSend with what is not a structured command; not while streaming.
SendText(before) ==
    /\ view' = Waiting(AddMessage([before EXCEPT !.pending = <<>>], UserMessage))
    /\ lastAction' = Command("message", FALSE)
    /\ Transmit(Command("message", FALSE))

Send == /\ InputEnabled
        /\ "message" \in Commands
        /\ SendText(view)
        /\ UNCHANGED <<answered, deletes>>

\* WelcomeScreen and handleInitGame.
StartGame ==
    /\ mounted /\ view.phase = "init" /\ ~view.streaming
    /\ "init_game" \in Commands
    /\ view' = [Waiting(view) EXCEPT !.initError = FALSE]
    /\ lastAction' = Command("init_game", FALSE)
    /\ Transmit(Command("init_game", FALSE))
    /\ UNCHANGED <<answered, deletes>>

Unlocked ==
    ToSet(view.pending)
    \cup (IF view.messages = <<>> THEN {} ELSE ToSet(Last(view.messages).blocks))

\* An interactive block is marked as answered, then handleSend is called: it
\* returns at once while a turn is streaming.
Answer ==
    /\ InGame
    /\ \E block \in Unlocked \ answered, kind \in Commands \cap {"message", "response", "sheet", "regenerate"} :
          /\ answered' = answered \cup {block}
          /\ IF view.streaming
             THEN UNCHANGED <<view, connection, backend, idlers, lastAction, given,
                              losses, history>>
             ELSE IF kind = "message" THEN SendText(view)
             ELSE /\ view' = Waiting(view)
                  /\ lastAction' = Command(kind, FALSE)
                  /\ Transmit(Command(kind, FALSE))
    /\ UNCHANGED deletes

\* The quick action and handleForceTrigger.
ForceTrigger ==
    /\ InputEnabled
    /\ "guide" \in Commands
    /\ view' = Waiting(view)
    /\ Transmit(Command("guide", FALSE))
    /\ UNCHANGED <<lastAction, answered, deletes>>

\* Retry below a failed turn, or Regenerate at the last reply.
RetryShown ==
    \/ view.status = "error"
    \/ /\ view.messages # <<>> /\ ~view.streaming
       /\ Last(view.messages).role = "assistant" /\ Last(view.messages).text

Retry ==
    /\ InGame /\ RetryShown
    /\ lastAction # Idle
    /\ LET before == [RemoveLastAssistantMessage(view) EXCEPT !.status = "idle"]
       IN  view' = [Waiting(before) EXCEPT
                       !.initError = @ /\ lastAction.kind # "init_game"]
    /\ Transmit(lastAction)
    /\ UNCHANGED <<lastAction, answered, deletes>>

\* Plugins of one reply again; the input is not locked meanwhile.
RetriggerPlugins ==
    /\ InputEnabled
    /\ "retrigger" \in Commands
    /\ \E i \in DOMAIN view.messages :
          /\ view.messages[i].role = "assistant"
          /\ Transmit(Command("retrigger", view.messages[i].stored))
    /\ UNCHANGED <<view, lastAction, answered, deletes>>

Delete ==
    /\ InGame
    /\ deletes < MaxDeletes
    /\ deletes' = deletes + 1
    /\ \E i \in DOMAIN view.messages :
          \/ /\ view.messages[i].role = "assistant" /\ view.messages[i].text
             /\ view' = DeleteMessage(view, i)
          \/ /\ view.messages[i].role = "user"
             /\ view' = DeleteMessagesFrom(view, i)
    /\ UNCHANGED <<connection, backend, idlers, lastAction, answered, given, losses, history>>

\* handleEditSubmit: the messages go first, then handleSend may return.
EditAndResend ==
    /\ InGame
    /\ "message" \in Commands
    /\ deletes < MaxDeletes
    /\ deletes' = deletes + 1
    /\ \E i \in DOMAIN view.messages :
          /\ view.messages[i].role = "user"
          /\ IF view.streaming
             THEN /\ view' = DeleteMessagesFrom(view, i)
                  /\ UNCHANGED <<connection, backend, idlers, lastAction, given,
                                 losses, history>>
             ELSE SendText(DeleteMessagesFrom(view, i))
    /\ UNCHANGED answered

-----------------------------------------------------------------------------

Timers == Connect \/ Reconnect \/ FallIdle

Events == \/ Chunk \/ PhaseChanges \/ Done \/ PluginsStart \/ PluginsProgress
          \/ PluginsComplete \/ PluginsSummary \/ BlockArrives \/ TurnEnds \/ Error

Player == \/ Send \/ StartGame \/ Answer \/ ForceTrigger \/ Retry
          \/ RetriggerPlugins \/ Delete \/ EditAndResend \/ Leave

Next == Timers \/ Opens \/ Breaks \/ Start \/ Events \/ ImageReady \/ Ends \/ Player

\* Timers fire, an attempt to connect succeeds or fails, and the backend
\* gets on with the command in hand; nothing is assumed of the player.
Fairness == /\ WF_vars(Connect)
            /\ WF_vars(Reconnect)
            /\ WF_vars(Opens)
            /\ WF_vars(Start)
            /\ WF_vars(Events \/ Ends)

Spec == Init /\ [][Next]_vars /\ Fairness

-----------------------------------------------------------------------------
(* Properties                                                              *)

TypeOK ==
    /\ view \in View
    /\ socket \in {"new", "none", "connecting", "open"}
    /\ attempts \in 0..MaxReconnect
    /\ {timer, mounted, failed, behind, dropped} \subseteq BOOLEAN
    /\ banner \in {"connected", "reconnecting", "disconnected"}
    /\ \A i \in DOMAIN queue : queue[i].kind \in Kinds
    /\ serving = Idle \/ serving.kind \in Kinds
    /\ {images, answered} \subseteq SUBSET Block
    /\ {ended, late} \subseteq SUBSET Nat
    /\ {idlers, turns, given, losses, deletes} \subseteq Nat

\* Whatever the player deletes, retries or sends in between, a block is only
\* ever attached to the reply of the turn that emitted it.
BlocksOfTheirTurn == InPlace(view.messages)

\* A block that is sent again, or filled in later, is never on display twice.
BlockShownOnce ==
    /\ PlacedOnce(view.messages)
    /\ IsInjective(view.pending)
    /\ Attached(view) \cap ToSet(view.pending) = {}

\* After turn_end no block of the turn is left behind while its reply is on
\* display, except an image that was regenerated in the background: when its
\* placeholder is gone, it comes back as a pending block for good.
EndedTurnsFlushed ==
    \A block \in ToSet(view.pending) :
        (block[1] \in ended /\ ReplyOf(view.messages, block[1]) # 0) => block[1] \in late

\* The player is never left without a connection, an attempt to get one or
\* the word that there is none.
ConnectionWatched ==
    (mounted /\ socket = "none" /\ ~timer) => banner = "disconnected"

\* "disconnected" is only shown after as many attempts as are allowed.
DisconnectedIsFinal ==
    banner = "disconnected" => socket = "none" /\ ~timer /\ attempts = MaxReconnect

\* A connection the player has left is never opened again, not even by a
\* reconnect timer that was running.
LeftForGood == [][~mounted => socket' = "none"]_vars

\* A lost connection is back, given up or left in the end.
ReconnectSettles ==
    timer ~> (socket = "open" \/ banner = "disconnected" \/ ~mounted)

\* The input is unlocked again after every turn, failed ones included, unless
\* a command or the answer to it was lost with the connection.
StreamingEnds == view.streaming ~> (~view.streaming \/ dropped)

\* So is the lock of the plugin stage, unless that stage fails.
PluginStageEnds == view.plugins ~> (~view.plugins \/ dropped \/ failed)

\* "message_blocks_updated: the blocks of the original message are updated in
\* place (for retrigger and the like)" (docs/ARCHITECTURE.md, translated):
\* when a retrigger has ended, the view shows the blocks the reply now has.
RetriggerUpdatesInPlace == ~behind
=============================================================================
