----------------------------- MODULE BlockForms -----------------------------
(***************************************************************************)
(* One block of a turn on the screen of the web client, from its arrival   *)
(* until it is locked: guides (and choices, which are shown as guides),    *)
(* forms, character sheets, story images and blocks drawn from the schema  *)
(* of a plugin (components/game/*Renderer.tsx, blockInteractionState.ts,   *)
(* stores/blockInteractionStore.ts, services/blockRenderers.ts).           *)
(*                                                                         *)
(* A renderer keeps its draft in its own state and most of it also in the  *)
(* interaction store, from which it is restored when it is mounted again:  *)
(* a pending block is mounted a second time when it is attached to its     *)
(* message.  Texts are members of Texts.                                   *)
(***************************************************************************)
EXTENDS Naturals

CONSTANT MaxAnswers     \* bound: answers of a block that can be given again

VARIABLE panel

Texts == {"", "a", "b"}

\* Block types a renderer is registered for; "widget" is a plugin's own.
Registered == {"guide", "choices", "form", "sheet", "image"}

Schemas == {"missing", "card", "none", "custom"}

\* Registered renderers first, then the schema, which may name one of them;
\* else the block is shown as JSON.
RendererOf(type, schema) ==
    CASE type = "choices"                 -> "guide"
      [] type \in Registered \ {"choices"} -> type
      [] type \notin Registered           ->
            [custom |-> "form", none |-> "hidden", card |-> "generic",
             missing |-> "fallback"][schema]

Fields(renderer) ==
    CASE renderer = "guide" -> {"custom", "collapsed"}
      [] renderer = "form"  -> {"text", "check"}
      [] renderer = "sheet" -> {"name", "strength", "wits"}
      [] renderer = "image" -> {"reason", "expanded"}
      [] OTHER              -> {}

Switches == {"check", "collapsed", "expanded"}

Values(field) == IF field \in Switches THEN BOOLEAN ELSE Texts

\* Fields the interaction store keeps as one value.
Together(field) ==
    CASE field \in {"text", "check"}    -> {"text", "check"}
      [] field \in {"strength", "wits"} -> {"strength", "wits"}
      [] OTHER                          -> {field}

\* What a draft starts from: defaults of a form, the data of a sheet.
Blank(renderer) ==
    [field \in Fields(renderer) |->
        CASE field \in Switches -> FALSE
          [] renderer = "sheet" -> "a"
          [] OTHER              -> ""]

\* "saved" has no more fields than the interaction store has of this block.
Unsaved == [field \in {} |-> ""]

\* A slip: the data of the block wins over what was saved.
RestoredFromData(data, saved) ==
    [field \in DOMAIN data |->
        IF field \in DOMAIN saved /\ field # "text" THEN saved[field] ELSE data[field]]

\* What a renderer shows when it is mounted; an empty name does not count.
Restored(data, saved) ==
    [field \in DOMAIN data |->
        IF field \notin DOMAIN saved THEN data[field]
        ELSE IF field = "name" /\ saved[field] = "" THEN data[field]
        ELSE saved[field]]

Arrived(type, schema, fetched, new) ==
    LET renderer == RendererOf(type, IF fetched THEN schema ELSE "missing")
    IN  [type |-> type, schema |-> schema, fetched |-> fetched, renderer |-> renderer,
         pending |-> TRUE, locked |-> FALSE,
         data |-> Blank(renderer), draft |-> Blank(renderer), saved |-> Unsaved,
         status |-> "generating", valid |-> TRUE, done |-> FALSE,
         answers |-> 0, edited |-> {}, sent |-> {}, refreshed |-> FALSE, new |-> new]

\* "new": the sheet is that of a character to be made.
Init == \E type \in Registered \cup {"widget"}, schema \in Schemas, fetched, new \in BOOLEAN :
            /\ type # "widget" => schema = "missing"
            /\ new => type = "sheet"
            /\ panel = Arrived(type, schema, fetched, new)

-----------------------------------------------------------------------------
(* Mounting, locking and new data                                          *)

\* A slip: the answer is forgotten with the renderer that gave it.
MountedOpen(p) ==
    [p EXCEPT !.done = FALSE, !.draft = Restored(p.data, p.saved)]

Mounted(p) ==
    LET renderer == RendererOf(p.type, IF p.fetched THEN p.schema ELSE "missing")
    IN  IF renderer # p.renderer
        THEN [p EXCEPT !.renderer = renderer, !.data = Blank(renderer),
                       !.draft = Blank(renderer), !.saved = Unsaved]
        ELSE [p EXCEPT !.draft = IF renderer = "image" THEN Blank(renderer)
                                 ELSE Restored(p.data, p.saved)]

\* turn_end: the pending block is drawn again, as a block of its message.
Attached ==
    /\ panel.pending
    /\ panel' = [Mounted(panel) EXCEPT !.pending = FALSE]

\* The blocks of the last message are open: another message follows, or all
\* that followed are deleted.
Locks ==
    /\ ~panel.pending
    /\ panel' = [panel EXCEPT !.locked = ~@]

\* The list is drawn again after the schemas have come; their arrival alone
\* draws nothing.
SchemasFetched ==
    /\ ~panel.fetched
    /\ panel' = [panel EXCEPT !.fetched = TRUE]

Redrawn ==
    /\ panel.renderer # RendererOf(panel.type, IF panel.fetched THEN panel.schema ELSE "missing")
    /\ panel' = Mounted(panel)

\* The player comes back to the session: the interaction store was emptied.
Revisited ==
    /\ ~panel.pending
    /\ panel' = LET emptied == [panel EXCEPT !.saved = Unsaved,
                                             !.done = FALSE, !.answers = 0,
                                             !.edited = {}, !.sent = {},
                                             !.refreshed = FALSE]
                IN  Mounted(emptied)

\* updateBlockData: a block with this id arrives again, drawn or not.
Refreshed ==
    \/ /\ panel.renderer = "sheet"
       /\ \E field \in {"name", "strength", "wits"} :
             panel' = [panel EXCEPT !.data[field] = "b", !.refreshed = TRUE]
    \/ /\ panel.renderer = "image"
       /\ \E status \in {"ok", "error", "generating"} \ {panel.status} :
             panel' = [panel EXCEPT !.status = status]

-----------------------------------------------------------------------------
(* Drafts                                                                  *)

Open == ~panel.locked /\ ~panel.done

\* What is saved when a field has been edited.
Saved(field, draft) ==
    [g \in Together(field) \cup DOMAIN panel.saved |->
        IF g \in Together(field) THEN draft[g] ELSE panel.saved[g]]

\* One field of an open block gets a new value, here and in the store.
Typed(field, value) ==
    LET draft == [panel.draft EXCEPT ![field] = value]
    IN  panel' = [panel EXCEPT !.draft = draft,
                               !.saved = Saved(field, draft),
                               !.valid = @ \/ field = "text",
                               !.edited = @ \cup {field}]

\* The header of a guide folds it away, and its input with it.
EditGuide ==
    /\ Open
    /\ panel.renderer = "guide"
    /\ \/ Typed("collapsed", ~panel.draft["collapsed"])
       \/ /\ ~panel.draft["collapsed"]
          /\ \E text \in Texts \ {panel.draft["custom"]} : Typed("custom", text)

EditForm ==
    /\ Open
    /\ panel.renderer = "form"
    /\ \E field \in Fields("form") :
          \E value \in Values(field) : value # panel.draft[field] /\ Typed(field, value)

EditSheet ==
    /\ Open
    /\ panel.renderer = "sheet"
    /\ \E field \in Fields("sheet") :
          \E text \in Texts \ {panel.draft[field]} : Typed(field, text)

\* The reason for a new image and its context are kept by the renderer only.
EditImage ==
    /\ panel.renderer = "image"
    /\ \/ /\ ~panel.locked
          /\ \E reason \in Texts \ {panel.draft["reason"]} :
                panel' = [panel EXCEPT !.draft["reason"] = reason]
       \/ panel' = [panel EXCEPT !.draft["expanded"] = ~@]

-----------------------------------------------------------------------------
(* Answers                                                                 *)

\* A suggestion, or a text of the player's own: what was typed is forgotten.
AnswerGuide ==
    /\ Open
    /\ panel.renderer = "guide" /\ ~panel.draft["collapsed"]
    /\ panel' = [panel EXCEPT !.done = TRUE, !.answers = @ + 1,
                              !.saved = Saved("custom", [panel.draft EXCEPT !["custom"] = ""])]

SubmitForm ==
    /\ Open
    /\ panel.renderer = "form"
    /\ IF panel.draft["text"] = ""
       THEN panel' = [panel EXCEPT !.valid = FALSE]
       ELSE panel' = [panel EXCEPT !.done = TRUE, !.answers = @ + 1,
                                   !.saved = panel.draft, !.valid = TRUE]

Differing == {field \in Fields("sheet") : panel.draft[field] # panel.data[field]}

\* The draft as a whole is saved.  For a new character all of it is sent, edited
\* or not; else the fields that differ from the data.
ConfirmSheet ==
    /\ Open
    /\ panel.renderer = "sheet"
    /\ panel' = [panel EXCEPT !.done = TRUE, !.answers = @ + 1,
                              !.saved = panel.draft,
                              !.sent = IF panel.new THEN Fields("sheet") ELSE Differing]

\* Neither a block of a plugin nor an image is ever marked as answered; the
\* former is not even locked.
Answered == panel' = [panel EXCEPT !.answers = @ + 1]

AnswerGeneric ==
    /\ panel.answers < MaxAnswers
    /\ panel.renderer = "generic"
    /\ Answered

RegenerateImage ==
    /\ panel.answers < MaxAnswers
    /\ panel.renderer = "image" /\ ~panel.locked
    /\ Answered

-----------------------------------------------------------------------------

Screen == Attached \/ Locks \/ SchemasFetched \/ Redrawn \/ Revisited \/ Refreshed

Next == \/ Screen
        \/ EditGuide \/ EditForm \/ EditSheet \/ EditImage
        \/ AnswerGuide \/ SubmitForm \/ ConfirmSheet \/ AnswerGeneric \/ RegenerateImage

Spec == Init /\ [][Next]_panel

-----------------------------------------------------------------------------

TypeOK ==
    /\ panel.renderer \in Registered \cup {"generic", "hidden", "fallback"}
    /\ DOMAIN panel.draft = Fields(panel.renderer)
    /\ DOMAIN panel.saved \subseteq Fields(panel.renderer)
    /\ panel.answers \in 0..MaxAnswers
    /\ panel.edited \cup panel.sent \subseteq Fields(panel.renderer)
    /\ panel.valid \in BOOLEAN /\ panel.done \in BOOLEAN
    /\ panel.pending \in BOOLEAN /\ panel.locked \in BOOLEAN

\* Whatever was typed before a block moves from the pending list into its
\* message is what it shows there; the exceptions are a name that was emptied,
\* data that came again for a field nobody has typed in, a guide that has
\* been answered, and the note on an image.
DraftSurvivesMounting ==
    \A field \in Fields(panel.renderer) :
        \/ panel.draft[field] = Restored(panel.data, panel.saved)[field]
        \/ field = "name" /\ panel.draft[field] = ""
        \/ panel.refreshed /\ Restored(panel.data, panel.saved)[field] = panel.data[field]
        \/ panel.renderer = "guide" /\ panel.done
        \/ panel.renderer = "image"

\* During one visit a guide, a form or a sheet is answered at most once, also
\* when it is drawn again in between.
AnsweredOnce == panel.renderer \in {"guide", "form", "sheet"} => panel.answers <= 1

\* The confirmed sheet of a character that exists changes nothing but what the
\* player has edited since the session was opened, over remounts and locks,
\* unless the backend has changed the sheet meanwhile.
SheetSendsEdits == panel.new \/ panel.refreshed \/ panel.sent \subseteq panel.edited
=============================================================================
