----------------------------- MODULE ProjectDocs ----------------------------
(***************************************************************************)
(* The page of a project in the web client and the two texts edited on it: *)
(* the world document (components/editor/MarkdownEditor.tsx) and the init  *)
(* prompt (InitPromptEditor.tsx), each in a tab that is unmounted when     *)
(* another is chosen.  A text is saved a second after the last edit, the   *)
(* world document also when its input loses the focus; saves of one or of  *)
(* both editors may be under way together (stores/projectStore.ts).  A     *)
(* project is kept by a lasting backend or else by the browser.            *)
(*                                                                         *)
(* A text is a number, each edit makes the next one; 0 is the empty text.  *)
(* "author" has the project a text was made in, "newest" the last world    *)
(* document of a project that was typed or accepted.  "excused" tells that *)
(* an edit may have been lost in one of the ways the code allows: a text   *)
(* was waiting when its editor went away, the project was replaced under a *)
(* mounted editor, a row read before a save was shown after it, two saves  *)
(* were under way together, a save failed, a generation ended after its    *)
(* editor had gone.                                                        *)
(***************************************************************************)
EXTENDS Naturals, Sequences

CONSTANTS MaxTexts,     \* bound: texts written
          MaxVisits     \* bound: visits of the page

VARIABLE panel

Projects == {"p", "q"}

EmptyRow == [doc |-> 0, prompt |-> 0]

Init == \E lasting \in BOOLEAN :
            panel = [lasting |-> lasting, stored |-> [id \in Projects |-> EmptyRow],
                     visits |-> 0, route |-> "list", loading |-> FALSE, listing |-> FALSE, loads |-> {},
                     current |-> [id |-> "none", row |-> EmptyRow], tab |-> "world",
                     content |-> 0, timer |-> {}, revision |-> {}, generating |-> {},
                     draft |-> 0, promptTimers |-> {}, saves |-> {},
                     author |-> <<>>, newest |-> [id \in Projects |-> 0], excused |-> {}]

-----------------------------------------------------------------------------
(* Which editor is mounted                                                 *)

Editing(p, tab) ==
    p.route # "list" /\ ~p.loading /\ p.current.id # "none" /\ p.tab = tab

\* The effect on currentProject?.id, also run when the editor is mounted: a
\* text that waits is dropped.
WorldShown(p) == [p EXCEPT !.content = p.current.row.doc, !.timer = {}]

\* Unmounting clears the timer, and an input that is taken away with the focus
\* in it is not told of leaving: a text that waits is lost.  A generation goes
\* on without its editor.
WorldLeft(p) ==
    [p EXCEPT !.content = 0, !.timer = {}, !.revision = {},
              !.generating = {[g EXCEPT !.alive = FALSE] : g \in @},
              !.excused = IF p.timer = {} THEN @ ELSE @ \cup {"lost"}]

WorldRendered(old, new) ==
    CASE ~Editing(old, "world") /\ Editing(new, "world") -> WorldShown(new)
      [] Editing(old, "world") /\ ~Editing(new, "world") -> WorldLeft(new)
      [] Editing(old, "world") /\ Editing(new, "world") /\ old.current.id # new.current.id ->
            [WorldShown(new) EXCEPT !.excused = {"replaced", "lost"}]
      [] OTHER -> new

\* The timers of the other editor are never cleared from outside.
PromptRendered(old, new) ==
    CASE Editing(new, "prompt") /\ (~Editing(old, "prompt") \/ old.current.id # new.current.id) ->
            [new EXCEPT !.draft = new.current.row.prompt]
      [] Editing(old, "prompt") /\ ~Editing(new, "prompt") ->
            [new EXCEPT !.draft = 0,
                        !.promptTimers = {[t EXCEPT !.own = FALSE] : t \in @}]
      [] OTHER -> new

Rendered(old, new) == PromptRendered(old, WorldRendered(old, new))

-----------------------------------------------------------------------------
(* Saving                                                                  *)

\* A slip: the project is the one that is open when the save begins.
SaveBegunHere(p, id, field, text) ==
    [p EXCEPT !.saves = @ \cup {[id |-> p.current.id, field |-> field, text |-> text,
                                 base |-> {}, done |-> FALSE]}]

\* updateWorldDoc, updateProject: what is merged into is taken from the store
\* before the first await.
SaveBegun(p, id, field, text) ==
    LET base == IF p.current.id = id /\ ~p.lasting THEN {p.current.row} ELSE {}
    IN  [p EXCEPT !.saves = @ \cup {[id |-> id, field |-> field, text |-> text,
                                     base |-> base, done |-> FALSE]},
                  !.excused = IF @ # {} \/ p.saves = {} THEN @ ELSE @ \cup {"lost"}]

\* An empty prompt is sent as undefined, which does not reach a backend.
Merged(save) ==
    LET row == IF save.base = {} THEN panel.stored[save.id] ELSE CHOOSE r \in save.base : TRUE
    IN  IF panel.lasting /\ save.field = "prompt" /\ save.text = 0 THEN row
        ELSE [row EXCEPT ![save.field] = save.text]

SaveStores ==
    \E save \in panel.saves :
        /\ ~save.done
        /\ panel' = [panel EXCEPT !.stored[save.id] = Merged(save),
                                  !.saves = (@ \ {save}) \cup
                                      {[save EXCEPT !.base = {Merged(save)}, !.done = TRUE]}]

\* The answer, the whole row, replaces the current project.
SaveReturns ==
    \E save \in panel.saves :
        /\ save.done
        /\ panel' = [panel EXCEPT !.saves = @ \ {save},
                                  !.current.row = IF panel.current.id = save.id
                                                  THEN CHOOSE r \in save.base : TRUE ELSE @]

SaveFails ==
    \E save \in panel.saves :
        /\ ~save.done
        /\ panel' = [panel EXCEPT !.saves = @ \ {save}, !.excused = @ \cup {"lost"}]

-----------------------------------------------------------------------------
(* The page                                                                *)

\* A slip: the timer is cleared, the text not saved.
BlurredEmpty(p) == [p EXCEPT !.timer = {}]

\* The focus leaves the input of the world document: what waits is saved at
\* once.  A button on the page takes the focus; the tabs change on the press
\* of the mouse, before it, and the back key of the browser not at all.
Blurred(p) ==
    IF \E t \in p.timer : t.typed
    THEN LET t == CHOOSE t \in p.timer : TRUE
         IN  SaveBegun([p EXCEPT !.timer = {}], p.current.id, "doc", t.text)
    ELSE p

\* The row of the last visit is still in the store while the new one loads.
Enter ==
    /\ panel.route = "list" /\ panel.visits < MaxVisits
    /\ \E id \in Projects :
          panel' = Rendered(panel, [panel EXCEPT !.visits = @ + 1, !.route = id,
                                                 !.tab = "world", !.loading = TRUE,
                                                 !.loads = @ \cup {[id |-> id, visit |-> panel.visits,
                                                                   row |-> {}]}])

Leave ==
    /\ panel.route # "list"
    /\ panel' = Rendered(panel, [panel EXCEPT !.route = "list", !.loading = TRUE, !.listing = TRUE])

ListAnswered ==
    /\ panel.listing
    /\ panel' = Rendered(panel, [panel EXCEPT !.listing = FALSE, !.loading = FALSE])

\* selectProject: the row is read in the backend or the browser.
LoadRead ==
    \E load \in panel.loads :
        /\ load.row = {}
        /\ panel' = [panel EXCEPT !.loads = (@ \ {load}) \cup
                                      {[load EXCEPT !.row = {panel.stored[load.id]}]}]

\* The row becomes the current project, whatever has been saved since.
Loaded ==
    \E load \in panel.loads : \E row \in load.row :
        panel' = Rendered(panel, [panel EXCEPT !.loads = @ \ {load}, !.loading = FALSE,
                                    !.current = [id |-> load.id, row |-> row],
                                    !.excused = IF row = panel.stored[load.id] THEN @
                                                ELSE @ \cup {"lost"}])

LoadFails ==
    \E load \in panel.loads :
        panel' = Rendered(panel, [panel EXCEPT !.loads = @ \ {load}, !.loading = FALSE])

SwitchTab ==
    /\ panel.route # "list" /\ ~panel.loading /\ panel.current.id # "none"
    /\ \E tab \in {"world", "prompt"} \ {panel.tab} :
          panel' = Rendered(panel, [panel EXCEPT !.tab = tab])

-----------------------------------------------------------------------------
(* The world document                                                      *)

NextText == Len(panel.author) + 1

Room == NextText <= MaxTexts

\* A slip: the timer is set anew, the old one not cleared.
QueuedTwice(p, text, typed) ==
    [p EXCEPT !.content = text, !.newest[p.current.id] = text,
              !.timer = @ \cup {[id |-> p.current.id, text |-> text, typed |-> typed]}]

\* debouncedSave: one text waits, the last one.
Queued(p, text, typed) ==
    [p EXCEPT !.content = text, !.newest[p.current.id] = text,
              !.timer = {[id |-> p.current.id, text |-> text, typed |-> typed]}]

Written(p, id) == [p EXCEPT !.author = Append(@, id)]

\* handleBodyChange, handleChange, handleBodyPaste.
TypeDoc ==
    /\ Room /\ Editing(panel, "world") /\ ~(\E r \in panel.revision : r.ready)
    /\ panel' = Queued(Written(panel, panel.current.id), NextText, TRUE)

\* A field of the front matter: its input does not save when it is left.
UpdateMeta ==
    /\ Room /\ Editing(panel, "world")
    /\ panel.content # 0 /\ panel.generating = {} /\ ~(\E r \in panel.revision : r.ready)
    /\ panel' = Queued(Written(panel, panel.current.id), NextText, FALSE)

UseSkeleton ==
    /\ Room /\ Editing(panel, "world")
    /\ panel.content = 0 \/ \E g \in panel.generating : g.alive
    /\ panel' = Queued(Written(panel, panel.current.id), NextText, FALSE)

TimerFires ==
    \E t \in panel.timer :
        panel' = SaveBegun([panel EXCEPT !.timer = @ \ {t}], t.id, "doc", t.text)

HandleBlur ==
    /\ \E t \in panel.timer : t.typed
    /\ panel' = Blurred(panel)

\* The revision is made of the text as it is now.
HandleRevise ==
    /\ Editing(panel, "world") /\ panel.content # 0
    /\ panel.revision = {} /\ panel.generating = {}
    /\ LET p == Blurred(panel)
       IN  panel' = [p EXCEPT !.revision = {[ready |-> FALSE, text |-> 0]}]

Revised ==
    /\ Room
    /\ \E r \in panel.revision :
          /\ ~r.ready
          /\ panel' = Written([panel EXCEPT !.revision = {[ready |-> TRUE, text |-> NextText]}],
                              panel.current.id)

ReviseFails ==
    /\ \E r \in panel.revision : ~r.ready
    /\ panel' = [panel EXCEPT !.revision = {}]

HandleAccept ==
    \E r \in panel.revision :
        /\ r.ready
        /\ panel' = [Queued(panel, r.text, FALSE) EXCEPT !.revision = {}]

HandleReject ==
    /\ \E r \in panel.revision : r.ready
    /\ panel' = [panel EXCEPT !.revision = {}]

\* generateWorldStream: the document comes in parts, first of all the text
\* it will be in the end.
HandleGenerate ==
    /\ Room /\ Editing(panel, "world") /\ panel.content = 0 /\ panel.generating = {}
    /\ panel' = Written([Blurred(panel) EXCEPT
                            !.generating = {[id |-> panel.current.id, text |-> NextText,
                                             alive |-> TRUE]}],
                        panel.current.id)

Chunk ==
    \E g \in panel.generating :
        /\ g.alive /\ panel.content # g.text
        /\ panel' = [panel EXCEPT !.content = g.text]

\* The finished document waits to be saved to the project it was asked for,
\* even when its editor is gone.
Generated ==
    \E g \in panel.generating :
        /\ panel' =
             IF g.alive
             THEN [panel EXCEPT !.generating = {}, !.content = g.text, !.newest[g.id] = g.text,
                                !.timer = {[id |-> g.id, text |-> g.text, typed |-> FALSE]}]
             ELSE SaveBegun([panel EXCEPT !.generating = {}, !.newest[g.id] = g.text,
                                          !.excused = @ \cup {"lost"}], g.id, "doc", g.text)

\* What has come is shown and not saved.
GenerateFails ==
    /\ panel.generating # {}
    /\ panel' = [panel EXCEPT !.generating = {}]

-----------------------------------------------------------------------------
(* The init prompt                                                         *)

PromptQueued(p, text) ==
    [p EXCEPT !.draft = text,
              !.promptTimers = {t \in @ : ~t.own} \cup {[text |-> text, own |-> TRUE]}]

TypePrompt ==
    /\ Room /\ Editing(panel, "prompt")
    /\ panel' = PromptQueued(Written(panel, panel.current.id), NextText)

ResetPrompt ==
    /\ Editing(panel, "prompt") /\ panel.draft # 0
    /\ panel' = PromptQueued(panel, 0)

\* Saved to whatever project is the current one by now.
PromptTimerFires ==
    \E t \in panel.promptTimers :
        LET p == [panel EXCEPT !.promptTimers = @ \ {t}]
        IN  panel' = IF p.current.id = "none" THEN p
                     ELSE SaveBegun(p, p.current.id, "prompt", t.text)

-----------------------------------------------------------------------------

Answers == SaveStores \/ SaveReturns \/ SaveFails \/ TimerFires

Player == \/ TypeDoc \/ UpdateMeta \/ UseSkeleton \/ HandleBlur
          \/ HandleRevise \/ HandleAccept \/ HandleReject \/ HandleGenerate
          \/ TypePrompt \/ ResetPrompt

\* A bound: after a loss the player only comes and goes.
Next == \/ Enter \/ Leave \/ ListAnswered \/ LoadRead \/ Loaded \/ LoadFails
        \/ panel.excused = {} /\ (Player \/ SwitchTab)
        \/ Revised \/ ReviseFails \/ Chunk \/ Generated \/ GenerateFails
        \/ PromptTimerFires
        \/ Answers

Spec == Init /\ [][Next]_panel /\ WF_panel(Answers)

-----------------------------------------------------------------------------

Texts == 0..MaxTexts

TypeOK ==
    /\ panel.route \in Projects \cup {"list"}
    /\ panel.stored \in [Projects -> [doc : Texts, prompt : Texts]]
    /\ panel.current.id \in Projects \cup {"none"}
    /\ panel.content \in Texts /\ panel.draft \in Texts
    /\ panel.saves \subseteq [id : Projects, field : {"doc", "prompt"}, text : Texts,
                              base : SUBSET [doc : Texts, prompt : Texts], done : BOOLEAN]
    /\ panel.excused \subseteq {"replaced", "lost"}

\* A world document is saved to the project it was made in and to no other,
\* whichever timer, answer or generation comes late, as long as the project
\* is not replaced under a mounted editor.
DocStaysHome ==
    "replaced" \in panel.excused \/
        \A id \in Projects :
            LET doc == panel.stored[id].doc IN doc # 0 => panel.author[doc] = id

\* Through tab switches, visits of the list, late answers and revisions the
\* newest world document of a project waits, is on its way or is stored:
\* nothing older is put in its place.  The exceptions are the losses listed
\* above; a text whose input has lost the focus, or that has waited for its
\* second, is not among them.
NewestDocKept ==
    panel.excused = {} =>
        \A id \in Projects :
            \/ panel.stored[id].doc = panel.newest[id]
            \/ \E t \in panel.timer : t.id = id /\ t.text = panel.newest[id]
            \/ \E save \in panel.saves : ~save.done /\ save.id = id /\ save.text = panel.newest[id]

\* When no save is under way the current project is as it is stored, unless it
\* was read before a save and shown after it, or another loss has happened.
CurrentIsStored ==
    (panel.excused = {} /\ panel.saves = {} /\ panel.current.id # "none") =>
        panel.current.row = panel.stored[panel.current.id]

\* The newest document is stored in the end, unless it is lost or the player
\* goes on writing.
NewestDocStored ==
    \A id \in Projects :
        panel.stored[id].doc # panel.newest[id] ~>
            panel.stored[id].doc = panel.newest[id] \/ panel.excused # {}
=============================================================================
