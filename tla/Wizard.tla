------------------------------- MODULE Wizard -------------------------------
(***************************************************************************)
(* The list of projects and the wizard that makes a new one (pages/        *)
(* ProjectListPage.tsx, components/editor/CreateProjectWizard.tsx): blank, *)
(* from a template or from a world the model writes.  Opening the wizard   *)
(* resets most of its state but stops none of its requests; closing it     *)
(* resets nothing.                                                         *)
(*                                                                         *)
(* A document is "" or the name of its template or of the run that wrote   *)
(* it; the parts of a generated one have the name of their run.            *)
(***************************************************************************)
EXTENDS Naturals

CONSTANTS MaxProjects,  \* bound: projects made
          MaxRuns       \* bound: generations

VARIABLE panel

Slugs == {"zh-1", "en-1"}

Language(slug) == IF slug = "zh-1" THEN "zh" ELSE "en"

RunNames == {"run-1", "run-2"}

Docs == {"", "edited"} \cup Slugs \cup RunNames

Modes == {"none", "blank", "template", "ai"}

Fresh == [step |-> "info", named |-> FALSE, mode |-> "none", templates |-> {},
          filter |-> "all", slug |-> "", preview |-> "", genre |-> FALSE,
          doc |-> ""]

\* "raw", the flags of what is under way and the requests outlive an opening.
Init == panel = [page |-> "list", open |-> FALSE, form |-> Fresh, raw |-> "",
                 listing |-> FALSE, loading |-> FALSE, selecting |-> {},
                 generating |-> {}, runs |-> 0, creating |-> {},
                 listed |-> {}, deleting |-> {}, confirm |-> {}, made |-> 0, kept |-> {}]

-----------------------------------------------------------------------------
(* The list                                                                *)

OpenWizard ==
    /\ panel.page = "list" /\ ~panel.open /\ panel.confirm = {}
    /\ panel' = [panel EXCEPT !.open = TRUE, !.form = Fresh]

\* The cross, the escape key and "cancel".
CloseWizard ==
    /\ panel.open
    /\ panel' = [panel EXCEPT !.open = FALSE]

\* The page goes, and the wizard's state with it; its requests go on.
PageLeft(p) ==
    [p EXCEPT !.page = "project", !.open = FALSE, !.form = Fresh, !.raw = "",
              !.listing = FALSE, !.loading = FALSE, !.selecting = {}, !.generating = {},
              !.confirm = {}, !.creating = {[c EXCEPT !.alive = FALSE] : c \in @}]

OpenProject ==
    /\ panel.page = "list" /\ ~panel.open
    /\ panel.listed \ panel.confirm # {}
    /\ panel' = PageLeft(panel)

\* The list is fetched when the page is mounted.
BackToList ==
    /\ panel.page = "project"
    /\ panel' = [panel EXCEPT !.page = "list", !.listed = panel.kept]

AskDelete ==
    /\ panel.page = "list" /\ ~panel.open
    /\ \E id \in panel.listed : panel' = [panel EXCEPT !.confirm = {id}]

KeepProject ==
    /\ panel.confirm # {}
    /\ panel' = [panel EXCEPT !.confirm = {}]

ConfirmDelete ==
    /\ panel.page = "list" /\ ~panel.open /\ panel.confirm # {}
    /\ panel' = [panel EXCEPT !.deleting = @ \cup panel.confirm, !.confirm = {}]

\* A failure of the backend is logged, the project leaves the list.
Deleted ==
    \E id \in panel.deleting :
        \/ panel' = [panel EXCEPT !.deleting = @ \ {id}, !.listed = @ \ {id}, !.kept = @ \ {id}]
        \/ panel' = [panel EXCEPT !.deleting = @ \ {id}, !.listed = @ \ {id}]

-----------------------------------------------------------------------------
(* The steps of the form                                                   *)

On(step, mode) == panel.open /\ panel.form.step = step /\ panel.form.mode = mode

NameProject ==
    /\ On("info", "none")
    /\ panel' = [panel EXCEPT !.form.named = TRUE]

NextStep ==
    /\ On("info", "none") /\ panel.form.named
    /\ panel' = [panel EXCEPT !.form.step = "world"]

Previous ==
    /\ On("world", "none")
    /\ panel' = [panel EXCEPT !.form.step = "info"]

\* The templates are fetched anew whenever this mode is chosen.
ChooseMode ==
    /\ On("world", "none")
    /\ \E mode \in Modes \ {"none"} :
          panel' = [panel EXCEPT !.form.mode = mode, !.listing = @ \/ mode = "template"]

TemplatesAnswered ==
    /\ panel.listing
    /\ \E templates \in {{}, Slugs} :
          panel' = [panel EXCEPT !.listing = FALSE,
                                 !.form.templates = IF templates = {} THEN @ ELSE templates]

Back ==
    /\ panel.open
    /\ \/ /\ panel.form.mode = "template"
          /\ panel' = [panel EXCEPT !.form.mode = "none", !.form.slug = "", !.form.preview = ""]
       \/ /\ panel.form.mode = "ai" /\ panel.generating = {}
          /\ panel' = [panel EXCEPT !.form.mode = "none", !.form.doc = ""]

-----------------------------------------------------------------------------
(* Templates                                                               *)

FilteredTemplates ==
    {slug \in panel.form.templates :
        panel.form.filter = "all" \/ Language(slug) = panel.form.filter}

SetFilter ==
    /\ On("world", "template") /\ panel.form.slug = "" /\ ~panel.listing
    /\ \E filter \in {"all", "zh", "en"} \ {panel.form.filter} :
          panel' = [panel EXCEPT !.form.filter = filter]

HandleSelectTemplate ==
    /\ On("world", "template") /\ panel.form.slug = "" /\ ~panel.listing
    /\ \E slug \in FilteredTemplates :
          panel' = [panel EXCEPT !.form.slug = slug, !.loading = TRUE, !.selecting = @ \cup {slug}]

\* The preview is cleared, not the raw text behind it.
ChooseDifferent ==
    /\ On("world", "template") /\ panel.form.slug # ""
    /\ panel' = [panel EXCEPT !.form.slug = "", !.form.preview = ""]

\* A slip: only the text behind the preview is taken from a late answer.
SelectAnsweredHalf ==
    \E slug \in panel.selecting :
        panel' = [panel EXCEPT !.selecting = @ \ {slug}, !.loading = FALSE, !.raw = slug,
                               !.form.preview = IF slug = panel.form.slug \/ @ = "" THEN slug ELSE @]

\* Whatever is selected by now, and even if it is nothing.
SelectAnswered ==
    \E slug \in panel.selecting :
        \/ panel' = [panel EXCEPT !.selecting = @ \ {slug}, !.loading = FALSE,
                                  !.form.preview = slug, !.raw = slug]
        \/ panel' = [panel EXCEPT !.selecting = @ \ {slug}, !.loading = FALSE]

-----------------------------------------------------------------------------
(* Generated worlds                                                        *)

FillGenre ==
    /\ On("world", "ai") /\ panel.generating = {} /\ panel.form.doc = ""
    /\ panel' = [panel EXCEPT !.form.genre = ~@]

HandleGenerate ==
    /\ On("world", "ai") /\ panel.generating = {} /\ panel.form.doc = ""
    /\ panel.form.genre /\ panel.runs < MaxRuns
    /\ LET run == IF panel.runs = 0 THEN "run-1" ELSE "run-2"
       IN  panel' = [panel EXCEPT !.generating = {run}, !.runs = @ + 1]

Chunk ==
    \E run \in panel.generating : panel' = [panel EXCEPT !.form.doc = run]

\* Also on an error: what has come by then stays.
GenerateEnds ==
    /\ panel.generating # {}
    /\ panel' = [panel EXCEPT !.generating = {}]

EditDoc ==
    /\ On("world", "ai") /\ panel.generating = {} /\ panel.form.doc # ""
    /\ \E doc \in {"", "edited"} \ {panel.form.doc} :
          panel' = [panel EXCEPT !.form.doc = doc]

-----------------------------------------------------------------------------
(* Creating                                                                *)

\* What the page shows in place of a document.
Spinner == "spinner"

HandleCreate(doc, shown) ==
    /\ ~\E c \in panel.creating : c.alive
    /\ panel.made < MaxProjects
    /\ panel' = [panel EXCEPT !.made = @ + 1,
                              !.creating = @ \cup {[id |-> panel.made + 1, doc |-> doc, shown |-> shown,
                                                    alive |-> TRUE, stored |-> FALSE]}]

CreateBlank == On("world", "blank") /\ HandleCreate("", "")

CreateFromTemplate ==
    /\ On("world", "template")
    /\ panel.form.slug # "" /\ panel.form.preview # "" /\ ~panel.loading
    /\ HandleCreate(IF panel.raw = "" THEN panel.form.preview ELSE panel.raw, panel.form.preview)

\* Offered as soon as a part of the document is there, although the page
\* shows a spinner and no document until the generation has ended.
CreateGenerated ==
    /\ On("world", "ai") /\ panel.form.doc # ""
    /\ HandleCreate(panel.form.doc, IF panel.generating = {} THEN panel.form.doc ELSE Spinner)

CreateStored ==
    \E c \in panel.creating :
        /\ ~c.stored
        /\ panel' = [panel EXCEPT !.creating = (@ \ {c}) \cup {[c EXCEPT !.stored = TRUE]},
                                  !.kept = @ \cup {c.id}]

\* The page of the new project is opened from wherever the player is, also
\* from a later opening of the wizard.
Created ==
    \E c \in panel.creating :
        /\ c.stored
        /\ panel' = PageLeft([panel EXCEPT !.creating = @ \ {c}, !.listed = @ \cup {c.id}])

\* Before it is stored or after, in the browser: the wizard stays open.
CreateFails ==
    \E c \in panel.creating : panel' = [panel EXCEPT !.creating = @ \ {c}]

-----------------------------------------------------------------------------

List == OpenWizard \/ OpenProject \/ BackToList \/ AskDelete \/ KeepProject
        \/ ConfirmDelete \/ Deleted

Form == \/ CloseWizard \/ NameProject \/ NextStep \/ Previous \/ ChooseMode \/ Back
        \/ SetFilter \/ HandleSelectTemplate \/ ChooseDifferent
        \/ FillGenre \/ HandleGenerate \/ EditDoc
        \/ CreateBlank \/ CreateFromTemplate \/ CreateGenerated

Next == List \/ Form \/ TemplatesAnswered \/ SelectAnswered \/ Chunk \/ GenerateEnds
        \/ CreateStored \/ Created \/ CreateFails

Spec == Init /\ [][Next]_panel

-----------------------------------------------------------------------------

TypeOK ==
    /\ panel.page \in {"list", "project"}
    /\ panel.form.mode \in Modes
    /\ {panel.raw, panel.form.preview, panel.form.doc} \subseteq Docs
    /\ panel.selecting \subseteq Slugs /\ panel.generating \subseteq RunNames
    /\ panel.kept \cup panel.listed \cup panel.deleting \subseteq 1..panel.made
    /\ \A c, d \in panel.creating : c.alive /\ d.alive => c = d

\* A project gets the document the player saw when the button was pressed,
\* although templates are chosen faster than they are loaded, answers of an
\* earlier choice or an earlier opening come late, and the raw text behind
\* the preview is cleared at other moments than the preview.  The exception is
\* a project made while its world is written: it gets what has come of that
\* generation by then, which nobody has seen.
CreatedAsShown ==
    \A c \in panel.creating :
        c.doc = c.shown \/ (c.shown = Spinner /\ c.doc \in RunNames)
=============================================================================
