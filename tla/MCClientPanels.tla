--------------------------- MODULE MCClientPanels ---------------------------
(***************************************************************************)
(* The panels of the web client, one at a time: they share nothing but the *)
(* stores each of them models its part of, so a run of all of them is the  *)
(* union of their runs.  "which" is the panel of the behaviour.            *)
(***************************************************************************)
EXTENDS Naturals

CONSTANTS MaxAnswers, MaxMessages, MaxProbes, MaxTexts, MaxVisits, MaxProjects,
          MaxRuns, MaxActs, MaxAsked, MaxFetches, MaxNovels, MaxPieces

\* What the bounds must be for the states to stay what TypeOK says; a block can
\* be answered at least once.
ASSUME PanelsAssumption ==
    /\ MaxAnswers \in Nat \ {0}
    /\ MaxMessages \in Nat /\ MaxProbes \in Nat /\ MaxTexts \in Nat

VARIABLES which, panel

vars == <<which, panel>>

Blocks == INSTANCE BlockForms

Store == INSTANCE LocalStore

Docs == INSTANCE ProjectDocs

New == INSTANCE Wizard

Models == INSTANCE ModelForm

Runtime == INSTANCE RuntimeForm

Switches == INSTANCE PluginToggles

Book == INSTANCE Codex

Story == INSTANCE Novel

Init == \/ which = "blocks" /\ Blocks!Init
        \/ which = "store" /\ Store!Init
        \/ which = "docs" /\ Docs!Init
        \/ which = "new" /\ New!Init
        \/ which = "models" /\ Models!Init
        \/ which = "runtime" /\ Runtime!Init
        \/ which = "switches" /\ Switches!Init
        \/ which = "book" /\ Book!Init
        \/ which = "story" /\ Story!Init

Next == /\ UNCHANGED which
        /\ \/ which = "blocks" /\ Blocks!Next
           \/ which = "store" /\ Store!Next
           \/ which = "docs" /\ Docs!Next
           \/ which = "new" /\ New!Next
           \/ which = "models" /\ Models!Next
           \/ which = "runtime" /\ Runtime!Next
           \/ which = "switches" /\ Switches!Next
           \/ which = "book" /\ Book!Next
           \/ which = "story" /\ Story!Next

\* Timers fire, and requests are answered or fail.
DocsAnswer == which = "docs" /\ Docs!Answers /\ UNCHANGED which

Spec == Init /\ [][Next]_vars /\ WF_vars(DocsAnswer)

-----------------------------------------------------------------------------

PanelsTypeOK ==
    /\ which = "blocks" => Blocks!TypeOK
    /\ which = "store" => Store!TypeOK
    /\ which = "docs" => Docs!TypeOK
    /\ which = "new" => New!TypeOK
    /\ which = "models" => Models!TypeOK
    /\ which = "runtime" => Runtime!TypeOK
    /\ which = "switches" => Switches!TypeOK
    /\ which = "book" => Book!TypeOK
    /\ which = "story" => Story!TypeOK

\* What the player has entered in a block outlives the list being rebuilt, and
\* the sheet of a character that exists sends nothing else, unless its data came
\* again (blockInteractionState.ts, CharacterSheetRenderer.tsx).
DraftSurvivesMounting ==
    which = "blocks" => Blocks!DraftSurvivesMounting /\ Blocks!SheetSendsEdits

\* A block with an answer of its own is answered once, over remounts and
\* whichever renderer is found for it (AutoGuideRenderer.tsx, FormRenderer.tsx,
\* CharacterSheetRenderer.tsx).
AnsweredOnce == which = "blocks" => Blocks!AnsweredOnce

\* While reads go to the browser they find there what was shown and written,
\* unless a detection has overruled a later one that found the backend to last
\* (settingsStorage.ts, idbSync.ts).
ReadsFindWrites == which = "store" => Store!ReadsFindWrites

\* A world document is stored in its own project, unless that is replaced under
\* a mounted editor (MarkdownEditor.tsx).
DocStaysHome == which = "docs" => Docs!DocStaysHome

\* The newest world document is not overtaken by an older one and not dropped,
\* and the store's copy of a project is the stored one, until a text is lost in
\* one of the ways ProjectDocs names (projectStore.ts, MarkdownEditor.tsx).
NewestDocKept == which = "docs" => Docs!NewestDocKept /\ Docs!CurrentIsStored

Unstored(id) == which = "docs" /\ panel.stored[id].doc # panel.newest[id]

\* The newest document of a project is stored in the end, unless it is lost
\* or the player goes on writing (MarkdownEditor.tsx debouncedSave).
NewestDocStored ==
    \A id \in Docs!Projects : Unstored(id) ~> ~Unstored(id) \/ panel.excused # {}

\* What is created or generated is what was shown: the document of a project
\* that is made, unless it is made while that document is being written, and
\* every chapter of a novel (CreateProjectWizard.tsx, NovelPanel.tsx).
GeneratedAsShown ==
    /\ which = "new" => New!CreatedAsShown
    /\ which = "story" => Story!CompleteWithoutError

\* The settings panels show what is stored: the models of a project as they
\* were saved; at rest and with the answer the backend gave last, the overrides
\* of runtime settings and the plugins that are on, of the open session or
\* project unless requests were under way when it was opened
\* (ModelSettings.tsx, RuntimeSettingsPanel.tsx, PluginPanel.tsx).
SettingsReturn ==
    /\ which = "models" => Models!SavedFieldsReturn
    /\ which = "runtime" => Runtime!ShownAsStored
    /\ which = "switches" => Switches!SwitchesAsStored

\* An entry of the codex announced live stays new until it is seen, unless a
\* fetch has read the backend without it (gameDataStore.ts fetchCodexEntries).
NewUntilSeen == which = "book" => Book!NewUntilSeen
=============================================================================
