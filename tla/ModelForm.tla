------------------------------ MODULE ModelForm -----------------------------
(***************************************************************************)
(* The models a project is played with: the form they are chosen in        *)
(* (components/editor/ModelSettings.tsx), the record of them the browser   *)
(* keeps (utils/browserLlmConfig.ts) and the row of the project.  Saving   *)
(* writes both; what is sent with a command comes from the record alone.   *)
(*                                                                         *)
(* "model" stands for the name and the base of the model of the game,      *)
(* "image" for those of the image model; only the browser keeps keys, of   *)
(* which "pluginKey" is one.  "env" is the model of the server.            *)
(***************************************************************************)
EXTENDS Naturals

CONSTANT MaxActs    \* bound: what the player does in the form

VARIABLE panel

Fields == {"model", "image", "plugin", "pluginKey"}

OfPlugin == {"plugin", "pluginKey"}

OfProject == {"model", "image"}

Texts(field) == IF field = "model" THEN {"", "a", "env"} ELSE {"", "a"}

Blank == [field \in Fields |-> ""]

NoModels == [field \in OfProject |-> ""]

\* "record" is the browser's, "row" the stored project and "project" the
\* page's copy of it; "plain" and "auto" are the switch for the path that is
\* appended to the base of the image model, kept and shown; "wanted" is what
\* the player saved and has not changed since.
Init == \E lasting \in BOOLEAN :
            panel = [lasting |-> lasting, mounted |-> FALSE, record |-> Blank, plain |-> FALSE,
                     row |-> NoModels, project |-> NoModels, form |-> Blank, auto |-> TRUE,
                     same |-> TRUE, chose |-> FALSE, info |-> "", asking |-> FALSE,
                     saving |-> FALSE, testing |-> FALSE, updates |-> {}, wanted |-> Blank,
                     acts |-> 0]

-----------------------------------------------------------------------------
(* What is kept and what is shown of it                                    *)

\* writeConfig: blank fields are left out, and a record without any text and
\* with the switch off is not kept at all.
Written(p, record, auto) ==
    IF record = Blank /\ ~auto THEN [p EXCEPT !.record = Blank, !.plain = FALSE]
    ELSE [p EXCEPT !.record = record, !.plain = ~auto]

\* getBrowserLlmConfig first, then the project.
OnMount(p, field) ==
    IF p.record[field] = "" /\ field \in OfProject THEN p.project[field] ELSE p.record[field]

\* buildBrowserLlmOverrides and buildBrowserImageOverrides: the key of the
\* plugin model does not go alone.
Sent(p, field) ==
    IF field \in OfPlugin /\ p.record["model"] = "" /\ p.record["plugin"] = ""
    THEN "" ELSE p.record[field]

\* Without a model of its own the form shows the one of the server.
Backfilled(p) ==
    IF p.info # "" /\ OnMount(p, "model") = "" /\ p.form["model"] = ""
    THEN [p EXCEPT !.form["model"] = p.info] ELSE p

OpenTab ==
    /\ ~panel.mounted
    /\ panel' = [panel EXCEPT !.mounted = TRUE, !.asking = TRUE,
                              !.form = [field \in Fields |-> OnMount(panel, field)],
                              !.auto = ~panel.plain, !.same = panel.record["plugin"] = ""]

\* Answers under way no longer find the form.
CloseTab ==
    /\ panel.mounted
    /\ panel' = [panel EXCEPT !.mounted = FALSE, !.form = Blank, !.auto = TRUE, !.same = TRUE,
                              !.chose = FALSE, !.info = "", !.asking = FALSE,
                              !.saving = FALSE, !.testing = FALSE,
                              !.updates = {[u EXCEPT !.alive = FALSE] : u \in @}]

\* The server knows the models of a project only if it keeps them.
InfoAnswered ==
    /\ panel.asking
    /\ \/ LET known == panel.lasting /\ panel.row["model"] # ""
          IN  panel' = Backfilled([panel EXCEPT !.asking = FALSE,
                                                !.info = IF known THEN panel.row["model"] ELSE "env"])
       \/ panel' = [panel EXCEPT !.asking = FALSE]

-----------------------------------------------------------------------------
(* The form                                                                *)

\* The form is there, and its use is counted.
Act(p) == [p EXCEPT !.acts = @ + 1]

Usable == panel.mounted /\ panel.acts < MaxActs

Edits(fields) ==
    /\ Usable
    /\ \E field \in fields : \E text \in Texts(field) \ {panel.form[field]} :
          panel' = Act([panel EXCEPT !.form[field] = text])

EditModel == Edits({"model"})

EditPluginModel == ~panel.same /\ Edits(OfPlugin)

EditImageModel == Edits({"image"})

\* A preset replaces name and base; that of a local service the key as well.
HandlePresetClick ==
    /\ Usable
    /\ panel' = Act([panel EXCEPT !.form["model"] = "a"])

ChoosePluginModel ==
    /\ Usable
    /\ \E same \in BOOLEAN : panel' = Act([panel EXCEPT !.same = same, !.chose = TRUE])

ToggleAutoSuffix ==
    /\ Usable
    /\ panel' = Act([panel EXCEPT !.auto = ~@])

\* The test asks for the model that was saved, not for the one in the form.
HandleTest ==
    /\ Usable /\ ~panel.testing
    /\ panel' = Act([panel EXCEPT !.testing = TRUE])

TestAnswered ==
    /\ panel.testing
    /\ panel' = [panel EXCEPT !.testing = FALSE]

-----------------------------------------------------------------------------
(* Saving                                                                  *)

Updating(p, models, reset) ==
    [Act(p) EXCEPT !.saving = TRUE,
              !.updates = @ \cup {[models |-> models, reset |-> reset, alive |-> TRUE]}]

\* A slip: the fields of the plugin model are kept only with a model.
EnteredAlways(p) ==
    [field \in Fields |->
        IF field \in OfPlugin /\ ~p.chose THEN ""
        ELSE IF field = "model" /\ p.form["model"] = "" THEN p.info
        ELSE p.form[field]]

\* An empty field means the model of the server; plugins that share the model
\* of the game have none of their own.
Entered(p) ==
    [field \in Fields |->
        IF field \in OfPlugin /\ p.same THEN ""
        ELSE IF field = "model" /\ p.form["model"] = "" THEN p.info
        ELSE p.form[field]]

\* The record at once, the project by a request.
HandleSave ==
    /\ Usable /\ ~panel.saving
    /\ LET entered == Entered(panel)
           shown(field) == IF field \in OfPlugin /\ panel.same
                           THEN IF panel.chose THEN "" ELSE panel.wanted[field]
                           ELSE panel.form[field]
       IN  panel' = [Updating(Written(panel, entered, panel.auto),
                              [field \in OfProject |-> entered[field]], FALSE)
                        EXCEPT !.form["model"] = entered["model"],
                               !.wanted = [field \in Fields |-> shown(field)]]

HandleReset ==
    /\ Usable /\ ~panel.saving
    /\ panel' = [Updating(Written(panel, Blank, FALSE), NoModels, TRUE)
                    EXCEPT !.wanted = Blank]

\* Blank fields are undefined: a lasting backend never gets to see them, in
\* the browser they clear what the project had.
Stored(u) ==
    [field \in OfProject |->
        IF u.models[field] = "" /\ panel.lasting THEN panel.row[field] ELSE u.models[field]]

\* The project is replaced, the form of a reset cleared; the server is asked
\* again for its model.
Updated ==
    \E u \in panel.updates :
        LET done == [panel EXCEPT !.updates = @ \ {u}, !.row = Stored(u), !.project = Stored(u)]
        IN  panel' =
              IF ~u.alive THEN Backfilled(done)
              ELSE IF u.reset
              THEN [done EXCEPT !.saving = FALSE, !.asking = TRUE, !.form = Blank,
                                !.auto = TRUE, !.same = TRUE]
              ELSE Backfilled([done EXCEPT !.saving = FALSE, !.asking = TRUE])

\* A failure is not shown, and the record is written all the same.
UpdateFails ==
    \E u \in panel.updates :
        panel' = [panel EXCEPT !.updates = @ \ {u}, !.saving = @ /\ ~u.alive]

-----------------------------------------------------------------------------

Form == \/ EditModel \/ EditPluginModel \/ EditImageModel \/ HandlePresetClick
        \/ ChoosePluginModel \/ ToggleAutoSuffix \/ HandleTest \/ HandleSave \/ HandleReset

Next == OpenTab \/ CloseTab \/ InfoAnswered \/ Form \/ TestAnswered \/ Updated \/ UpdateFails

Spec == Init /\ [][Next]_panel

-----------------------------------------------------------------------------

TypeOK ==
    /\ \A field \in Fields :
          {panel.record[field], panel.form[field], panel.wanted[field]} \subseteq Texts(field)
    /\ DOMAIN panel.row = OfProject /\ DOMAIN panel.project = OfProject
    /\ panel.info \in {"", "a", "env"}
    /\ panel.saving <=> \E u \in panel.updates : u.alive

\* What the player has saved and not changed since is what the form shows the
\* next time and what goes with the next command, whatever becomes of the
\* request to the backend, of a save or a reset that was left behind by
\* closing the tab, and of further saves; only a key for the model of the
\* plugins needs that model to be kept.
SavedFieldsReturn ==
    \A field \in Fields :
        (panel.wanted[field] # "" /\ (field = "pluginKey" => panel.wanted["plugin"] # "")) =>
            OnMount(panel, field) = panel.wanted[field] /\ Sent(panel, field) = panel.wanted[field]
=============================================================================
