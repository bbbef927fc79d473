---------------------------- MODULE PluginToggles ---------------------------
(***************************************************************************)
(* The switches of a project's plugins: the panel                          *)
(* (components/plugins/PluginPanel.tsx), the list it shows                 *)
(* (stores/pluginStore.ts) and the flags the backend keeps for each        *)
(* project (services/plugin_service.py).  A switch moves only with the     *)
(* list that is fetched after its request; answers are taken whichever     *)
(* project is open by then.                                                *)
(*                                                                         *)
(* "database" is required, "memory" on by default, "codex" neither.  Of    *)
(* the plugins of the repository all dependencies are on required ones, and*)
(* all they supersede are plugins that are not there.                      *)
(***************************************************************************)
EXTENDS Naturals, FiniteSets

CONSTANTS MaxActs,   \* bound: what the player does
          MaxAsked   \* bound: requests under way together

VARIABLE panel

Projects == {"p", "q"}

Plugins == {"database", "memory", "codex"}

Required == {"database"}

DefaultOn == {"memory"}

Dependencies(plugin) == IF plugin \in Required THEN {} ELSE Required

\* "flags" is what is stored.  "newest" is, for each project, the request whose
\* answer about it was read last, none after one was lost; "shown" is the
\* request, and its project, whose list is shown; "strayed" says that requests
\* were under way when the project was opened, or that a list has failed.
Init == panel = [project |-> "none", loaded |-> FALSE, on |-> {}, tied |-> {}, loading |-> FALSE,
                 flags |-> [project \in Projects |-> [plugin \in Plugins |-> "unset"]],
                 requests |-> {}, newest |-> [project \in Projects |-> 0],
                 shown |-> [at |-> 0, project |-> "none"], strayed |-> FALSE,
                 open |-> "none", detail |-> "none", tab |-> "prompt", acts |-> 0]

-----------------------------------------------------------------------------
(* The backend                                                             *)

\* get_enabled_plugins, and who needs the plugin of those.
Enabled(flags) ==
    Required \cup {plugin \in DefaultOn : flags[plugin] # "off"}
             \cup {plugin \in Plugins : flags[plugin] = "on"}

RequiredBy(plugin, enabled) == {other \in enabled : plugin \in Dependencies(other)}

\* toggle_plugin refuses to turn off what is required or depended on.
MayTurnOff(plugin, flags) ==
    plugin \notin Required /\ RequiredBy(plugin, Enabled(flags)) = {}

-----------------------------------------------------------------------------
(* Fetching the list                                                       *)

Asked(p, request) == [p EXCEPT !.requests = @ \cup {request}]

\* fetchPlugins: all plugins, then those of the project, then the conflicts
\* of their blocks, one after the other.
Fetching(p, project, at) ==
    Asked([p EXCEPT !.loading = TRUE],
          [kind |-> "fetch", project |-> project, at |-> at, phase |-> "all",
           plugin |-> "none", turn |-> FALSE, on |-> {}])

Act(p) == [p EXCEPT !.acts = @ + 1]

Usable == panel.acts < MaxActs /\ Cardinality(panel.requests) < MaxAsked

\* The panel is opened, or another project is.
OpenProject ==
    /\ Usable
    /\ \E project \in Projects \ {panel.project} :
          panel' = Fetching(Act([panel EXCEPT !.project = project,
                                              !.strayed = panel.requests # {}]),
                            project, panel.acts + 1)

Advanced(r, request) == [panel EXCEPT !.requests = (@ \ {r}) \cup {request}]

ListAnswered ==
    \E r \in panel.requests :
        /\ r.phase = "all"
        /\ panel' = Advanced(r, [r EXCEPT !.phase = "enabled"])

\* Without an answer only required plugins count as on.
EnabledAnswered ==
    \E r \in panel.requests :
        /\ r.phase = "enabled"
        /\ panel' = [Advanced(r, [r EXCEPT !.phase = "conflicts",
                                           !.on = Enabled(panel.flags[r.project])])
                        EXCEPT !.newest[r.project] = r.at]

EnabledFails ==
    \E r \in panel.requests :
        /\ r.phase = "enabled"
        /\ panel' = [Advanced(r, [r EXCEPT !.phase = "conflicts", !.on = Required])
                        EXCEPT !.newest[r.project] = 0]

\* The answer to the third request, or its failure, completes the list.
ListShown ==
    \E r \in panel.requests :
        /\ r.phase = "conflicts"
        /\ panel' = [panel EXCEPT !.requests = @ \ {r}, !.loaded = TRUE, !.loading = FALSE,
                                  !.on = r.on, !.shown = [at |-> r.at, project |-> r.project],
                                  !.tied = {plugin \in r.on : RequiredBy(plugin, r.on) # {}}]

ListFails ==
    \E r \in panel.requests :
        /\ r.phase = "all"
        /\ panel' = [panel EXCEPT !.requests = @ \ {r}, !.loading = FALSE,
                                  !.newest[r.project] = 0, !.strayed = TRUE]

-----------------------------------------------------------------------------
(* Switching                                                               *)

Disabled(plugin) == plugin \in Required \/ panel.project = "none" \/ plugin \in panel.tied

\* The switch itself stays where it is.
TogglePlugin ==
    /\ Usable /\ panel.loaded
    /\ \E plugin \in Plugins :
          /\ ~Disabled(plugin)
          /\ panel' = Asked(Act(panel),
                            [kind |-> "toggle", project |-> panel.project, at |-> panel.acts + 1,
                             phase |-> "sent", plugin |-> plugin,
                             turn |-> plugin \notin panel.on, on |-> {}])

ToggleStored ==
    \E r \in panel.requests :
        /\ r.phase = "sent"
        /\ r.turn \/ MayTurnOff(r.plugin, panel.flags[r.project])
        /\ panel' = [Advanced(r, [r EXCEPT !.phase = "stored"])
                        EXCEPT !.flags[r.project][r.plugin] = IF r.turn THEN "on" ELSE "off"]

\* The list of the project the switch was of is fetched again.
ToggleAnswered ==
    \E r \in panel.requests :
        /\ r.phase = "stored"
        /\ panel' = Fetching([panel EXCEPT !.requests = @ \ {r}], r.project, r.at)

\* Refused or lost, before or after it was stored: nothing happens.
ToggleFails ==
    \E r \in panel.requests :
        /\ r.phase \in {"sent", "stored"}
        /\ panel' = [panel EXCEPT !.requests = @ \ {r},
                                  !.newest[r.project] = IF r.phase = "stored" THEN 0 ELSE @]

-----------------------------------------------------------------------------
(* The prompt and the blocks of one plugin                                 *)

Expand ==
    /\ Usable /\ panel.loaded
    /\ \E plugin \in Plugins :
          panel' = IF panel.open = plugin
                   THEN Act([panel EXCEPT !.open = "none", !.detail = "none"])
                   ELSE Act([panel EXCEPT !.open = plugin, !.detail = "loading",
                                          !.tab = "prompt"])

\* The answer for a plugin that was closed again finds no panel.
DetailAnswered ==
    /\ panel.detail = "loading"
    /\ \E answer \in {"shown", "failed"} : panel' = [panel EXCEPT !.detail = answer]

ChooseTab ==
    /\ Usable /\ panel.detail = "shown"
    /\ \E tab \in {"prompt", "blocks"} \ {panel.tab} : panel' = Act([panel EXCEPT !.tab = tab])

-----------------------------------------------------------------------------

Next == \/ OpenProject \/ ListAnswered \/ EnabledAnswered \/ EnabledFails \/ ListShown
        \/ ListFails \/ TogglePlugin \/ ToggleStored \/ ToggleAnswered \/ ToggleFails
        \/ Expand \/ DetailAnswered \/ ChooseTab

Spec == Init /\ [][Next]_panel

-----------------------------------------------------------------------------

TypeOK ==
    /\ panel.on \subseteq Plugins /\ panel.tied \subseteq panel.on
    /\ panel.detail = "none" <=> panel.open = "none"
    /\ panel.loading => panel.requests # {}

\* When nothing is under way and the list that is shown is the one whose answer
\* was read last for its project, the switches show the plugins that the next
\* turn of that project runs with, however switches and lists overlapped.
\* Unless requests were under way when the project was opened, or a list failed,
\* that is the open project: the answer of another may come last.
SwitchesAsStored ==
    (/\ panel.loaded /\ panel.requests = {}
     /\ panel.shown.at = panel.newest[panel.shown.project]) =>
        /\ panel.on = Enabled(panel.flags[panel.shown.project])
        /\ ~panel.strayed => panel.shown.project = panel.project
=============================================================================
