----------------------------- MODULE RuntimeForm ----------------------------
(***************************************************************************)
(* The settings plugins declare for the running game: the panel they are   *)
(* changed in (components/status/RuntimeSettingsPanel.tsx) and the rows of *)
(* overrides the backend keeps for them, one of the project and one of     *)
(* each session (services/runtime_settings_service.py).  Every change,     *)
(* every keystroke in a text included, is a request of its own that reads  *)
(* a row, writes it back and is answered with what is stored by then.      *)
(* Without a lasting backend no field is listed                            *)
(* (services/settingsStorage.ts), so that case has no panel to model.      *)
(*                                                                         *)
(* "tone" is a text of either scope, "limit" a number of the project with  *)
(* bounds; "wide" is beyond them, "blank" an emptied input.                *)
(***************************************************************************)
EXTENDS Naturals, FiniteSets

CONSTANTS MaxActs,   \* bound: what the player does
          MaxAsked   \* bound: requests under way together

VARIABLE panel

Scopes == {"project", "session"}

Sessions == {"none", "a", "b"}

Owners == {"project", "a", "b"}

Keys == {"tone", "limit"}

ScopesOf(key) == IF key = "tone" THEN Scopes ELSE {"project"}

Raw(key) == IF key = "tone" THEN {"low", "blank"} ELSE {"low", "blank", "wide"}

Unset == [key \in Keys |-> "none"]

NoRows == [owner \in Owners |-> Unset]

NoOverrides == [scope \in Scopes |-> Unset]

\* "rows" is what is stored, "over" the overrides the panel has.  "newest" is
\* the request that was answered last by the backend, none after a refresh
\* that failed; "shown" is the request whose answer is shown, with the session
\* it was made for; "strayed" says that requests were under way when the
\* session changed.
Init == panel = [mounted |-> FALSE, session |-> "none", scope |-> "project",
                 rows |-> NoRows, listed |-> FALSE, over |-> NoOverrides, values |-> Unset,
                 saving |-> "none", requests |-> {}, newest |-> 0,
                 shown |-> [at |-> 0, session |-> "none"], strayed |-> FALSE, acts |-> 0]

-----------------------------------------------------------------------------
(* Values                                                                  *)

\* normalizeValueForField: an emptied number is no value, an emptied text is.
Normalized(key, raw) == IF key = "limit" /\ raw = "blank" THEN "none" ELSE raw

\* resolve_runtime_settings: without a session its overrides do not exist.
Overrides(rows, session) ==
    [scope \in Scopes |-> IF scope = "project" THEN rows["project"]
                          ELSE IF session = "none" THEN Unset ELSE rows[session]]

Effective(over) ==
    [key \in Keys |-> IF over["session"][key] # "none" THEN over["session"][key]
                      ELSE IF over["project"][key] # "none" THEN over["project"][key]
                      ELSE "usual"]

\* Where a change of the field goes, and where the panel looks for "overridden".
TargetScope(p, key) == IF key = "tone" THEN p.scope ELSE "project"

Overridden(p, key) == p.over[TargetScope(p, key)][key] # "none"

\* A text with a localized default shows that one until the override is known.
Displayed(p, key) ==
    IF key = "tone" /\ ~Overridden(p, key) THEN "usual" ELSE p.values[key]

-----------------------------------------------------------------------------
(* Requests                                                                *)

Asked(p, request) == [p EXCEPT !.requests = @ \cup {request}]

\* What a callback asks it asks for the session it was made in ("asker").
Get(at, session, ends) ==
    [kind |-> "get", at |-> at, asker |-> session, session |-> session, ends |-> ends,
     key |-> "none", value |-> "none", scope |-> "project", phase |-> "sent",
     row |-> Unset, over |-> NoOverrides]

Refreshed(p) == Asked(p, Get(p.acts, p.session, FALSE))

Act(p) == [p EXCEPT !.acts = @ + 1]

Usable == panel.acts < MaxActs /\ Cardinality(panel.requests) < MaxAsked

Mount ==
    /\ Usable /\ ~panel.mounted
    /\ panel' = Refreshed(Act([panel EXCEPT !.mounted = TRUE]))

\* A slip: the scope stays that of the session that has gone.
ChangeSessionOnly ==
    /\ Usable /\ panel.mounted
    /\ \E session \in Sessions \ {panel.session} :
          panel' = Refreshed(Act([panel EXCEPT !.session = session,
                                               !.strayed = panel.requests # {}]))

\* A session opens, closes or gives way to another: the panel asks again and
\* leaves a scope that is no more.
ChangeSession ==
    /\ Usable /\ panel.mounted
    /\ \E session \in Sessions \ {panel.session} :
          panel' = Refreshed(Act([panel EXCEPT
                                     !.session = session, !.strayed = panel.requests # {},
                                     !.scope = IF session = "none" THEN "project" ELSE @]))

SetScope ==
    /\ Usable /\ panel.mounted
    /\ \E scope \in Scopes \ {panel.scope} :
          /\ scope = "session" => panel.session # "none"
          /\ panel' = Act([panel EXCEPT !.scope = scope])

\* The value is shown at once; the session is named only for its own scope.
Changed(p, key, value) ==
    LET scope == TargetScope(p, key)
    IN  Asked([Act(p) EXCEPT !.saving = key, !.values[key] = value],
              [Get(Act(p).acts, p.session, TRUE) EXCEPT
                  !.kind = "patch", !.key = key, !.value = value, !.scope = scope,
                  !.session = IF scope = "session" THEN @ ELSE "none"])

\* Inputs, switches and the localized default; what is typed now differs from
\* what is shown, while a request for the text before it may be under way.
EnterValue ==
    /\ Usable /\ panel.mounted /\ panel.listed
    /\ \E key \in Keys : \E raw \in Raw(key) :
          /\ raw # Displayed(panel, key)
          /\ panel' = Changed(panel, key, Normalized(key, raw))

HandleReset ==
    /\ Usable /\ panel.mounted /\ panel.listed
    /\ \E key \in Keys : panel' = Changed(panel, key, "none")

-----------------------------------------------------------------------------
(* Answers                                                                 *)

Step(r, next) == [panel EXCEPT !.requests = (@ \ {r}) \cup {next}]

\* patch_runtime_settings: the row is read, other requests run, the whole row
\* is written.
Owner(r) == IF r.scope = "session" THEN r.session ELSE "project"

PatchReads ==
    \E r \in panel.requests :
        /\ r.kind = "patch" /\ r.phase = "sent" /\ r.value # "wide"
        /\ panel' = Step(r, [r EXCEPT !.phase = "read", !.row = panel.rows[Owner(r)]])

PatchWrites ==
    \E r \in panel.requests :
        /\ r.phase = "read"
        /\ panel' = [Step(r, [r EXCEPT !.phase = "stored", !.value = "none", !.row = Unset])
                         EXCEPT !.rows[Owner(r)] = [r.row EXCEPT ![r.key] = r.value]]

\* resolve_runtime_settings: the answer is put together; when it arrives other
\* answers may have come or be on their way.
Resolve ==
    \E r \in panel.requests :
        /\ r.phase = IF r.kind = "get" THEN "sent" ELSE "stored"
        /\ panel' = [Step(r, [r EXCEPT !.phase = "answered",
                                        !.over = Overrides(panel.rows, r.session)])
                         EXCEPT !.newest = r.at]

Taken(p, r) == [p EXCEPT !.requests = @ \ {r}, !.over = r.over, !.values = Effective(r.over),
                         !.shown = [at |-> r.at, session |-> r.session],
                         !.saving = IF r.ends THEN "none" ELSE @]

Got ==
    \E r \in panel.requests :
        /\ r.kind = "get" /\ r.phase = "answered"
        /\ panel' = [Taken(panel, r) EXCEPT !.listed = TRUE]

Patched ==
    \E r \in panel.requests :
        /\ r.kind = "patch" /\ r.phase = "answered"
        /\ panel' = Taken(panel, r)

\* Fields and values are emptied, the overrides stay.
GetFails ==
    \E r \in panel.requests :
        /\ r.kind = "get"
        /\ panel' = [panel EXCEPT !.requests = @ \ {r}, !.listed = FALSE, !.values = Unset,
                                  !.newest = 0,
                                  !.saving = IF r.ends THEN "none" ELSE @]

\* A value the backend refuses, a request or an answer that is lost: refresh of
\* the session the change was made in is awaited before "saving" goes.
PatchFails ==
    \E r \in panel.requests :
        /\ r.kind = "patch" /\ r.phase # "read"
        /\ panel' = Step(r, Get(r.at, r.asker, TRUE))

-----------------------------------------------------------------------------

Next == \/ Mount \/ ChangeSession \/ SetScope \/ EnterValue \/ HandleReset
        \/ PatchReads \/ PatchWrites \/ Resolve \/ Got \/ Patched
        \/ GetFails \/ PatchFails

Spec == Init /\ [][Next]_panel

-----------------------------------------------------------------------------

TypeOK ==
    /\ \A key \in Keys :
          {panel.rows[owner][key] : owner \in Owners} \cup
          {panel.over[scope][key] : scope \in Scopes} \cup {panel.values[key]}
             \subseteq {"none", "low", "blank", "wide", "usual"}
    /\ panel.session \in Sessions /\ panel.scope \in Scopes
    /\ panel.scope = "session" => panel.session # "none"
    /\ panel.saving \in Keys \cup {"none"}

\* When nothing is under way and what is shown is the answer the backend gave
\* last, the panel shows what is stored, whatever changes overlapped, were
\* refused or lost: the overrides of the project and those of the session the
\* answer was made for - none when a change of the project's scope was - and
\* the values that follow from them.  Unless the session changed while
\* requests were under way, no other session's overrides are shown: a callback
\* keeps the session it was made in, and its answer may come last.
ShownAsStored ==
    (panel.listed /\ panel.requests = {} /\ panel.shown.at = panel.newest) =>
        /\ panel.over = Overrides(panel.rows, panel.shown.session)
        /\ panel.values = Effective(panel.over)
        /\ panel.saving = "none"
        /\ ~panel.strayed => panel.shown.session \in {"none", panel.session}
=============================================================================
