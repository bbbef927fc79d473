---------------------------- MODULE SessionView -----------------------------
(***************************************************************************)
(* Which session the stores of the web client show.  Switching, creating   *)
(* and deleting a session, the effects that load a session's data, the     *)
(* archive dialogs and the answers to commands all write the same stores,  *)
(* each when its request is answered (stores/sessionStore.ts, gameDataStore*)
(* and notificationStore, hooks/useSessionHydration.ts and useArchive.ts,  *)
(* components/game/GamePanel.tsx).                                         *)
(*                                                                         *)
(* A store is reduced to the set of sessions its content comes from.  No   *)
(* request is cancelled and no answer is checked against the session shown *)
(* when it arrives; strayed records that the player did not wait for the   *)
(* answers before doing what changes the session.                          *)
(***************************************************************************)
EXTENDS Naturals, FiniteSets

CONSTANTS Sessions,     \* all sessions there can be
          Initial,      \* those the project has at first
          NoSession,
          Http,         \* commands go by HTTP instead of a web socket
          MaxActions,   \* bound: things the player does
          MaxAhead,     \* bound: of these, the ones an act ahead of an answer may follow
          MaxFailures   \* bound: requests that fail

ASSUME SessionViewAssumption ==
    /\ Initial \subseteq Sessions
    /\ NoSession \notin Sessions
    /\ Http \in BOOLEAN
    /\ {MaxActions, MaxAhead, MaxFailures} \subseteq Nat
    /\ MaxAhead <= MaxActions

VARIABLES
    current,    \* currentSession
    effective,  \* the session the effects last ran for; it has the connection
    listed,     \* the session list
    existing,   \* sessions of the backend
    playing,    \* sessions past the init phase
    shown,      \* what each store holds
    active,     \* activeSessionId of the notification store
    asked,      \* requests without an answer
    busy,       \* archiveBusy
    modal,      \* showRestoreModal
    restoring,  \* the restore under way: its step, session, mode and target
    strayed,    \* history: the player was ahead of an answer, or a fork was
                \* loaded although it was not in the list, or its failure was
                \* reported in it under the session it forks
    actions, failures

stores == <<shown, active>>
vars == <<current, effective, listed, existing, playing, stores, asked, busy,
          modal, restoring, strayed, actions, failures>>

\* "state" stands for the characters and the world state, always loaded and
\* cleared together.
GameData == {"state", "events", "scenes"}

Slots == GameData \cup {"messages", "images", "notifications", "tokens", "versions"}

Steps == {"idle", "restore", "list", "switch", "messages", "load"}

NotRestoring == [step |-> "idle", session |-> NoSession, fork |-> FALSE,
                 target |-> NoSession]

Request(what, session) == [what |-> what, session |-> session]

Requests == [what : Slots \cup {"turn", "create", "delete", "archive", "lookup"},
             session : Sessions]

Init == /\ current = NoSession /\ effective = NoSession
        /\ listed = Initial /\ existing = Initial
        /\ playing \in {Initial, {}}
        /\ shown = [slot \in Slots |-> {}]
        /\ active = NoSession
        /\ asked = {}
        /\ busy = FALSE /\ modal = FALSE /\ restoring = NotRestoring
        /\ strayed = FALSE /\ actions = 0 /\ failures = 0

-----------------------------------------------------------------------------
(* Stores                                                                  *)

Cleared(stored, slots) == [slot \in Slots |-> IF slot \in slots THEN {} ELSE stored[slot]]

Holding(stored, slot, session) == [stored EXCEPT ![slot] = {session}]

\* A slip: the game data of the session before stays.
ResetMessages(stored) == Cleared(stored, {"messages", "images", "tokens"})

\* What switchSession and createSession put back to its initial value.
ResetForSession(stored) ==
    Cleared(stored, GameData \cup {"messages", "images", "tokens"})

\* Messages on display are searched for notifications, for the session shown.
WithNotifications(stored) ==
    IF active = current /\ current # NoSession
    THEN [stored EXCEPT !["notifications"] = @ \cup stored["messages"]]
    ELSE stored

\* What a turn brings: its message, blocks and state; the notification store
\* alone looks at the session.
AfterTurn(stored, session) ==
    [slot \in Slots |->
        CASE slot \in {"messages", "state", "events", "scenes", "tokens"} ->
                 stored[slot] \cup {session}
          [] slot = "notifications" ->
                 IF active = session THEN stored[slot] \cup {session} ELSE stored[slot]
          [] OTHER -> stored[slot]]

-----------------------------------------------------------------------------
(* Effects that run after a session has become the current one             *)

\* "begun": the page's copy of the session is past the init phase.
HydrationRequests(session, begun) ==
    {Request(slot, session) : slot \in {"state", "images"}
                                     \cup IF begun THEN {"scenes", "events"} ELSE {}}

\* A slip: the list of versions is fetched once, not for every session.
LoadedWithoutVersions(session, begun) ==
    IF session = NoSession THEN {} ELSE HydrationRequests(session, begun)

\* A slip: no early return without a session.
LoadedUnguarded(session, begun) ==
    HydrationRequests(session, begun) \cup {Request("versions", session)}

\* What the effects fetch.
Loaded(session, begun) ==
    IF session = NoSession THEN {}
    ELSE HydrationRequests(session, begun) \cup {Request("versions", session)}

\* A slip: the notification store is not reset for the session.
EmptiedWithoutNotifications(session, begun) ==
    IF session = NoSession THEN {"versions"}
    ELSE {"state", "events"} \cup IF begun THEN {} ELSE {"scenes"}

\* What they clear: a session in the init phase has no scenes yet.
Emptied(session, begun) ==
    IF session = NoSession THEN {"notifications", "versions"}
    ELSE {"state", "events", "notifications"}
         \cup IF begun THEN {} ELSE {"scenes"}

\* The old connection goes first: the commands of a web socket go with it,
\* those sent by HTTP do not.
\* The copy of a session may be older than its first turn.
RunEffects ==
    /\ effective # current
    /\ effective' = current /\ active' = current
    /\ \E begun \in BOOLEAN :
          /\ begun => current \in playing
          /\ shown' = Cleared(shown, Emptied(current, begun))
          /\ asked' = {r \in asked : Http \/ r.what # "turn"}
                      \cup Loaded(current, begun)
    /\ UNCHANGED <<current, listed, existing, playing, busy, modal, restoring,
                   strayed, actions, failures>>

\* The page selects a session when none is current (ProjectEditorPage).
AutoSelect ==
    /\ current = NoSession /\ effective = NoSession
    /\ \E s \in listed :
          /\ current' = s
          /\ asked' = asked \cup {Request("messages", s)}
    /\ UNCHANGED <<effective, listed, existing, playing, stores, busy, modal,
                   restoring, strayed, actions, failures>>

-----------------------------------------------------------------------------
(* Answers                                                                 *)

Take(r) == /\ r \in asked
           /\ asked' = asked \ {r}

\* Every load stores its answer whatever session is shown by now.
LoadAnswered ==
    /\ \E r \in asked :
          /\ r.what \in Slots
          /\ Take(r)
          /\ shown' = LET loaded == Holding(shown, r.what, r.session)
                      IN  IF r.what = "messages" THEN WithNotifications(loaded)
                          ELSE loaded
    /\ UNCHANGED <<current, effective, listed, existing, playing, active, busy,
                   modal, restoring, strayed, actions, failures>>

\* A load that fails is logged and forgotten.
LoadFails ==
    /\ failures < MaxFailures
    /\ failures' = failures + 1
    /\ \E r \in asked :
          /\ r.what \in Slots
          /\ Take(r)
          /\ shown' = IF r.what = "versions" THEN Cleared(shown, {"versions"}) ELSE shown
    /\ UNCHANGED <<current, effective, listed, existing, playing, active, busy,
                   modal, restoring, strayed, actions>>

\* The first turn takes the session out of the init phase: everything is
\* fetched again.
TurnAnswered ==
    /\ \E r \in asked :
          /\ r.what = "turn"
          /\ playing' = playing \cup {r.session}
          /\ asked' = (asked \ {r})
                      \cup IF r.session \in playing THEN {}
                           ELSE {Request(slot, r.session) : slot \in GameData}
          /\ shown' = WithNotifications(AfterTurn(shown, r.session))
    /\ UNCHANGED <<current, effective, listed, existing, active, busy, modal,
                   restoring, strayed, actions, failures>>

CreateAnswered ==
    /\ \E r \in asked :
          /\ r.what = "create"
          /\ Take(r)
          /\ existing' = existing \cup {r.session}
          /\ listed' = listed \cup {r.session}
          /\ current' = r.session
          /\ shown' = ResetForSession(shown)
    /\ UNCHANGED <<effective, playing, active, busy, modal, restoring, strayed,
                   actions, failures>>

DeleteAnswered ==
    /\ \E r \in asked :
          /\ r.what = "delete"
          /\ Take(r)
          /\ existing' = existing \ {r.session}
          /\ listed' = listed \ {r.session}
          /\ IF r.session = current
             THEN /\ current' = NoSession
                  /\ shown' = ResetForSession(shown)
             ELSE /\ current' = current
                  /\ shown' = Cleared(shown, {"tokens"})
    /\ UNCHANGED <<effective, playing, active, busy, modal, restoring, strayed,
                   actions, failures>>

-----------------------------------------------------------------------------
(* The player                                                              *)

\* Nothing is under way and, unless there is none, a session is selected.
Settled == /\ asked = {} /\ effective = current /\ ~busy
           /\ restoring = NotRestoring
           /\ current = NoSession => listed = {}

Changing == busy \/ \E r \in asked : r.what \in {"create", "delete"}

\* Bound: an act ahead of an answer comes early and is the last one.
Acts == /\ ~strayed
        /\ actions < IF Settled THEN MaxActions ELSE MaxAhead
        /\ actions' = actions + 1

\* The restore dialog is modal: nothing behind it can be clicked.
Changes == Acts /\ ~modal

Stray == strayed' = (strayed \/ ~Settled)

\* SessionSelector and switchSession.
Switch ==
    /\ Changes
    /\ \E s \in listed \ {current} :
          /\ current' = s
          /\ asked' = asked \cup {Request("messages", s)}
    /\ shown' = ResetForSession(shown)
    /\ strayed' = ~Settled
    /\ UNCHANGED <<effective, listed, existing, playing, active, busy, modal,
                   restoring, failures>>

New ==
    /\ Changes /\ Stray
    /\ \E s \in Sessions \ existing : asked' = asked \cup {Request("create", s)}
    /\ UNCHANGED <<current, effective, listed, existing, playing, stores, busy,
                   modal, restoring, failures>>

Delete ==
    /\ Changes /\ Stray
    /\ \E s \in listed : asked' = asked \cup {Request("delete", s)}
    /\ UNCHANGED <<current, effective, listed, existing, playing, stores, busy,
                   modal, restoring, failures>>

\* A command goes to the session that has the connection.
Command ==
    /\ Acts
    /\ effective # NoSession /\ ~modal
    /\ Request("turn", effective) \notin asked
    /\ asked' = asked \cup {Request("turn", effective)}
    /\ strayed' = (strayed \/ effective # current \/ Changing)
    /\ UNCHANGED <<current, effective, listed, existing, playing, stores, busy,
                   modal, restoring, failures>>

-----------------------------------------------------------------------------
(* The archive dialogs                                                     *)

ArchiveNow ==
    /\ Changes /\ Stray
    /\ current # NoSession /\ ~busy
    /\ busy' = TRUE
    /\ asked' = asked \cup {Request("archive", current)}
    /\ UNCHANGED <<current, effective, listed, existing, playing, stores, modal,
                   restoring, failures>>

\* Either way a system message follows and the button is free again; a
\* success asks for the versions of the session it was started in.
ArchiveAnswered ==
    /\ \E r \in asked :
          /\ r.what = "archive"
          /\ shown' = [shown EXCEPT !["messages"] = @ \cup {r.session}]
          /\ \/ /\ asked' = (asked \ {r}) \cup {Request("versions", r.session)}
                /\ failures' = failures
             \/ /\ Take(r)
                /\ failures < MaxFailures
                /\ failures' = failures + 1
    /\ busy' = FALSE
    /\ UNCHANGED <<current, effective, listed, existing, playing, active, modal,
                   restoring, strayed, actions>>

\* Without versions at hand they are asked for first; none: a system message.
OpenRestore ==
    /\ Changes /\ Stray
    /\ current # NoSession /\ ~busy
    /\ IF shown["versions"] # {}
       THEN modal' = TRUE /\ UNCHANGED <<shown, asked>>
       ELSE /\ asked' = asked \cup {Request("lookup", current)}
            /\ UNCHANGED <<modal, shown>>
    /\ UNCHANGED <<current, effective, listed, existing, playing, active, busy,
                   restoring, failures>>

LookupAnswered ==
    /\ \E r \in asked :
          /\ r.what = "lookup"
          /\ Take(r)
          /\ \/ /\ modal' = TRUE
                /\ shown' = Holding(shown, "versions", r.session)
             \/ /\ modal' = modal
                /\ shown' = [shown EXCEPT !["messages"] = @ \cup {r.session}]
    /\ UNCHANGED <<current, effective, listed, existing, playing, active, busy,
                   restoring, strayed, actions, failures>>

CloseModal ==
    /\ modal
    /\ modal' = FALSE
    /\ UNCHANGED <<current, effective, listed, existing, playing, stores, asked,
                   busy, restoring, strayed, actions, failures>>

\* handleRestoreVersion, up to its first await.  A fork needs a session of
\* the bounded set Sessions that is not there yet.
Restore ==
    /\ Acts /\ modal
    /\ Stray
    /\ current # NoSession
    /\ restoring = NotRestoring
    /\ modal' = FALSE
    /\ busy' = TRUE
    /\ \E fork \in IF Sessions = existing THEN {FALSE} ELSE BOOLEAN :
          restoring' = [step |-> "restore", session |-> current, fork |-> fork,
                        target |-> current]
    /\ UNCHANGED <<current, effective, listed, existing, playing, stores, asked, failures>>

RestoreStep(from, to) ==
    /\ restoring.step = from
    /\ restoring' = [restoring EXCEPT !.step = to]

\* The backend restores in place or creates the fork.
RestoreAnswered ==
    /\ restoring.step = "restore"
    /\ IF restoring.fork
       THEN \E s \in Sessions \ existing :
               /\ existing' = existing \cup {s}
               /\ playing' = playing \cup {s}
               /\ restoring' = [restoring EXCEPT !.step = "list", !.target = s]
       ELSE /\ restoring' = [restoring EXCEPT !.step = "messages"]
            /\ UNCHANGED <<existing, playing>>
    /\ UNCHANGED <<current, effective, listed, stores, asked, busy, modal, strayed,
                   actions, failures>>

\* fetchSessions, then switchSession to the fork; when the list could not be
\* fetched the fork is loaded all the same, without a switch.
ForkListed ==
    /\ restoring.step = "list"
    /\ \/ /\ listed' = existing
          /\ current' = restoring.target
          /\ shown' = ResetForSession(shown)
          /\ restoring' = [restoring EXCEPT !.step = "switch"]
          /\ UNCHANGED <<strayed, failures>>
       \/ /\ failures < MaxFailures
          /\ failures' = failures + 1
          /\ strayed' = TRUE
          /\ restoring' = [restoring EXCEPT !.step = "messages"]
          /\ UNCHANGED <<listed, current, shown>>
    /\ UNCHANGED <<effective, existing, playing, active, asked, busy, modal, actions>>

\* The messages are fetched by switchSession and again by the restore itself.
RestoredMessages ==
    /\ \/ RestoreStep("switch", "messages")
       \/ RestoreStep("messages", "load")
    /\ shown' = WithNotifications(Holding(shown, "messages", restoring.target))
    /\ UNCHANGED <<current, effective, listed, existing, playing, active, asked,
                   busy, modal, strayed, actions, failures>>

\* All of Promise.all: scenes, events, versions, characters and state.
RestoredData ==
    /\ restoring.step = "load"
    /\ restoring' = NotRestoring
    /\ busy' = FALSE
    /\ shown' = [slot \in Slots |-> IF slot \in GameData \cup {"versions"}
                                    THEN {restoring.target} ELSE shown[slot]]
    /\ UNCHANGED <<current, effective, listed, existing, playing, active, asked,
                   modal, strayed, actions, failures>>

\* A slip: the failure is reported and the buttons stay disabled.
RestoreFailsBusy ==
    /\ restoring.step \in {"restore", "load"}
    /\ failures < MaxFailures
    /\ failures' = failures + 1
    /\ restoring' = NotRestoring
    /\ shown' = [shown EXCEPT !["messages"] = @ \cup {restoring.session}]
    /\ strayed' = (strayed \/ restoring.session # current)
    /\ UNCHANGED <<current, effective, listed, existing, playing, active, asked,
                   busy, modal, actions>>

\* The catch and finally of handleRestoreVersion: the message names the
\* session the restore was started in.
RestoreFails ==
    /\ restoring.step \in {"restore", "load"}
    /\ failures < MaxFailures
    /\ failures' = failures + 1
    /\ restoring' = NotRestoring
    /\ busy' = FALSE
    /\ shown' = [shown EXCEPT !["messages"] = @ \cup {restoring.session}]
    /\ strayed' = (strayed \/ restoring.session # current)
    /\ UNCHANGED <<current, effective, listed, existing, playing, active, asked,
                   modal, actions>>

-----------------------------------------------------------------------------

Answers == \/ LoadAnswered \/ LoadFails \/ TurnAnswered \/ CreateAnswered
           \/ DeleteAnswered \/ ArchiveAnswered \/ LookupAnswered

Restores == \/ RestoreAnswered \/ ForkListed \/ RestoredMessages \/ RestoredData
            \/ RestoreFails

Player == \/ Switch \/ New \/ Delete \/ Command \/ ArchiveNow \/ OpenRestore
          \/ CloseModal \/ Restore

Next == RunEffects \/ AutoSelect \/ Answers \/ Restores \/ Player

\* React runs the effects, and every request is answered or fails.
Fairness == /\ WF_vars(RunEffects)
            /\ WF_vars(Answers)
            /\ WF_vars(Restores)

Spec == Init /\ [][Next]_vars /\ Fairness

-----------------------------------------------------------------------------
(* Properties                                                              *)

TypeOK ==
    /\ {current, effective, active} \subseteq Sessions \cup {NoSession}
    /\ {listed, existing, playing} \subseteq SUBSET Sessions
    /\ shown \in [Slots -> SUBSET Sessions]
    /\ asked \subseteq Requests
    /\ {busy, modal, strayed} \subseteq BOOLEAN
    /\ restoring.step \in Steps
    /\ actions \in 0..MaxActions /\ failures \in 0..MaxFailures

\* With a player who has waited for the answers, everything on display belongs
\* to the current session, in every state between a change of session and the
\* last answer, after failed requests and during a restore; the exceptions are
\* a fork that could not be listed and one whose data could not be loaded.
ShownBelongsToCurrent ==
    ~strayed =>
        \A slot \in Slots \ {"versions", "notifications"} : shown[slot] \subseteq {current}

\* So do notifications once the effects have run.
NotificationsBelongToCurrent ==
    (~strayed /\ effective = current) => shown["notifications"] \subseteq {current}

\* The versions offered for a restore are those of the session it restores.
OfferedVersionsAreOwn ==
    (modal /\ ~strayed) => shown["versions"] \subseteq {current}

\* The archive buttons are enabled again in the end, whatever fails.
BusyEnds == busy ~> ~busy

=============================================================================
