----------------------------- MODULE LocalStore -----------------------------
(***************************************************************************)
(* Where the web client keeps a session: in the backend, or, when the      *)
(* backend does not keep its data, in the IndexedDB of the browser.  Which *)
(* of the two is found out by asking the backend and remembered twice, for *)
(* reads (services/settingsStorage.ts) and for writes                      *)
(* (services/idbSync.ts).  Nobody waits for an answer another has asked    *)
(* for: detections overlap, and the last one to end is believed.  The      *)
(* stores write through to localDb.ts without waiting, gameStorage.ts      *)
(* reads back.                                                             *)
(*                                                                         *)
(* A message is absent, plain or with the blocks of its turn; key 0 stands *)
(* for an event of the game.                                               *)
(***************************************************************************)
EXTENDS Naturals

CONSTANTS MaxMessages,  \* bound: messages of the session
          MaxProbes     \* bound: detections for reads under way together

VARIABLE panel

Ids == 1..MaxMessages

Keys == 0..MaxMessages

Forms == {"absent", "plain", "blocks"}

Places == {"unknown", "api", "local"}

Nothing == [key \in Keys |-> "absent"]

\* "lasting": the backend keeps its data; "up": it answers; "reads" and
\* "writes" are the two remembered answers; "asking" are the records whose
\* write has started a detection of its own.
Init == \E lasting, up \in BOOLEAN :
            panel = [lasting |-> lasting, up |-> up, probes |-> 0, asking |-> {},
                     reads |-> "unknown", writes |-> "unknown", overruled |-> FALSE,
                     session |-> "none", row |-> FALSE, known |-> FALSE,
                     shown |-> Nothing, stored |-> Nothing, backend |-> Nothing,
                     writing |-> {}, failed |-> FALSE, refused |-> FALSE]

-----------------------------------------------------------------------------
(* Finding out                                                             *)

Truth == IF panel.lasting THEN "api" ELSE "local"

\* probeHealth: an answer that is an error says local at once, and so does
\* silence after some tries, which change nothing.
Answers == {"local"} \cup (IF panel.up THEN {Truth} ELSE {})

\* The end of detectBackend, whatever has been found out meanwhile: an answer
\* that the backend lasts may be overruled by a detection begun before it.
Heard(p, answer) ==
    [p EXCEPT !.reads = answer,
              !.overruled = @ \/ (p.reads = "api" /\ answer = "local")]

\* isStoragePersistent of a read, nothing being known.
Detect ==
    /\ panel.reads = "unknown" /\ panel.probes < MaxProbes
    /\ panel' = [panel EXCEPT !.probes = @ + 1]

Detected ==
    /\ panel.probes > 0
    /\ \E answer \in Answers : panel' = Heard([panel EXCEPT !.probes = @ - 1], answer)

BackendTurns ==
    panel' = [panel EXCEPT !.up = ~@, !.known = @ /\ panel.lasting]

\* A slip: that the backend lasts is forgotten as well.
RedetectAlways ==
    /\ panel.probes < MaxProbes
    /\ panel' = [panel EXCEPT !.reads = "unknown", !.probes = @ + 1]

\* redetectIfNeeded, when the web socket opens; detections already under way
\* go on.
Redetect ==
    /\ panel.reads # "api" /\ panel.probes < MaxProbes
    /\ panel' = [panel EXCEPT !.reads = "unknown", !.probes = @ + 1]

-----------------------------------------------------------------------------
(* The session                                                             *)

\* isPersistent of idbSync: asked once, then remembered for good.
WritesTo(p) == IF p.writes = "unknown" THEN p.reads ELSE p.writes

\* createSession: both in the backend and, for good measure, in the browser.
CreateSession ==
    /\ panel.reads # "unknown" /\ panel.session = "none" /\ panel.up
    /\ panel' = IF panel.reads = "local"
                THEN [panel EXCEPT !.session = "open", !.known = TRUE,
                                   !.writes = WritesTo(panel),
                                   !.row = WritesTo(panel) = "local"]
                ELSE [panel EXCEPT !.session = "open", !.known = TRUE]

\* deleteSession and the cascade of idbDeleteSession; a write that is still
\* under way comes after it.
DeleteSession ==
    /\ panel.reads # "unknown" /\ panel.session = "open" /\ panel.up
    /\ LET gone == [panel EXCEPT !.session = "deleted", !.known = FALSE,
                                 !.shown = Nothing, !.backend = Nothing]
       IN  panel' = IF panel.reads = "local" /\ WritesTo(panel) = "local"
                    THEN [gone EXCEPT !.row = FALSE, !.stored = Nothing,
                                      !.writes = "local"]
                    ELSE gone

\* ensureSessionInBackend comes before a command that goes by HTTP, to a
\* backend that may have lost its data; without a row the command goes alone.
SendCommand ==
    /\ panel.session = "open" /\ panel.reads = "local" /\ panel.up
    /\ panel' = [panel EXCEPT !.known = @ \/ panel.row,
                              !.refused = ~panel.known /\ ~panel.row]

-----------------------------------------------------------------------------
(* Messages and events                                                     *)

\* syncToIdb: skipped when the backend is taken to keep its data.
Decided(p, key, place) ==
    [p EXCEPT !.writes = place, !.writing = IF place = "local" THEN @ \cup {key} ELSE @]

\* addMessage and addEvent show the record and hand it over to
\* syncToIdbFireAndForget; ids come in order and are never used again.  When
\* neither answer is remembered the write asks for itself.
Add ==
    /\ panel.session = "open"
    /\ \E key \in Keys :
          /\ \A earlier \in 1..(key - 1) : panel.backend[earlier] # "absent"
          /\ panel.backend[key] = "absent"
          /\ LET added == [panel EXCEPT !.shown[key] = "plain", !.backend[key] = "plain"]
             IN  panel' = IF WritesTo(panel) = "unknown"
                          THEN [added EXCEPT !.asking = @ \cup {key}]
                          ELSE Decided(added, key, WritesTo(panel))

\* The detection of a write ends: its answer is remembered on both sides.
WriteHears ==
    \E key \in panel.asking : \E answer \in Answers :
        panel' = Decided(Heard([panel EXCEPT !.asking = @ \ {key}], answer), key, answer)

Write ==
    \E key \in panel.writing :
        panel' = [panel EXCEPT !.writing = @ \ {key}, !.stored[key] = "plain"]

\* Without room in the browser the write fails; the error is logged.
WriteFails ==
    \E key \in panel.writing :
        panel' = [panel EXCEPT !.writing = @ \ {key}, !.failed = TRUE]

\* turn_end: flushPendingBlocksForTurn changes the screen, nothing else.
AttachBlocks ==
    \E id \in Ids :
        /\ panel.shown[id] = "plain"
        /\ panel' = [panel EXCEPT !.shown[id] = "blocks", !.backend[id] = "blocks"]

\* deleteMessage, deleteMessagesFrom and removeLastAssistantMessage too.
DeleteMessage ==
    \E id \in Ids :
        /\ panel.shown[id] # "absent"
        /\ panel' = [panel EXCEPT !.shown[id] = "absent"]

\* gameStorage reads the session again.  Of what IndexedDB has, no event
\* passes validateIdbRows: it asks for a key "type" that events do not have.
Reload ==
    /\ panel.session = "open"
    /\ \/ /\ panel.reads = "api" /\ panel.up
          /\ panel' = [panel EXCEPT !.shown = panel.backend]
       \/ /\ panel.reads = "local"
          /\ panel' = [panel EXCEPT !.shown = [panel.stored EXCEPT ![0] = "absent"]]

-----------------------------------------------------------------------------

Next == \/ Detect \/ Detected \/ BackendTurns \/ Redetect
        \/ CreateSession \/ DeleteSession \/ SendCommand
        \/ Add \/ WriteHears \/ Write \/ WriteFails \/ AttachBlocks \/ DeleteMessage \/ Reload

Spec == Init /\ [][Next]_panel

-----------------------------------------------------------------------------

TypeOK ==
    /\ {panel.reads, panel.writes} \subseteq Places
    /\ panel.session \in {"none", "open", "deleted"}
    /\ {panel.shown, panel.stored, panel.backend} \subseteq [Keys -> Forms]
    /\ panel.probes \in 0..MaxProbes
    /\ panel.asking \subseteq Keys /\ panel.writing \subseteq Keys

\* As long as reads go to the browser so do writes, although each side has
\* its own memory of which it is, detections overlap and only one side is ever
\* asked anew: a message is not lost between a write that was skipped and a
\* read that does not ask the backend.  The exception is a detection that is
\* still under way when another has found that the backend lasts, and then
\* says it does not: reads turn to the browser behind writes that were skipped.
ReadsFindWrites ==
    (panel.session = "open" /\ panel.reads = "local" /\ ~panel.failed /\ ~panel.overruled) =>
        /\ panel.writes # "api"
        /\ \A key \in Keys \ (panel.writing \cup panel.asking) :
              panel.shown[key] # "absent" => panel.stored[key] # "absent"

\* "IndexedDB, which is kept up-to-date by fire-and-forget writes in the store
\* setters" (services/gameStorage.ts:5): once the writes are through, it holds
\* the messages that are shown.
KeptUpToDate ==
    (panel.session = "open" /\ panel.reads = "local" /\ panel.writes = "local"
        /\ panel.writing = {} /\ panel.asking = {} /\ ~panel.failed /\ ~panel.overruled) =>
            \A id \in Ids : panel.stored[id] = panel.shown[id]
=============================================================================
