-------------------------------- MODULE Codex -------------------------------
(***************************************************************************)
(* The codex of a project as the player sees it: the tab                   *)
(* (components/status/CodexPanel.tsx) and the entries it shows             *)
(* (stores/gameDataStore.ts).  Entries come by two ways: announced live    *)
(* while a turn runs, which marks them new, and all of them from the       *)
(* backend each time the tab is opened.                                    *)
(***************************************************************************)
EXTENDS Naturals

CONSTANT MaxFetches    \* bound: openings of the tab and resets of the store

VARIABLE panel

\* Two entries of one category; searches find one of them, or none.
Entries == {"moor", "fen"}

Category(entry) == "location"

Queries == {"", "moor", "monster"}

\* "flushed" is what the turn has written and not committed, "stored" what
\* another request of the backend reads, "shown" the store's with "new" of
\* them; "came" are the entries announced live that the player has not seen
\* since, "raced" those of them that a fetch has read the backend without.
Init == panel = [mounted |-> FALSE, flushed |-> {}, stored |-> {}, announced |-> {},
                 shown |-> {}, new |-> {},
                 loading |-> FALSE, query |-> "", requests |-> {}, fetches |-> 0,
                 came |-> {}, raced |-> {}]

-----------------------------------------------------------------------------
(* The turn                                                                *)

\* An entry is unlocked or changed: it is flushed, and its block is sent before
\* the turn commits.
Discover ==
    \E entry \in Entries \ panel.announced :
        panel' = [panel EXCEPT !.flushed = @ \cup {entry}, !.announced = @ \cup {entry}]

\* The turn commits, or ends without.
TurnCommits ==
    /\ panel.flushed # {}
    /\ \/ panel' = [panel EXCEPT !.stored = @ \cup panel.flushed, !.flushed = {}]
       \/ panel' = [panel EXCEPT !.flushed = {}]

Unread(p, entry) == \E r \in p.requests : r.phase = "read" /\ entry \notin r.entries

\* addCodexEntry, also for an entry that a fetch has shown already.
AddCodexEntry ==
    \E entry \in panel.announced :
        panel' = [panel EXCEPT !.announced = @ \ {entry},
                               !.shown = @ \cup {entry}, !.new = @ \cup {entry},
                               !.came = @ \cup {entry},
                               !.raced = IF Unread(panel, entry) THEN @ \cup {entry}
                                         ELSE @ \ {entry}]

\* The connection was down.
AnnouncementLost ==
    \E entry \in panel.announced : panel' = [panel EXCEPT !.announced = @ \ {entry}]

-----------------------------------------------------------------------------
(* The store                                                               *)

Usable == panel.fetches < MaxFetches

\* The tab is opened: fetchCodexEntries.
Mount ==
    /\ Usable /\ ~panel.mounted
    /\ panel' = [panel EXCEPT !.mounted = TRUE, !.loading = TRUE, !.fetches = @ + 1,
                              !.requests = @ \cup {[at |-> panel.fetches + 1, phase |-> "sent",
                                                    entries |-> {}]}]

FetchRead ==
    \E r \in panel.requests :
        /\ r.phase = "sent"
        /\ panel' = [panel EXCEPT !.requests =
                        (@ \ {r}) \cup {[r EXCEPT !.phase = "read", !.entries = panel.stored]},
                                  !.raced = @ \cup (panel.came \ panel.stored)]

\* A slip: what the backend sends is not new.
KeptNothing(new, entries) == {}

\* What is new is asked of the store when the answer is there, not when the
\* request was made; what the answer lacks is dropped.
Kept(new, entries) == new \cap entries

FetchAnswered ==
    \E r \in panel.requests :
        /\ r.phase = "read"
        /\ panel' = [panel EXCEPT !.requests = @ \ {r}, !.loading = FALSE, !.shown = r.entries,
                                  !.new = Kept(@, r.entries)]

FetchFails ==
    \E r \in panel.requests :
        panel' = [panel EXCEPT !.requests = @ \ {r}, !.loading = FALSE]

Seen(p, entries) ==
    [p EXCEPT !.new = @ \ entries, !.came = @ \ entries, !.raced = @ \ entries]

\* Leaving the tab: clearNewFlags.
Unmount ==
    /\ panel.mounted
    /\ panel' = [Seen(panel, Entries) EXCEPT !.mounted = FALSE]

\* Another session is opened; an open tab does not fetch again.
Reset ==
    /\ Usable
    /\ panel' = [Seen(panel, Entries) EXCEPT !.fetches = @ + 1, !.shown = {}, !.loading = FALSE,
                                             !.query = ""]

-----------------------------------------------------------------------------
(* The tab                                                                 *)

Filtered(p) ==
    {entry \in p.shown : \/ p.query = ""
                         \/ p.query \in {entry, Category(entry)}}

\* While something is searched for, nothing is put first.
NewSection(p) == IF p.query = "" THEN Filtered(p) \cap p.new ELSE {}

Grouped(p) == Filtered(p) \ NewSection(p)

Visible == panel.mounted /\ ~panel.loading

SetCodexSearchQuery ==
    /\ Visible
    /\ \E query \in Queries \ {panel.query} : panel' = [panel EXCEPT !.query = query]

\* In the section of new entries, or on the card a search has found.
MarkEntrySeen ==
    /\ Visible
    /\ \E entry \in NewSection(panel) \cup (Grouped(panel) \cap panel.new) :
          panel' = Seen(panel, {entry})

\* The name of a category in the section of new entries.
MarkEntriesSeen ==
    /\ Visible
    /\ \E entry \in NewSection(panel) :
          panel' = Seen(panel, {other \in NewSection(panel) : Category(other) = Category(entry)})

-----------------------------------------------------------------------------

Next == \/ Discover \/ TurnCommits \/ AddCodexEntry \/ AnnouncementLost \/ Mount \/ FetchRead
        \/ FetchAnswered \/ FetchFails \/ Unmount \/ Reset
        \/ SetCodexSearchQuery \/ MarkEntrySeen \/ MarkEntriesSeen

Spec == Init /\ [][Next]_panel

-----------------------------------------------------------------------------

TypeOK ==
    /\ panel.new \subseteq panel.shown
    /\ panel.loading => panel.requests # {}

\* An entry that was announced, while the tab was closed, open or loading, is
\* still there and still new until the player looks at it, leaves the tab or
\* opens another session, however many fetches are answered and in whatever
\* order - unless one of them has read the backend without the entry.  That
\* happens to a fetch that reads before the entry is found, and to one that
\* reads after the announcement and before the commit.
NewUntilSeen == panel.came \ panel.raced \subseteq panel.new
=============================================================================
