----------------------------- MODULE PanelProofs ----------------------------
(***************************************************************************)
(* Proofs about the panels of the web client.  The panels share no state:  *)
(* each has an inductive invariant of its own, which says what its record  *)
(* "panel" may hold, what TypeOK of its module says, and what its property *)
(* rests on.                                                               *)
(***************************************************************************)
EXTENDS MCClientPanels, Sequences, TLAPS

-----------------------------------------------------------------------------
(* The codex                                                               *)

CodexRequests ==
    [at : Nat, phase : {"sent", "read"}, entries : SUBSET Book!Entries]

CodexRecords ==
    [mounted : BOOLEAN, flushed : SUBSET Book!Entries,
     stored : SUBSET Book!Entries, announced : SUBSET Book!Entries,
     shown : SUBSET Book!Entries, new : SUBSET Book!Entries, loading : BOOLEAN,
     query : Book!Queries, requests : SUBSET CodexRequests, fetches : Nat,
     came : SUBSET Book!Entries, raced : SUBSET Book!Entries]

\* A request that has read the backend without an entry can take the entry
\* away, so an entry announced live is in every answer under way or counts as
\* raced.
CodexInv ==
    /\ panel \in CodexRecords
    /\ Book!TypeOK
    /\ Book!NewUntilSeen
    /\ \A r \in panel.requests :
          r.phase = "read" => panel.came \ panel.raced \subseteq r.entries

LEMMA CodexInit == Book!Init => CodexInv
<1> SUFFICES ASSUME Book!Init PROVE CodexInv
    OBVIOUS
<1>1. "" \in Book!Queries
      BY DEF Book!Queries
<1> QED BY <1>1 DEF Book!Init, CodexInv, CodexRecords, Book!TypeOK, Book!NewUntilSeen

LEMMA CodexStep == CodexInv /\ Book!Next => CodexInv'
<1> SUFFICES ASSUME CodexInv, Book!Next PROVE CodexInv'
    OBVIOUS
<1>a. panel \in CodexRecords
      BY DEF CodexInv
<1>b. panel.fetches + 1 \in Nat
      BY <1>a DEF CodexRecords
<1>1. CASE Book!Discover
  <2>1. PICK entry \in Book!Entries \ panel.announced :
           panel' = [panel EXCEPT !.flushed = @ \cup {entry}, !.announced = @ \cup {entry}]
        BY <1>1 DEF Book!Discover
  <2>2. panel' \in CodexRecords
        BY <1>a, <2>1 DEF CodexRecords
  <2>3. /\ panel'.stored = panel.stored
        /\ panel'.announced = panel.announced \cup {entry}
        /\ panel'.shown = panel.shown /\ panel'.new = panel.new
        /\ panel'.came = panel.came /\ panel'.raced = panel.raced
        /\ panel'.loading = panel.loading /\ panel'.requests = panel.requests
        BY <1>a, <2>1 DEF CodexRecords
  <2> QED BY <2>2, <2>3 DEF CodexInv, Book!TypeOK, Book!NewUntilSeen
<1>13. CASE Book!TurnCommits
  <2>1. PICK stored \in SUBSET Book!Entries :
           panel' = [panel EXCEPT !.stored = stored, !.flushed = {}]
    <3>1. /\ panel.stored \cup panel.flushed \in SUBSET Book!Entries
          /\ [panel EXCEPT !.flushed = {}] = [panel EXCEPT !.stored = @, !.flushed = {}]
          BY <1>a DEF CodexRecords
    <3> QED BY <1>a, <1>13, <3>1 DEF Book!TurnCommits, CodexRecords
  <2>2. panel' \in CodexRecords
        BY <1>a, <2>1 DEF CodexRecords
  <2>3. /\ panel'.shown = panel.shown /\ panel'.new = panel.new
        /\ panel'.came = panel.came /\ panel'.raced = panel.raced
        /\ panel'.loading = panel.loading /\ panel'.requests = panel.requests
        BY <1>a, <2>1 DEF CodexRecords
  <2> QED BY <2>2, <2>3 DEF CodexInv, Book!TypeOK, Book!NewUntilSeen
<1>2. CASE Book!AddCodexEntry
  <2> DEFINE Late(entry) == IF Book!Unread(panel, entry) THEN panel.raced \cup {entry}
                            ELSE panel.raced \ {entry}
  <2>1. PICK entry \in panel.announced :
           panel' = [panel EXCEPT !.announced = @ \ {entry},
                                  !.shown = @ \cup {entry}, !.new = @ \cup {entry},
                                  !.came = @ \cup {entry}, !.raced = Late(entry)]
        BY <1>2 DEF Book!AddCodexEntry
  <2>4. /\ entry \in Book!Entries
        /\ Late(entry) \in SUBSET Book!Entries
        BY <1>a DEF CodexRecords
  <2>5. /\ panel.raced \subseteq Late(entry) \cup {entry}
        /\ entry \in Late(entry) \/ \A r \in panel.requests : r.phase = "read" => entry \in r.entries
        BY DEF Book!Unread
  <2> HIDE DEF Late
  <2>2. panel' \in CodexRecords
        BY <1>a, <2>1, <2>4 DEF CodexRecords
  <2>3. /\ panel'.announced = panel.announced \ {entry}
        /\ panel'.shown = panel.shown \cup {entry}
        /\ panel'.new = panel.new \cup {entry}
        /\ panel'.came = panel.came \cup {entry}
        /\ panel'.raced = Late(entry)
        /\ panel'.stored = panel.stored /\ panel'.loading = panel.loading /\ panel'.requests = panel.requests
        BY <1>a, <2>1, <2>4 DEF CodexRecords
  <2> QED BY <2>1, <2>2, <2>3, <2>5 DEF CodexInv, Book!TypeOK, Book!NewUntilSeen
<1>3. CASE Book!AnnouncementLost
  <2>1. PICK entry \in panel.announced :
           panel' = [panel EXCEPT !.announced = @ \ {entry}]
        BY <1>3 DEF Book!AnnouncementLost
  <2>2. panel' \in CodexRecords
        BY <1>a, <2>1 DEF CodexRecords
  <2>3. /\ panel'.announced = panel.announced \ {entry}
        /\ panel'.stored = panel.stored /\ panel'.shown = panel.shown /\ panel'.new = panel.new
        /\ panel'.came = panel.came /\ panel'.raced = panel.raced /\ panel'.loading = panel.loading
        /\ panel'.requests = panel.requests
        BY <1>a, <2>1 DEF CodexRecords
  <2> QED BY <2>1, <2>2, <2>3 DEF CodexInv, Book!TypeOK, Book!NewUntilSeen
<1>4. CASE Book!Mount
  <2> DEFINE request == [at |-> panel.fetches + 1, phase |-> "sent", entries |-> {}]
  <2>1. panel' = [panel EXCEPT !.mounted = TRUE, !.loading = TRUE, !.fetches = @ + 1,
                               !.requests = @ \cup {request}]
        BY <1>4 DEF Book!Mount
  <2>4. request \in CodexRequests /\ request.phase = "sent" /\ request.entries = {}
        BY <1>a DEF CodexRecords, CodexRequests
  <2> HIDE DEF request
  <2>2. panel' \in CodexRecords
        BY <1>a, <1>b, <2>1, <2>4 DEF CodexRecords
  <2>3. /\ panel'.loading = TRUE
        /\ panel'.requests = panel.requests \cup {request}
        /\ panel'.stored = panel.stored /\ panel'.announced = panel.announced /\ panel'.shown = panel.shown
        /\ panel'.new = panel.new /\ panel'.came = panel.came /\ panel'.raced = panel.raced
        BY <1>a, <2>1, <2>4 DEF CodexRecords
  <2> QED BY <2>1, <2>2, <2>3, <2>4 DEF CodexInv, Book!TypeOK, Book!NewUntilSeen
<1>5. CASE Book!FetchRead
  <2> DEFINE read(r) == [r EXCEPT !.phase = "read", !.entries = panel.stored]
  <2>1. PICK r \in panel.requests :
           panel' = [panel EXCEPT !.requests = (@ \ {r}) \cup {read(r)},
                                  !.raced = @ \cup (panel.came \ panel.stored)]
        BY <1>5 DEF Book!FetchRead
  <2>4. read(r) \in CodexRequests /\ read(r).entries = panel.stored
        BY <1>a DEF CodexRecords, CodexRequests
  <2> HIDE DEF read
  <2>2. panel' \in CodexRecords
        BY <1>a, <2>1, <2>4 DEF CodexRecords
  <2>3. /\ panel'.requests = (panel.requests \ {r}) \cup {read(r)}
        /\ panel'.stored = panel.stored /\ panel'.announced = panel.announced /\ panel'.shown = panel.shown
        /\ panel'.new = panel.new /\ panel'.came = panel.came /\ panel'.raced = panel.raced \cup (panel.came \ panel.stored)
        /\ panel'.loading = panel.loading
        BY <1>a, <2>1, <2>4 DEF CodexRecords
  <2> QED BY <2>1, <2>2, <2>3, <2>4 DEF CodexInv, Book!TypeOK, Book!NewUntilSeen
<1>6. CASE Book!FetchAnswered
  <2>1. PICK r \in panel.requests :
           /\ r.phase = "read"
           /\ panel' = [panel EXCEPT !.requests = @ \ {r}, !.loading = FALSE,
                                     !.shown = r.entries, !.new = @ \cap r.entries]
        BY <1>6 DEF Book!FetchAnswered, Book!Kept
  <2>4. r.entries \in SUBSET Book!Entries
        BY <1>a DEF CodexRecords, CodexRequests
  <2>2. panel' \in CodexRecords
        BY <1>a, <2>1, <2>4 DEF CodexRecords
  <2>3. /\ panel'.loading = FALSE
        /\ panel'.requests = panel.requests \ {r}
        /\ panel'.shown = r.entries
        /\ panel'.new = panel.new \cap r.entries
        /\ panel'.stored = panel.stored /\ panel'.announced = panel.announced /\ panel'.came = panel.came
        /\ panel'.raced = panel.raced
        BY <1>a, <2>1, <2>4 DEF CodexRecords
  <2> QED BY <2>1, <2>2, <2>3 DEF CodexInv, Book!TypeOK, Book!NewUntilSeen
<1>7. CASE Book!FetchFails
  <2>1. PICK r \in panel.requests :
           panel' = [panel EXCEPT !.requests = @ \ {r}, !.loading = FALSE]
        BY <1>7 DEF Book!FetchFails
  <2>2. panel' \in CodexRecords
        BY <1>a, <2>1 DEF CodexRecords
  <2>3. /\ panel'.loading = FALSE
        /\ panel'.requests = panel.requests \ {r}
        /\ panel'.stored = panel.stored /\ panel'.announced = panel.announced /\ panel'.shown = panel.shown
        /\ panel'.new = panel.new /\ panel'.came = panel.came /\ panel'.raced = panel.raced
        BY <1>a, <2>1 DEF CodexRecords
  <2> QED BY <2>1, <2>2, <2>3 DEF CodexInv, Book!TypeOK, Book!NewUntilSeen
<1>8. CASE Book!Unmount
  <2>1. panel' = [panel EXCEPT !.new = @ \ Book!Entries, !.came = @ \ Book!Entries,
                               !.raced = @ \ Book!Entries, !.mounted = FALSE]
        BY <1>8 DEF Book!Unmount, Book!Seen
  <2>2. panel' \in CodexRecords
        BY <1>a, <2>1 DEF CodexRecords
  <2>3. /\ panel'.new = panel.new \ Book!Entries
        /\ panel'.came = panel.came \ Book!Entries
        /\ panel'.raced = panel.raced \ Book!Entries
        /\ panel'.stored = panel.stored /\ panel'.announced = panel.announced /\ panel'.shown = panel.shown
        /\ panel'.loading = panel.loading /\ panel'.requests = panel.requests
        BY <1>a, <2>1 DEF CodexRecords
  <2> QED BY <2>1, <2>2, <2>3, <1>a DEF CodexInv, Book!TypeOK, Book!NewUntilSeen, CodexRecords
<1>9. CASE Book!Reset
  <2>1. panel' = [panel EXCEPT !.new = @ \ Book!Entries, !.came = @ \ Book!Entries,
                               !.raced = @ \ Book!Entries, !.fetches = @ + 1, !.shown = {},
                               !.loading = FALSE, !.query = ""]
        BY <1>a, <1>9 DEF CodexRecords, Book!Reset, Book!Seen
  <2>4. "" \in Book!Queries
        BY DEF Book!Queries
  <2>2. panel' \in CodexRecords
        BY <1>a, <1>b, <2>1, <2>4 DEF CodexRecords
  <2>3. /\ panel'.new = panel.new \ Book!Entries
        /\ panel'.came = panel.came \ Book!Entries
        /\ panel'.raced = panel.raced \ Book!Entries
        /\ panel'.shown = {}
        /\ panel'.loading = FALSE
        /\ panel'.stored = panel.stored /\ panel'.announced = panel.announced /\ panel'.requests = panel.requests
        BY <1>a, <2>1 DEF CodexRecords
  <2> QED BY <2>1, <2>2, <2>3, <1>a DEF CodexInv, Book!TypeOK, Book!NewUntilSeen, CodexRecords
<1>10. CASE Book!SetCodexSearchQuery
  <2>1. PICK query \in Book!Queries :
           panel' = [panel EXCEPT !.query = query]
        BY <1>10 DEF Book!SetCodexSearchQuery
  <2>2. panel' \in CodexRecords
        BY <1>a, <2>1 DEF CodexRecords
  <2>3. /\ panel'.stored = panel.stored /\ panel'.announced = panel.announced /\ panel'.shown = panel.shown
        /\ panel'.new = panel.new /\ panel'.came = panel.came /\ panel'.raced = panel.raced
        /\ panel'.loading = panel.loading /\ panel'.requests = panel.requests
        BY <1>a, <2>1 DEF CodexRecords
  <2> QED BY <2>1, <2>2, <2>3 DEF CodexInv, Book!TypeOK, Book!NewUntilSeen
<1>11. CASE Book!MarkEntrySeen
  <2>1. PICK seen : panel' = [panel EXCEPT !.new = @ \ seen, !.came = @ \ seen,
                                           !.raced = @ \ seen]
        BY <1>11 DEF Book!MarkEntrySeen, Book!Seen
  <2>2. panel' \in CodexRecords
        BY <1>a, <2>1 DEF CodexRecords
  <2>3. /\ panel'.new = panel.new \ seen
        /\ panel'.came = panel.came \ seen
        /\ panel'.raced = panel.raced \ seen
        /\ panel'.stored = panel.stored /\ panel'.announced = panel.announced /\ panel'.shown = panel.shown
        /\ panel'.loading = panel.loading /\ panel'.requests = panel.requests
        BY <1>a, <2>1 DEF CodexRecords
  <2> QED BY <2>1, <2>2, <2>3 DEF CodexInv, Book!TypeOK, Book!NewUntilSeen
<1>12. CASE Book!MarkEntriesSeen
  <2>1. PICK seen : panel' = [panel EXCEPT !.new = @ \ seen, !.came = @ \ seen,
                                           !.raced = @ \ seen]
        BY <1>12 DEF Book!MarkEntriesSeen, Book!Seen
  <2>2. panel' \in CodexRecords
        BY <1>a, <2>1 DEF CodexRecords
  <2>3. /\ panel'.new = panel.new \ seen
        /\ panel'.came = panel.came \ seen
        /\ panel'.raced = panel.raced \ seen
        /\ panel'.stored = panel.stored /\ panel'.announced = panel.announced /\ panel'.shown = panel.shown
        /\ panel'.loading = panel.loading /\ panel'.requests = panel.requests
        BY <1>a, <2>1 DEF CodexRecords
  <2> QED BY <2>1, <2>2, <2>3 DEF CodexInv, Book!TypeOK, Book!NewUntilSeen
<1> QED BY <1>1, <1>2, <1>3, <1>4, <1>5, <1>6, <1>7, <1>8, <1>9, <1>10, <1>11, <1>12,
           <1>13 DEF Book!Next

-----------------------------------------------------------------------------
(* Blocks                                                                  *)

IsDraft(draft, fields) == draft = [field \in fields |-> draft[field]]

Once == {"guide", "form", "sheet"}

IsBlock(p) ==
    p = [type |-> p.type, schema |-> p.schema, fetched |-> p.fetched,
         renderer |-> p.renderer, pending |-> p.pending, locked |-> p.locked,
         data |-> p.data, draft |-> p.draft, saved |-> p.saved, status |-> p.status,
         valid |-> p.valid, done |-> p.done, answers |-> p.answers,
         edited |-> p.edited, sent |-> p.sent, refreshed |-> p.refreshed, new |-> p.new]

BlockShape ==
    /\ IsBlock(panel)
    /\ panel.fetched \in BOOLEAN /\ panel.refreshed \in BOOLEAN /\ panel.new \in BOOLEAN
    /\ IsDraft(panel.data, Blocks!Fields(panel.renderer))
    /\ IsDraft(panel.draft, Blocks!Fields(panel.renderer))
    /\ IsDraft(panel.saved, DOMAIN panel.saved)

\* The renderer is the one that is found for the block, or the schemas came
\* after the block of a plugin was drawn.
RendererFound ==
    \/ /\ panel.type \in Blocks!Registered
       /\ panel.renderer = Blocks!RendererOf(panel.type, "missing")
    \/ /\ panel.type = "widget" /\ panel.schema \in Blocks!Schemas
       /\ \/ panel.renderer = "fallback"
          \/ panel.fetched /\ panel.renderer = Blocks!RendererOf("widget", panel.schema)

\* An open block has no answer yet, nor has one without a renderer.
OpenUnanswered ==
    /\ panel.renderer \in Once /\ ~panel.done => panel.answers = 0
    /\ panel.renderer \in {"fallback", "hidden"} => panel.answers = 0

\* What the interaction store has is what the renderer shows.
SavedIsShown ==
    \A field \in DOMAIN panel.saved :
        \/ panel.draft[field] = panel.saved[field]
        \/ field = "name" /\ panel.saved[field] = ""
        \/ panel.renderer = "guide" /\ panel.done
        \/ panel.renderer = "image"

\* Whatever differs from the data of a sheet was edited, in the renderer as in
\* the store.
DifferenceEdited ==
    panel.renderer = "sheet" /\ ~panel.refreshed =>
        /\ Blocks!Differing \subseteq panel.edited
        /\ \A field \in DOMAIN panel.saved :
              panel.saved[field] # panel.data[field] => field \in panel.edited

BlockInv ==
    /\ BlockShape /\ Blocks!TypeOK /\ RendererFound
    /\ OpenUnanswered /\ Blocks!AnsweredOnce
    /\ SavedIsShown /\ Blocks!DraftSurvivesMounting
    /\ DifferenceEdited /\ Blocks!SheetSendsEdits

Found(p) == Blocks!RendererOf(p.type, IF p.fetched THEN p.schema ELSE "missing")

\* Mounting changes the renderer and starts it anew, or restores its draft.
LEMMA MountedFields ==
    ASSUME NEW p, IsBlock(p)
    PROVE  LET m == Blocks!Mounted(p)
           IN  /\ IsBlock(m)
               /\ m.type = p.type /\ m.schema = p.schema /\ m.fetched = p.fetched
               /\ m.pending = p.pending /\ m.locked = p.locked /\ m.status = p.status
               /\ m.valid = p.valid /\ m.done = p.done /\ m.answers = p.answers
               /\ m.edited = p.edited /\ m.sent = p.sent /\ m.refreshed = p.refreshed /\ m.new = p.new
               /\ m.renderer = Found(p)
               /\ IF Found(p) # p.renderer
                  THEN /\ m.data = Blocks!Blank(Found(p)) /\ m.saved = Blocks!Unsaved
                       /\ m.draft = Blocks!Blank(Found(p))
                  ELSE /\ m.data = p.data /\ m.saved = p.saved
                       /\ m.draft = IF Found(p) = "image" THEN Blocks!Blank(Found(p))
                                    ELSE Blocks!Restored(p.data, p.saved)
<1>1. CASE Found(p) # p.renderer
  <2>1. Blocks!Mounted(p) = [p EXCEPT !.renderer = Found(p), !.data = Blocks!Blank(Found(p)),
                                      !.draft = Blocks!Blank(Found(p)), !.saved = Blocks!Unsaved]
        BY <1>1 DEF Blocks!Mounted, Found
  <2> QED BY <1>1, <2>1 DEF IsBlock
<1>2. CASE Found(p) = p.renderer
  <2> DEFINE draft == IF Found(p) = "image" THEN Blocks!Blank(Found(p))
                      ELSE Blocks!Restored(p.data, p.saved)
  <2>1. Blocks!Mounted(p) = [p EXCEPT !.draft = draft]
        BY <1>2 DEF Blocks!Mounted, Found
  <2> HIDE DEF draft
  <2>2. /\ IsBlock([p EXCEPT !.draft = draft])
        /\ [p EXCEPT !.draft = draft].draft = draft
        BY DEF IsBlock
  <2> QED BY <1>2, <2>1, <2>2 DEF IsBlock, draft
<1> QED BY <1>1, <1>2

LEMMA WidgetRenderers ==
    /\ Blocks!RendererOf("widget", "missing") = "fallback"
    /\ Blocks!RendererOf("widget", "card") = "generic"
    /\ Blocks!RendererOf("widget", "none") = "hidden"
    /\ Blocks!RendererOf("widget", "custom") = "form"
    /\ "widget" \notin Blocks!Registered
BY DEF Blocks!RendererOf, Blocks!Registered

LEMMA RegisteredRenderers ==
    ASSUME NEW type \in Blocks!Registered, NEW schema
    PROVE  /\ Blocks!RendererOf(type, schema) = Blocks!RendererOf(type, "missing")
           /\ Blocks!RendererOf(type, schema) \in {"guide", "form", "sheet", "image"}
BY DEF Blocks!RendererOf, Blocks!Registered

\* Another renderer is only ever found for a block of a plugin that was shown
\* as JSON until the schemas came.
LEMMA FoundAnew ==
    ASSUME BlockShape, RendererFound, Found(panel) # panel.renderer
    PROVE  panel.renderer = "fallback" /\ Found(panel) \in {"form", "hidden", "generic"}
<1>1. CASE panel.type \in Blocks!Registered
      BY <1>1, RegisteredRenderers, WidgetRenderers DEF RendererFound, Found
<1>2. CASE panel.type = "widget" /\ panel.schema \in Blocks!Schemas
  <2>1. CASE ~panel.fetched
        BY <1>2, <2>1, WidgetRenderers DEF RendererFound, Found
  <2>2. CASE panel.fetched
        BY <1>2, <2>2, WidgetRenderers DEF RendererFound, Found, Blocks!Schemas
  <2> QED BY <2>1, <2>2
<1> QED BY <1>1, <1>2 DEF RendererFound

LEMMA FoundIsFound ==
    ASSUME BlockShape, RendererFound
    PROVE  \/ /\ panel.type \in Blocks!Registered
              /\ Found(panel) = Blocks!RendererOf(panel.type, "missing")
           \/ /\ panel.type = "widget" /\ panel.schema \in Blocks!Schemas
              /\ \/ Found(panel) = "fallback"
                 \/ panel.fetched /\ Found(panel) = Blocks!RendererOf("widget", panel.schema)
BY DEF RendererFound, Found, Blocks!RendererOf, Blocks!Registered, Blocks!Schemas, BlockShape

LEMMA BlankIsDraft ==
    ASSUME NEW renderer
    PROVE  /\ IsDraft(Blocks!Blank(renderer), Blocks!Fields(renderer))
           /\ DOMAIN Blocks!Blank(renderer) = Blocks!Fields(renderer)
           /\ IsDraft(Blocks!Unsaved, {}) /\ DOMAIN Blocks!Unsaved = {}
BY DEF IsDraft, Blocks!Blank, Blocks!Unsaved

LEMMA RestoredIsDraft ==
    ASSUME NEW data, NEW saved, NEW fields, DOMAIN data = fields
    PROVE  /\ IsDraft(Blocks!Restored(data, saved), fields)
           /\ DOMAIN Blocks!Restored(data, saved) = fields
           /\ \A field \in fields :
                 Blocks!Restored(data, saved)[field] =
                    IF field \notin DOMAIN saved THEN data[field]
                    ELSE IF field = "name" /\ saved[field] = "" THEN data[field]
                    ELSE saved[field]
BY DEF IsDraft, Blocks!Restored

\* A block that is mounted, with what is left of it when the session was opened
\* anew: "p" is the block before that, "at" whether it is still pending.
LEMMA MountedKeeps ==
    ASSUME BlockInv, MaxAnswers \in Nat,
           NEW p, IsBlock(p), NEW at \in BOOLEAN,
           p.type = panel.type, p.schema = panel.schema, p.fetched = panel.fetched,
           p.renderer = panel.renderer, p.locked = panel.locked, p.data = panel.data,
           p.valid = panel.valid, p.new = panel.new,
           \/ /\ p.saved = panel.saved /\ p.done = panel.done /\ p.answers = panel.answers
              /\ p.edited = panel.edited /\ p.sent = panel.sent
              /\ p.refreshed = panel.refreshed
           \/ /\ p.saved = Blocks!Unsaved /\ p.done = FALSE /\ p.answers = 0
              /\ p.edited = {} /\ p.sent = {} /\ p.refreshed = FALSE,
           panel' = [Blocks!Mounted(p) EXCEPT !.pending = at]
    PROVE  BlockInv'
<1> DEFINE m == Blocks!Mounted(p)
<1>1. /\ IsBlock(m)
      /\ m.type = p.type /\ m.schema = p.schema /\ m.fetched = p.fetched
      /\ m.locked = p.locked
      /\ m.valid = p.valid /\ m.done = p.done /\ m.answers = p.answers
      /\ m.edited = p.edited /\ m.sent = p.sent /\ m.refreshed = p.refreshed
      /\ m.new = p.new
      /\ m.renderer = Found(p)
      /\ IF Found(p) # p.renderer
         THEN /\ m.data = Blocks!Blank(Found(p)) /\ m.saved = Blocks!Unsaved
              /\ m.draft = Blocks!Blank(Found(p))
         ELSE /\ m.data = p.data /\ m.saved = p.saved
              /\ m.draft = IF Found(p) = "image" THEN Blocks!Blank(Found(p))
                           ELSE Blocks!Restored(p.data, p.saved)
      BY MountedFields
<1>2. panel' = [m EXCEPT !.pending = at]
      OBVIOUS
<1> HIDE DEF m
<1>3. /\ IsBlock(panel') /\ panel'.pending = at
      /\ panel'.type = m.type /\ panel'.schema = m.schema /\ panel'.fetched = m.fetched
      /\ panel'.locked = m.locked /\ panel'.renderer = m.renderer
      /\ panel'.data = m.data /\ panel'.draft = m.draft /\ panel'.saved = m.saved
      /\ panel'.valid = m.valid /\ panel'.done = m.done /\ panel'.answers = m.answers
      /\ panel'.edited = m.edited /\ panel'.sent = m.sent /\ panel'.refreshed = m.refreshed
      /\ panel'.new = m.new
      BY <1>1, <1>2 DEF IsBlock
<1>4. /\ Found(p) = Found(panel)
      /\ panel'.type = panel.type /\ panel'.schema = panel.schema
      /\ panel'.fetched = panel.fetched /\ panel'.locked = panel.locked
      /\ panel'.renderer = Found(panel) /\ panel'.valid = panel.valid
      /\ panel'.new = panel.new
      BY <1>1, <1>3 DEF Found
<1>5. /\ \/ /\ panel'.done = panel.done /\ panel'.answers = panel.answers
            /\ panel'.edited = panel.edited /\ panel'.sent = panel.sent
            /\ panel'.refreshed = panel.refreshed
         \/ /\ panel'.done = FALSE /\ panel'.answers = 0 /\ panel'.edited = {}
            /\ panel'.sent = {} /\ panel'.refreshed = FALSE
      BY <1>1, <1>3
<1>6. RendererFound'
      BY <1>4, FoundIsFound DEF BlockInv, RendererFound
<1>7. panel.renderer = Found(panel) \/ panel.renderer = "fallback"
      BY FoundAnew DEF BlockInv
<1>8. OpenUnanswered' /\ Blocks!AnsweredOnce'
      BY <1>4, <1>5, <1>7, FoundAnew DEF BlockInv, OpenUnanswered, Blocks!AnsweredOnce, Once
<1>9. CASE Found(panel) # panel.renderer
  <2>1. /\ panel.renderer = "fallback" /\ Found(panel) \in {"form", "hidden", "generic"}
        /\ panel.answers = 0
        BY <1>9, FoundAnew DEF BlockInv, OpenUnanswered
  <2>2. panel.edited = {} /\ panel.sent = {}
        BY <2>1 DEF BlockInv, Blocks!TypeOK, Blocks!Fields
  <2>3. /\ panel'.data = Blocks!Blank(Found(panel)) /\ panel'.draft = Blocks!Blank(Found(panel))
        /\ panel'.saved = Blocks!Unsaved
        BY <1>1, <1>3, <1>4, <1>9
  <2>4. BlockShape'
        BY <1>3, <1>4, <1>5, <2>3, BlankIsDraft DEF BlockShape, BlockInv
  <2>5. Blocks!TypeOK'
    <3>1. /\ panel.valid \in BOOLEAN /\ panel.done \in BOOLEAN /\ panel.locked \in BOOLEAN
          BY DEF BlockInv, Blocks!TypeOK
    <3>2. /\ panel'.valid \in BOOLEAN /\ panel'.done \in BOOLEAN
          /\ panel'.pending \in BOOLEAN /\ panel'.locked \in BOOLEAN
          BY <1>3, <1>4, <1>5, <3>1
    <3>3. panel'.answers \in 0..MaxAnswers /\ panel'.edited \cup panel'.sent = {}
          BY <1>5, <2>2 DEF BlockInv, Blocks!TypeOK
    <3>4. DOMAIN panel'.draft = Blocks!Fields(panel'.renderer) /\ DOMAIN panel'.saved = {}
          BY <1>4, <2>3, BlankIsDraft
    <3>5. panel'.renderer \in Blocks!Registered \cup {"generic", "hidden", "fallback"}
          BY <1>4, <2>1 DEF Blocks!Registered
    <3> QED BY <3>2, <3>3, <3>4, <3>5 DEF Blocks!TypeOK
  <2>6. \A field \in Blocks!Fields(Found(panel)) :
           Blocks!Restored(panel'.data, panel'.saved)[field] = panel'.draft[field]
        BY <2>3, BlankIsDraft DEF Blocks!Restored
  <2>7. SavedIsShown' /\ Blocks!DraftSurvivesMounting'
        BY <1>4, <2>3, <2>6, BlankIsDraft DEF SavedIsShown, Blocks!DraftSurvivesMounting
  <2>8. DifferenceEdited' /\ Blocks!SheetSendsEdits'
        BY <1>1, <1>4, <1>5, <2>1, <2>2 DEF DifferenceEdited, Blocks!SheetSendsEdits
  <2> QED BY <1>6, <1>8, <2>4, <2>5, <2>7, <2>8 DEF BlockInv
<1>10. CASE Found(panel) = panel.renderer
  <2> DEFINE R == panel.renderer
             F == Blocks!Fields(R)
  <2>1. /\ panel'.data = panel.data /\ panel'.renderer = R
        /\ panel'.saved = panel.saved \/ panel'.saved = Blocks!Unsaved
        /\ panel'.draft = IF R = "image" THEN Blocks!Blank(R)
                          ELSE Blocks!Restored(panel'.data, panel'.saved)
        BY <1>1, <1>3, <1>4, <1>10
  <2>2. IsDraft(panel.data, F) /\ DOMAIN panel.data = F /\ IsDraft(panel.saved, DOMAIN panel.saved)
        /\ DOMAIN panel.saved \subseteq F
        BY DEF BlockInv, BlockShape, IsDraft, Blocks!TypeOK
  <2>3. IsDraft(panel'.saved, DOMAIN panel'.saved) /\ DOMAIN panel'.saved \subseteq F
        BY <2>1, <2>2, BlankIsDraft
  <2>a. DOMAIN panel'.data = F
        BY <2>1, <2>2
  <2>b. /\ IsDraft(Blocks!Blank(R), F)
        /\ DOMAIN Blocks!Blank(R) = F
        BY BlankIsDraft
  <2> HIDE DEF F
  <2>c. /\ IsDraft(Blocks!Restored(panel'.data, panel'.saved), F)
        /\ DOMAIN Blocks!Restored(panel'.data, panel'.saved) = F
        /\ \A field \in F :
              Blocks!Restored(panel'.data, panel'.saved)[field] =
                 IF field \notin DOMAIN panel'.saved THEN panel'.data[field]
                 ELSE IF field = "name" /\ panel'.saved[field] = "" THEN panel'.data[field]
                 ELSE panel'.saved[field]
    <3> DEFINE d == panel'.data
               s == panel'.saved
               r == Blocks!Restored(d, s)
    <3>1. r = [field \in F |-> IF field \notin DOMAIN s THEN d[field]
                               ELSE IF field = "name" /\ s[field] = "" THEN d[field]
                               ELSE s[field]]
          BY <2>a DEF Blocks!Restored
    <3> HIDE DEF d, s, r
    <3> QED BY <3>1 DEF IsDraft, d, s, r
  <2>4. IsDraft(panel'.draft, F) /\ DOMAIN panel'.draft = F
        BY <2>1, <2>b, <2>c
  <2>5. \A field \in F :
           Blocks!Restored(panel'.data, panel'.saved)[field] =
              IF field \notin DOMAIN panel'.saved THEN panel'.data[field]
              ELSE IF field = "name" /\ panel'.saved[field] = "" THEN panel'.data[field]
              ELSE panel'.saved[field]
        BY <2>c
  <2>6. BlockShape'
        BY <1>3, <1>4, <1>5, <2>1, <2>2, <2>3, <2>4 DEF BlockShape, BlockInv, F
  <2>7. Blocks!TypeOK'
    <3>1. /\ panel.valid \in BOOLEAN /\ panel.done \in BOOLEAN /\ panel.locked \in BOOLEAN
          BY DEF BlockInv, Blocks!TypeOK
    <3>2. /\ panel'.valid \in BOOLEAN /\ panel'.done \in BOOLEAN
          /\ panel'.pending \in BOOLEAN /\ panel'.locked \in BOOLEAN
          BY <1>3, <1>4, <1>5, <3>1
    <3>3. panel'.answers \in 0..MaxAnswers /\ panel'.edited \cup panel'.sent \subseteq F
          BY <1>5 DEF BlockInv, Blocks!TypeOK, F
    <3> QED BY <2>1, <2>3, <2>4, <3>2, <3>3 DEF BlockInv, Blocks!TypeOK, F
  <2>8. SavedIsShown'
    <3> SUFFICES ASSUME R # "image", NEW field \in DOMAIN panel'.saved,
                        ~(field = "name" /\ panel'.saved[field] = "")
                 PROVE  panel'.draft[field] = panel'.saved[field]
        BY <2>1 DEF SavedIsShown
    <3>1. field \in F
          BY <2>3
    <3>2. panel'.draft = Blocks!Restored(panel'.data, panel'.saved)
          BY <2>1
    <3> QED BY <2>5, <3>1, <3>2
  <2>9. Blocks!DraftSurvivesMounting'
        BY <2>1 DEF Blocks!DraftSurvivesMounting
  <2>10. Blocks!SheetSendsEdits'
        BY <1>4, <1>5 DEF BlockInv, Blocks!SheetSendsEdits
  <2>11. DifferenceEdited'
    <3> SUFFICES ASSUME R = "sheet", ~panel'.refreshed
                 PROVE  /\ Blocks!Differing' \subseteq panel'.edited
                        /\ \A field \in DOMAIN panel'.saved :
                              panel'.saved[field] # panel'.data[field] => field \in panel'.edited
        BY <2>1 DEF DifferenceEdited
    <3>1. Blocks!Differing' = {field \in F : panel'.draft[field] # panel'.data[field]}
          BY DEF Blocks!Differing, F
    <3>2. \A field \in Blocks!Differing' :
             field \in DOMAIN panel'.saved /\ panel'.saved[field] # panel'.data[field]
          BY <2>1, <2>5, <3>1
    <3>3. \A field \in DOMAIN panel'.saved :
             panel'.saved[field] # panel'.data[field] => field \in panel'.edited
          BY <1>1, <1>3, <1>10, <2>1, BlankIsDraft DEF BlockInv, DifferenceEdited, Found
    <3> QED BY <3>2, <3>3
  <2> QED BY <1>6, <1>8, <2>6, <2>7, <2>8, <2>9, <2>10, <2>11 DEF BlockInv
<1> QED BY <1>9, <1>10

LEMMA BlockInit == MaxAnswers \in Nat /\ Blocks!Init => BlockInv
<1> SUFFICES ASSUME MaxAnswers \in Nat,
                    NEW type \in Blocks!Registered \cup {"widget"}, NEW schema \in Blocks!Schemas,
                    NEW fetched \in BOOLEAN, NEW new \in BOOLEAN,
                    type # "widget" => schema = "missing",
                    panel = Blocks!Arrived(type, schema, fetched, new)
             PROVE  BlockInv
    BY DEF Blocks!Init
<1> DEFINE R == Blocks!RendererOf(type, IF fetched THEN schema ELSE "missing")
<1>1. panel = [type |-> type, schema |-> schema, fetched |-> fetched, renderer |-> R,
               pending |-> TRUE, locked |-> FALSE,
               data |-> Blocks!Blank(R), draft |-> Blocks!Blank(R), saved |-> Blocks!Unsaved,
               status |-> "generating", valid |-> TRUE, done |-> FALSE,
               answers |-> 0, edited |-> {}, sent |-> {}, refreshed |-> FALSE, new |-> new]
      BY DEF Blocks!Arrived
<1>2. R \in {"guide", "form", "sheet", "image", "fallback", "generic", "hidden"}
  <2>1. CASE type \in Blocks!Registered
        BY <2>1, RegisteredRenderers
  <2>2. CASE type = "widget"
        BY <2>2, WidgetRenderers DEF Blocks!Schemas
  <2> QED BY <2>1, <2>2
<1>3. panel.type = type /\ panel.schema = schema /\ panel.fetched = fetched /\ panel.renderer = R
      BY <1>1
<1>4. RendererFound
  <2>1. CASE type \in Blocks!Registered
        BY <1>3, <2>1, RegisteredRenderers DEF RendererFound
  <2>2. CASE type = "widget"
        BY <1>3, <2>2, WidgetRenderers DEF RendererFound
  <2> QED BY <2>1, <2>2
<1> HIDE DEF R
<1>5. BlockShape
  <2>1. IsBlock(panel)
        BY <1>1 DEF IsBlock
  <2> QED BY <1>1, <2>1, BlankIsDraft DEF BlockShape
<1>6. Blocks!TypeOK
      BY <1>1, <1>2, BlankIsDraft DEF Blocks!TypeOK, Blocks!Registered
<1>7. OpenUnanswered /\ Blocks!AnsweredOnce
      BY <1>1 DEF OpenUnanswered, Blocks!AnsweredOnce
<1>a. /\ DOMAIN panel.saved = {} /\ panel.data = panel.draft
      /\ DOMAIN panel.data = Blocks!Fields(panel.renderer)
      BY <1>1, BlankIsDraft
<1>8. SavedIsShown
      BY <1>a DEF SavedIsShown
<1>9. Blocks!DraftSurvivesMounting
  <2>1. \A field \in Blocks!Fields(panel.renderer) :
           panel.draft[field] = Blocks!Restored(panel.data, panel.saved)[field]
        BY <1>a DEF Blocks!Restored
  <2> QED BY <2>1 DEF Blocks!DraftSurvivesMounting
<1>10. DifferenceEdited /\ Blocks!SheetSendsEdits
      BY <1>1, BlankIsDraft DEF DifferenceEdited, Blocks!SheetSendsEdits, Blocks!Differing
<1> QED BY <1>4, <1>5, <1>6, <1>7, <1>8, <1>9, <1>10 DEF BlockInv

\* A field of an open block is edited: the fields stored with it are stored as
\* they are shown.
LEMMA TypedKeeps ==
    ASSUME BlockInv, panel.renderer \in Once, ~panel.done,
           NEW field \in Blocks!Fields(panel.renderer), NEW value,
           Blocks!Together(field) \subseteq Blocks!Fields(panel.renderer),
           field \in Blocks!Together(field),
           Blocks!Typed(field, value)
    PROVE  BlockInv'
<1> DEFINE draft == [panel.draft EXCEPT ![field] = value]
           saved == Blocks!Saved(field, draft)
           valid == panel.valid \/ field = "text"
           F == Blocks!Fields(panel.renderer)
<1>a. valid \in BOOLEAN
      OBVIOUS
<1>b. panel' = [panel EXCEPT !.draft = draft, !.saved = saved, !.valid = valid,
                             !.edited = @ \cup {field}]
      BY DEF Blocks!Typed
<1>c. IsDraft(panel.draft, F) /\ DOMAIN panel.draft = F
      BY DEF BlockInv, BlockShape, IsDraft
<1>d. /\ IsDraft(draft, F) /\ DOMAIN draft = F /\ draft[field] = value
      /\ \A g \in F \ {field} : draft[g] = panel.draft[g]
      BY <1>c DEF IsDraft
<1>e. /\ IsDraft(saved, DOMAIN saved)
      /\ DOMAIN saved = Blocks!Together(field) \cup DOMAIN panel.saved
      /\ \A g \in DOMAIN saved :
            saved[g] = IF g \in Blocks!Together(field) THEN draft[g] ELSE panel.saved[g]
      BY DEF IsDraft, Blocks!Saved
<1> HIDE DEF draft, saved, valid
<1>1. /\ IsBlock(panel') /\ panel'.draft = draft /\ panel'.saved = saved
      /\ panel'.valid = valid /\ panel'.edited = panel.edited \cup {field}
      /\ panel'.type = panel.type /\ panel'.schema = panel.schema
      /\ panel'.fetched = panel.fetched /\ panel'.renderer = panel.renderer
      /\ panel'.pending = panel.pending /\ panel'.locked = panel.locked
      /\ panel'.data = panel.data /\ panel'.done = panel.done
      /\ panel'.answers = panel.answers /\ panel'.sent = panel.sent
      /\ panel'.refreshed = panel.refreshed /\ panel'.new = panel.new
      BY <1>b DEF BlockInv, BlockShape, IsBlock
<1>2. BlockShape'
      BY <1>1, <1>d, <1>e DEF BlockInv, BlockShape
<1>3. Blocks!TypeOK'
      BY <1>1, <1>a, <1>d, <1>e DEF BlockInv, Blocks!TypeOK
<1>4. RendererFound' /\ OpenUnanswered' /\ Blocks!AnsweredOnce' /\ Blocks!SheetSendsEdits'
      BY <1>1 DEF BlockInv, RendererFound, OpenUnanswered, Blocks!AnsweredOnce,
                  Blocks!SheetSendsEdits
<1>5. SavedIsShown'
      BY <1>1, <1>d, <1>e DEF BlockInv, SavedIsShown, Once, Blocks!TypeOK
<1>6. DOMAIN panel.data = F /\ DOMAIN panel.saved \subseteq F
      BY DEF BlockInv, BlockShape, IsDraft, Blocks!TypeOK
<1> HIDE DEF F
<1>7. Blocks!DraftSurvivesMounting'
  <2> SUFFICES ASSUME NEW g \in F
               PROVE  \/ panel'.draft[g] = Blocks!Restored(panel'.data, panel'.saved)[g]
                      \/ g = "name" /\ panel'.draft[g] = ""
                      \/ /\ panel'.refreshed
                         /\ Blocks!Restored(panel'.data, panel'.saved)[g] = panel'.data[g]
      BY <1>1 DEF Blocks!DraftSurvivesMounting, F
  <2> DEFINE Shown(data, store) ==
                IF g \notin DOMAIN store THEN data[g]
                ELSE IF g = "name" /\ store[g] = "" THEN data[g]
                ELSE store[g]
  <2>1. /\ Blocks!Restored(panel.data, panel.saved)[g] = Shown(panel.data, panel.saved)
        /\ Blocks!Restored(panel.data, saved)[g] = Shown(panel.data, saved)
        BY <1>6 DEF Blocks!Restored
  <2>2. CASE g \in Blocks!Together(field)
        BY <1>1, <1>e, <2>1, <2>2
  <2>3. CASE g \notin Blocks!Together(field)
    <3>1. /\ g \in DOMAIN saved <=> g \in DOMAIN panel.saved
          /\ g \in DOMAIN saved => saved[g] = panel.saved[g]
          /\ draft[g] = panel.draft[g]
          BY <1>d, <1>e, <2>3 DEF F
    <3>2. Shown(panel.data, saved) = Shown(panel.data, panel.saved)
          BY <3>1
    <3>3. \/ panel.draft[g] = Blocks!Restored(panel.data, panel.saved)[g]
          \/ g = "name" /\ panel.draft[g] = ""
          \/ panel.refreshed /\ Blocks!Restored(panel.data, panel.saved)[g] = panel.data[g]
          BY DEF BlockInv, Blocks!DraftSurvivesMounting, Once, F
    <3> QED BY <1>1, <2>1, <3>1, <3>2, <3>3
  <2> QED BY <2>2, <2>3
<1>8. DifferenceEdited'
  <2> SUFFICES ASSUME panel.renderer = "sheet", ~panel.refreshed
               PROVE  /\ Blocks!Differing' \subseteq panel'.edited
                      /\ \A g \in DOMAIN saved :
                            saved[g] # panel.data[g] => g \in panel'.edited
      BY <1>1 DEF DifferenceEdited
  <2>1. /\ Blocks!Differing' = {g \in F : draft[g] # panel.data[g]}
        /\ Blocks!Differing = {g \in F : panel.draft[g] # panel.data[g]}
        BY <1>1 DEF Blocks!Differing, F
  <2>2. /\ Blocks!Differing \subseteq panel.edited
        /\ \A g \in DOMAIN panel.saved : panel.saved[g] # panel.data[g] => g \in panel.edited
        BY DEF BlockInv, DifferenceEdited
  <2>3. Blocks!Differing' \subseteq panel'.edited
        BY <1>1, <1>d, <2>1, <2>2 DEF F
  <2>4. ASSUME NEW g \in DOMAIN saved, saved[g] # panel.data[g]
        PROVE  g \in panel'.edited
    <3>1. g \in F
          BY <1>e, <1>6 DEF F
    <3>2. CASE g \in Blocks!Together(field)
          BY <1>e, <2>1, <2>3, <2>4, <3>1, <3>2
    <3>3. CASE g \notin Blocks!Together(field)
          BY <1>1, <1>e, <2>2, <2>4, <3>3
    <3> QED BY <3>2, <3>3
  <2> QED BY <2>3, <2>4
<1> QED BY <1>2, <1>3, <1>4, <1>5, <1>7, <1>8 DEF BlockInv

\* A form or a sheet is answered: what it shows is stored as a whole.
LEMMA AnsweredKeeps ==
    ASSUME BlockInv, MaxAnswers \in Nat \ {0},
           panel.renderer \in {"form", "sheet"}, ~panel.done,
           NEW valid \in BOOLEAN, NEW sent, sent \subseteq Blocks!Fields(panel.renderer),
           panel.new \/ sent \in {panel.sent, Blocks!Differing},
           panel.renderer = "form" => sent = panel.sent,
           panel' = [panel EXCEPT !.done = TRUE, !.answers = @ + 1, !.saved = panel.draft,
                                  !.valid = valid, !.sent = sent]
    PROVE  BlockInv'
<1> DEFINE F == Blocks!Fields(panel.renderer)
<1>a. panel.answers = 0
      BY DEF BlockInv, OpenUnanswered, Once
<1>b. DOMAIN panel.draft = F /\ DOMAIN panel.data = F
      BY DEF BlockInv, BlockShape, IsDraft
<1>c. panel' = [panel EXCEPT !.done = TRUE, !.answers = 1, !.saved = panel.draft,
                             !.valid = valid, !.sent = sent]
      BY <1>a
<1>1. /\ IsBlock(panel')
      /\ panel'.type = panel.type /\ panel'.schema = panel.schema
      /\ panel'.fetched = panel.fetched /\ panel'.renderer = panel.renderer
      /\ panel'.pending = panel.pending /\ panel'.locked = panel.locked
      /\ panel'.data = panel.data /\ panel'.draft = panel.draft
      /\ panel'.saved = panel.draft /\ panel'.valid = valid /\ panel'.done = TRUE
      /\ panel'.answers = 1 /\ panel'.edited = panel.edited /\ panel'.sent = sent
      /\ panel'.refreshed = panel.refreshed /\ panel'.new = panel.new
      BY <1>c DEF BlockInv, BlockShape, IsBlock
<1>2. BlockShape'
      BY <1>1, <1>b DEF BlockInv, BlockShape
<1>3. sent \subseteq F
      OBVIOUS
<1>4. Blocks!TypeOK'
      BY <1>1, <1>b, <1>3 DEF BlockInv, Blocks!TypeOK
<1>5. RendererFound' /\ OpenUnanswered' /\ Blocks!AnsweredOnce'
      BY <1>1 DEF BlockInv, RendererFound, OpenUnanswered, Blocks!AnsweredOnce
<1>6. SavedIsShown'
      BY <1>1 DEF SavedIsShown
<1>7. Blocks!DraftSurvivesMounting'
  <2>1. \A field \in F : \/ panel.draft[field] = Blocks!Restored(panel.data, panel.draft)[field]
                         \/ field = "name" /\ panel.draft[field] = ""
        BY <1>b DEF Blocks!Restored
  <2> QED BY <1>1, <2>1 DEF Blocks!DraftSurvivesMounting
<1>8. DifferenceEdited' /\ Blocks!SheetSendsEdits'
  <2>1. CASE panel.renderer = "sheet"
    <3>1. /\ Blocks!Differing = {field \in F : panel.draft[field] # panel.data[field]}
          /\ Blocks!Differing' = Blocks!Differing
          BY <1>1, <2>1 DEF Blocks!Differing
    <3> QED BY <1>1, <1>b, <2>1, <3>1 DEF BlockInv, DifferenceEdited, Blocks!SheetSendsEdits
  <2>2. CASE panel.renderer = "form"
        BY <1>1, <2>2 DEF BlockInv, DifferenceEdited, Blocks!SheetSendsEdits
  <2> QED BY <2>1, <2>2
<1> QED BY <1>2, <1>4, <1>5, <1>6, <1>7, <1>8 DEF BlockInv

LEMMA GuideAnsweredKeeps ==
    ASSUME BlockInv, MaxAnswers \in Nat \ {0}, ~panel.done, Blocks!AnswerGuide
    PROVE  BlockInv'
<1> DEFINE saved == Blocks!Saved("custom", [panel.draft EXCEPT !["custom"] = ""])
<1>a. panel.renderer = "guide" /\ panel.answers = 0
      BY DEF Blocks!AnswerGuide, BlockInv, OpenUnanswered, Once
<1>b. panel' = [panel EXCEPT !.done = TRUE, !.answers = 1, !.saved = saved]
      BY <1>a DEF Blocks!AnswerGuide
<1>c. IsDraft(saved, DOMAIN saved) /\ DOMAIN saved \subseteq Blocks!Fields(panel.renderer)
  <2>1. "custom" \in Blocks!Fields(panel.renderer) /\ Blocks!Together("custom") = {"custom"}
        BY <1>a DEF Blocks!Fields, Blocks!Together
  <2> QED BY <2>1 DEF IsDraft, BlockInv, Blocks!TypeOK, Blocks!Saved
<1> HIDE DEF saved
<1>1. /\ IsBlock(panel')
      /\ panel'.type = panel.type /\ panel'.schema = panel.schema
      /\ panel'.fetched = panel.fetched /\ panel'.renderer = panel.renderer
      /\ panel'.pending = panel.pending /\ panel'.locked = panel.locked
      /\ panel'.data = panel.data /\ panel'.draft = panel.draft /\ panel'.saved = saved
      /\ panel'.valid = panel.valid /\ panel'.done = TRUE /\ panel'.answers = 1
      /\ panel'.edited = panel.edited /\ panel'.sent = panel.sent
      /\ panel'.refreshed = panel.refreshed /\ panel'.new = panel.new
      BY <1>a, <1>b DEF BlockInv, BlockShape, IsBlock
<1>2. BlockShape'
      BY <1>1, <1>c DEF BlockInv, BlockShape
<1>6. Blocks!TypeOK'
  <2>1. 1 \in 0..MaxAnswers
        OBVIOUS
  <2>2. panel'.valid \in BOOLEAN /\ panel'.pending \in BOOLEAN /\ panel'.locked \in BOOLEAN
        BY <1>1 DEF BlockInv, Blocks!TypeOK
  <2> QED BY <1>1, <1>c, <2>1, <2>2 DEF BlockInv, Blocks!TypeOK
<1>3. RendererFound' /\ OpenUnanswered' /\ Blocks!AnsweredOnce'
      BY <1>1, <1>a DEF BlockInv, RendererFound, OpenUnanswered, Blocks!AnsweredOnce
<1>4. SavedIsShown' /\ Blocks!DraftSurvivesMounting'
      BY <1>1, <1>a DEF SavedIsShown, Blocks!DraftSurvivesMounting
<1>5. DifferenceEdited' /\ Blocks!SheetSendsEdits'
      BY <1>1, <1>a DEF BlockInv, DifferenceEdited, Blocks!SheetSendsEdits
<1> QED BY <1>2, <1>3, <1>4, <1>5, <1>6 DEF BlockInv

\* A step that leaves alone what was typed, stored and sent, but for the note on an
\* image.
LEMMA UntouchedKeeps ==
    ASSUME BlockInv, IsBlock(panel'),
           panel'.type = panel.type, panel'.schema = panel.schema,
           panel'.renderer = panel.renderer, panel'.data = panel.data,
           panel'.saved = panel.saved, panel'.done = panel.done,
           panel'.edited = panel.edited, panel'.sent = panel.sent,
           panel'.refreshed = panel.refreshed, panel'.new = panel.new,
           panel'.fetched \in {panel.fetched, TRUE},
           panel'.valid \in BOOLEAN, panel'.pending \in BOOLEAN, panel'.locked \in BOOLEAN,
           \/ panel'.answers = panel.answers
           \/ panel.renderer \in {"generic", "image"} /\ panel'.answers \in 0..MaxAnswers,
           \/ panel'.draft = panel.draft
           \/ /\ panel.renderer = "image"
              /\ IsDraft(panel'.draft, Blocks!Fields("image"))
    PROVE  BlockInv'
<1>1. Blocks!Differing' = Blocks!Differing \/ panel.renderer = "image"
      BY DEF Blocks!Differing
<1>2. IsDraft(panel'.draft, Blocks!Fields(panel.renderer))
      BY DEF BlockInv, BlockShape
<1>3. BlockShape'
      BY <1>2 DEF BlockInv, BlockShape
<1>4. DOMAIN panel'.draft = Blocks!Fields(panel.renderer)
      BY <1>2 DEF IsDraft
<1>5. Blocks!TypeOK'
      BY <1>4 DEF BlockInv, Blocks!TypeOK
<1>6. RendererFound' /\ OpenUnanswered'
      BY DEF BlockInv, RendererFound, OpenUnanswered, Once
<1>7. Blocks!AnsweredOnce' /\ SavedIsShown'
      BY DEF BlockInv, Blocks!AnsweredOnce, SavedIsShown
<1>8. Blocks!DraftSurvivesMounting'
      BY DEF BlockInv, Blocks!DraftSurvivesMounting
<1>9. DifferenceEdited'
      BY <1>1 DEF BlockInv, DifferenceEdited
<1>10. Blocks!SheetSendsEdits'
       BY DEF BlockInv, Blocks!SheetSendsEdits
<1> QED BY <1>3, <1>5, <1>6, <1>7, <1>8, <1>9, <1>10 DEF BlockInv

LEMMA BlockStep == MaxAnswers \in Nat \ {0} /\ BlockInv /\ Blocks!Next => BlockInv'
<1> SUFFICES ASSUME MaxAnswers \in Nat \ {0}, BlockInv, Blocks!Next PROVE BlockInv'
    OBVIOUS
<1>a. IsBlock(panel) /\ panel.pending \in BOOLEAN /\ panel.done \in BOOLEAN
      BY DEF BlockInv, BlockShape, Blocks!TypeOK
<1>b. panel.valid \in BOOLEAN /\ panel.locked \in BOOLEAN /\ panel.fetched \in BOOLEAN
      BY DEF BlockInv, BlockShape, Blocks!TypeOK
<1>1. CASE Blocks!Attached
      BY <1>a, <1>1, MountedKeeps DEF Blocks!Attached
<1>2. CASE Blocks!Locks
  <2>0. panel' = [panel EXCEPT !.locked = ~panel.locked]
        BY <1>2 DEF Blocks!Locks
  <2>1. /\ IsBlock(panel')
        /\ panel'.type = panel.type /\ panel'.schema = panel.schema
        /\ panel'.fetched = panel.fetched /\ panel'.renderer = panel.renderer
        /\ panel'.pending = panel.pending /\ panel'.locked = ~panel.locked
        /\ panel'.data = panel.data /\ panel'.draft = panel.draft
        /\ panel'.saved = panel.saved /\ panel'.valid = panel.valid
        /\ panel'.done = panel.done /\ panel'.answers = panel.answers
        /\ panel'.edited = panel.edited /\ panel'.sent = panel.sent
        /\ panel'.refreshed = panel.refreshed /\ panel'.new = panel.new
        BY <1>a, <2>0 DEF BlockInv, BlockShape, IsBlock
  <2> QED BY <1>a, <1>b, <2>1, UntouchedKeeps
<1>3. CASE Blocks!SchemasFetched
  <2>0. panel' = [panel EXCEPT !.fetched = TRUE]
        BY <1>3 DEF Blocks!SchemasFetched
  <2>1. /\ IsBlock(panel')
        /\ panel'.type = panel.type /\ panel'.schema = panel.schema /\ panel'.fetched = TRUE
        /\ panel'.renderer = panel.renderer /\ panel'.pending = panel.pending
        /\ panel'.locked = panel.locked /\ panel'.data = panel.data
        /\ panel'.draft = panel.draft /\ panel'.saved = panel.saved
        /\ panel'.valid = panel.valid /\ panel'.done = panel.done
        /\ panel'.answers = panel.answers /\ panel'.edited = panel.edited
        /\ panel'.sent = panel.sent /\ panel'.refreshed = panel.refreshed /\ panel'.new = panel.new
        BY <1>a, <2>0 DEF BlockInv, BlockShape, IsBlock
  <2> QED BY <1>a, <1>b, <2>1, UntouchedKeeps
<1>4. CASE Blocks!Redrawn
  <2>1. /\ panel' = Blocks!Mounted(panel)
        /\ IsBlock(Blocks!Mounted(panel)) /\ Blocks!Mounted(panel).pending = panel.pending
        BY <1>a, <1>4, MountedFields DEF Blocks!Redrawn
  <2>2. panel' = [Blocks!Mounted(panel) EXCEPT !.pending = panel.pending]
        BY <2>1 DEF IsBlock
  <2> QED BY <1>a, <2>2, MountedKeeps
<1>5. CASE Blocks!Revisited
  <2> DEFINE p == [panel EXCEPT !.saved = Blocks!Unsaved, !.done = FALSE, !.answers = 0,
                                !.edited = {}, !.sent = {}, !.refreshed = FALSE]
  <2>1. panel' = Blocks!Mounted(p)
        BY <1>5 DEF Blocks!Revisited
  <2>0. PICK q : q = [panel EXCEPT !.saved = Blocks!Unsaved, !.done = FALSE, !.answers = 0]
        OBVIOUS
  <2>a. p = [q EXCEPT !.edited = {}, !.sent = {}, !.refreshed = FALSE]
        BY <2>0
  <2> HIDE DEF p
  <2>b. /\ IsBlock(q) /\ q.pending = panel.pending
        /\ q.type = panel.type /\ q.schema = panel.schema /\ q.fetched = panel.fetched
        /\ q.renderer = panel.renderer /\ q.locked = panel.locked /\ q.data = panel.data
        /\ q.valid = panel.valid
        /\ q.saved = Blocks!Unsaved /\ q.done = FALSE /\ q.answers = 0 /\ q.new = panel.new
        BY <1>a, <2>0 DEF IsBlock
  <2>2. /\ IsBlock(p) /\ p.pending = panel.pending
        /\ p.type = panel.type /\ p.schema = panel.schema /\ p.fetched = panel.fetched
        /\ p.renderer = panel.renderer /\ p.locked = panel.locked /\ p.data = panel.data
        /\ p.valid = panel.valid
        /\ p.saved = Blocks!Unsaved /\ p.done = FALSE /\ p.answers = 0
        /\ p.edited = {} /\ p.sent = {} /\ p.refreshed = FALSE /\ p.new = panel.new
        BY <2>a, <2>b DEF IsBlock
  <2>3. IsBlock(Blocks!Mounted(p)) /\ Blocks!Mounted(p).pending = panel.pending
        BY <2>2, MountedFields
  <2>4. panel' = [Blocks!Mounted(p) EXCEPT !.pending = panel.pending]
        BY <2>1, <2>3 DEF IsBlock
  <2> QED BY <1>a, <2>2, <2>4, MountedKeeps
<1>6. CASE Blocks!Refreshed
  <2>1. CASE /\ panel.renderer = "sheet"
             /\ \E field \in {"name", "strength", "wits"} :
                   panel' = [panel EXCEPT !.data[field] = "b", !.refreshed = TRUE]
    <3>1. PICK field \in {"name", "strength", "wits"} :
             panel' = [panel EXCEPT !.data[field] = "b", !.refreshed = TRUE]
          BY <2>1
    <3> DEFINE data == [panel.data EXCEPT ![field] = "b"]
               F == Blocks!Fields("sheet")
    <3>2. panel' = [panel EXCEPT !.data = data, !.refreshed = TRUE]
          BY <3>1
    <3>3. IsDraft(panel.data, F) /\ DOMAIN panel.data = F
          BY <2>1 DEF BlockInv, BlockShape, IsDraft
    <3>4. IsDraft(data, F) /\ DOMAIN data = F
          BY <3>3 DEF IsDraft
    <3> HIDE DEF data
    <3>5. /\ IsBlock(panel')
          /\ panel'.type = panel.type /\ panel'.schema = panel.schema
          /\ panel'.fetched = panel.fetched /\ panel'.renderer = panel.renderer
          /\ panel'.pending = panel.pending /\ panel'.locked = panel.locked
          /\ panel'.data = data /\ panel'.draft = panel.draft /\ panel'.saved = panel.saved
          /\ panel'.valid = panel.valid /\ panel'.done = panel.done
          /\ panel'.answers = panel.answers /\ panel'.edited = panel.edited
          /\ panel'.sent = panel.sent /\ panel'.refreshed = TRUE /\ panel'.new = panel.new
          BY <1>a, <3>2 DEF IsBlock
    <3>6. BlockShape'
          BY <2>1, <3>4, <3>5 DEF BlockInv, BlockShape
    <3>7. Blocks!TypeOK'
          BY <3>5 DEF BlockInv, Blocks!TypeOK
    <3>8. RendererFound' /\ OpenUnanswered' /\ Blocks!AnsweredOnce' /\ SavedIsShown'
          BY <3>5 DEF BlockInv, RendererFound, OpenUnanswered, Blocks!AnsweredOnce, SavedIsShown
    <3>9. DifferenceEdited' /\ Blocks!SheetSendsEdits'
          BY <3>5 DEF DifferenceEdited, Blocks!SheetSendsEdits
    <3> HIDE DEF F
    <3>10. ASSUME NEW g \in F
           PROVE  \/ panel.draft[g] = Blocks!Restored(data, panel.saved)[g]
                  \/ g = "name" /\ panel.draft[g] = ""
                  \/ Blocks!Restored(data, panel.saved)[g] = data[g]
      <4>1. CASE g \in DOMAIN panel.saved /\ ~(g = "name" /\ panel.saved[g] = "")
        <5>1. panel.draft[g] = panel.saved[g]
              BY <2>1, <4>1 DEF BlockInv, SavedIsShown
        <5> QED BY <3>4, <4>1, <5>1 DEF Blocks!Restored
      <4>2. CASE ~(g \in DOMAIN panel.saved /\ ~(g = "name" /\ panel.saved[g] = ""))
            BY <3>4, <4>2 DEF Blocks!Restored
      <4> QED BY <4>1, <4>2
    <3>11. Blocks!DraftSurvivesMounting'
      <4>1. panel'.refreshed /\ Blocks!Fields(panel'.renderer) = F
            BY <2>1, <3>5 DEF F
      <4> QED BY <3>5, <3>10, <4>1 DEF Blocks!DraftSurvivesMounting
    <3> QED BY <3>6, <3>7, <3>8, <3>9, <3>11 DEF BlockInv
  <2>2. CASE \E status : panel' = [panel EXCEPT !.status = status]
    <3>1. PICK status : panel' = [panel EXCEPT !.status = status]
          BY <2>2
    <3>2. /\ IsBlock(panel')
          /\ panel'.type = panel.type /\ panel'.schema = panel.schema
          /\ panel'.fetched = panel.fetched /\ panel'.renderer = panel.renderer
          /\ panel'.pending = panel.pending /\ panel'.locked = panel.locked
          /\ panel'.data = panel.data /\ panel'.draft = panel.draft
          /\ panel'.saved = panel.saved /\ panel'.valid = panel.valid
          /\ panel'.done = panel.done /\ panel'.answers = panel.answers
          /\ panel'.edited = panel.edited /\ panel'.sent = panel.sent
          /\ panel'.refreshed = panel.refreshed /\ panel'.new = panel.new
          BY <1>a, <3>1 DEF IsBlock
    <3> QED BY <1>a, <1>b, <3>2, UntouchedKeeps
  <2> QED BY <1>6, <2>1, <2>2 DEF Blocks!Refreshed
<1>7. CASE Blocks!EditGuide
  <2>1. /\ panel.renderer = "guide" /\ ~panel.done
        /\ \E field \in {"collapsed", "custom"} : \E value : Blocks!Typed(field, value)
        BY <1>7 DEF Blocks!EditGuide, Blocks!Open
  <2>2. \A field \in {"collapsed", "custom"} :
           /\ field \in Blocks!Fields("guide") /\ field \in Blocks!Together(field)
           /\ Blocks!Together(field) \subseteq Blocks!Fields("guide")
        BY DEF Blocks!Fields, Blocks!Together
  <2> QED BY <2>1, <2>2, TypedKeeps DEF Once
<1>8. CASE Blocks!EditForm
  <2>1. /\ panel.renderer = "form" /\ ~panel.done
        /\ \E field \in {"text", "check"} : \E value : Blocks!Typed(field, value)
        BY <1>8 DEF Blocks!EditForm, Blocks!Open, Blocks!Fields
  <2>2. \A field \in {"text", "check"} :
           /\ field \in Blocks!Fields("form") /\ field \in Blocks!Together(field)
           /\ Blocks!Together(field) \subseteq Blocks!Fields("form")
        BY DEF Blocks!Fields, Blocks!Together
  <2> QED BY <2>1, <2>2, TypedKeeps DEF Once
<1>9. CASE Blocks!EditSheet
  <2>1. /\ panel.renderer = "sheet" /\ ~panel.done
        /\ \E field \in {"name", "strength", "wits"} : \E value : Blocks!Typed(field, value)
        BY <1>9 DEF Blocks!EditSheet, Blocks!Open, Blocks!Fields
  <2>2. \A field \in {"name", "strength", "wits"} :
           /\ field \in Blocks!Fields("sheet") /\ field \in Blocks!Together(field)
           /\ Blocks!Together(field) \subseteq Blocks!Fields("sheet")
        BY DEF Blocks!Fields, Blocks!Together
  <2> QED BY <2>1, <2>2, TypedKeeps DEF Once
<1>10. CASE Blocks!EditImage
  <2>1. /\ panel.renderer = "image"
        /\ \E field, value : panel' = [panel EXCEPT !.draft = [@ EXCEPT ![field] = value]]
    <3>1. CASE panel' = [panel EXCEPT !.draft["expanded"] = ~@]
          BY <1>10, <3>1 DEF Blocks!EditImage
    <3>2. CASE \E reason : panel' = [panel EXCEPT !.draft["reason"] = reason]
          BY <1>10, <3>2 DEF Blocks!EditImage
    <3> QED BY <1>10, <3>1, <3>2 DEF Blocks!EditImage
  <2>2. PICK field, value : panel' = [panel EXCEPT !.draft = [@ EXCEPT ![field] = value]]
        BY <2>1
  <2> DEFINE draft == [panel.draft EXCEPT ![field] = value]
  <2>3. IsDraft(draft, Blocks!Fields("image"))
        BY <2>1 DEF BlockInv, BlockShape, IsDraft
  <2>0. panel' = [panel EXCEPT !.draft = draft]
        BY <2>2
  <2> HIDE DEF draft
  <2>4. /\ IsBlock(panel')
        /\ panel'.type = panel.type /\ panel'.schema = panel.schema
        /\ panel'.fetched = panel.fetched /\ panel'.renderer = panel.renderer
        /\ panel'.pending = panel.pending /\ panel'.locked = panel.locked
        /\ panel'.data = panel.data /\ panel'.draft = draft /\ panel'.saved = panel.saved
        /\ panel'.valid = panel.valid /\ panel'.done = panel.done
        /\ panel'.answers = panel.answers /\ panel'.edited = panel.edited
        /\ panel'.sent = panel.sent /\ panel'.refreshed = panel.refreshed /\ panel'.new = panel.new
        BY <1>a, <2>0 DEF IsBlock
  <2> QED BY <1>a, <1>b, <2>1, <2>3, <2>4, UntouchedKeeps
<1>11. CASE Blocks!AnswerGuide
       BY <1>11, GuideAnsweredKeeps DEF Blocks!AnswerGuide, Blocks!Open
<1>12. CASE Blocks!SubmitForm
  <2>a. panel.renderer = "form" /\ ~panel.done
        BY <1>12 DEF Blocks!SubmitForm, Blocks!Open
  <2>1. CASE panel.draft["text"] = ""
    <3>1. panel' = [panel EXCEPT !.valid = FALSE]
          BY <1>12, <2>1 DEF Blocks!SubmitForm
    <3>2. /\ IsBlock(panel')
          /\ panel'.type = panel.type /\ panel'.schema = panel.schema
          /\ panel'.fetched = panel.fetched /\ panel'.renderer = panel.renderer
          /\ panel'.pending = panel.pending /\ panel'.locked = panel.locked
          /\ panel'.data = panel.data /\ panel'.draft = panel.draft
          /\ panel'.saved = panel.saved /\ panel'.valid = FALSE /\ panel'.done = panel.done
          /\ panel'.answers = panel.answers /\ panel'.edited = panel.edited
          /\ panel'.sent = panel.sent /\ panel'.refreshed = panel.refreshed /\ panel'.new = panel.new
          BY <1>a, <3>1 DEF IsBlock
    <3> QED BY <1>a, <1>b, <3>2, UntouchedKeeps
  <2>2. CASE panel.draft["text"] # ""
    <3>1. panel' = [panel EXCEPT !.done = TRUE, !.answers = @ + 1, !.saved = panel.draft,
                                 !.valid = TRUE]
          BY <1>12, <2>2 DEF Blocks!SubmitForm
    <3>2. panel' = [panel EXCEPT !.done = TRUE, !.answers = @ + 1, !.saved = panel.draft,
                                 !.valid = TRUE, !.sent = panel.sent]
          BY <1>a, <3>1 DEF IsBlock
    <3>3. panel.sent \subseteq Blocks!Fields(panel.renderer)
          BY DEF BlockInv, Blocks!TypeOK
    <3> QED BY <2>a, <3>2, <3>3, AnsweredKeeps
  <2> QED BY <2>1, <2>2
<1>13. CASE Blocks!ConfirmSheet
  <2>0. PICK sent : sent = IF panel.new THEN Blocks!Fields("sheet") ELSE Blocks!Differing
        OBVIOUS
  <2>1. /\ panel.renderer = "sheet" /\ ~panel.done
        /\ panel' = [panel EXCEPT !.done = TRUE, !.answers = @ + 1, !.saved = panel.draft,
                                  !.sent = sent]
        BY <1>13, <2>0 DEF Blocks!ConfirmSheet, Blocks!Open
  <2>2. panel' = [panel EXCEPT !.done = TRUE, !.answers = @ + 1, !.saved = panel.draft,
                               !.valid = panel.valid, !.sent = sent]
        BY <1>a, <2>1 DEF IsBlock
  <2>3. /\ sent \subseteq Blocks!Fields(panel.renderer)
        /\ panel.new \/ sent \in {panel.sent, Blocks!Differing}
        BY <2>0, <2>1 DEF Blocks!Differing
  <2> QED BY <1>b, <2>1, <2>2, <2>3, AnsweredKeeps
<1>14. CASE Blocks!AnswerGeneric \/ Blocks!RegenerateImage
  <2>1. /\ panel.renderer \in {"generic", "image"} /\ panel.answers + 1 \in 0..MaxAnswers
        /\ panel' = [panel EXCEPT !.answers = panel.answers + 1]
        BY <1>14 DEF Blocks!AnswerGeneric, Blocks!RegenerateImage, Blocks!Answered,
                     BlockInv, Blocks!TypeOK
  <2>2. /\ IsBlock(panel')
        /\ panel'.type = panel.type /\ panel'.schema = panel.schema
        /\ panel'.fetched = panel.fetched /\ panel'.renderer = panel.renderer
        /\ panel'.pending = panel.pending /\ panel'.locked = panel.locked
        /\ panel'.data = panel.data /\ panel'.draft = panel.draft
        /\ panel'.saved = panel.saved /\ panel'.valid = panel.valid
        /\ panel'.done = panel.done /\ panel'.answers = panel.answers + 1
        /\ panel'.edited = panel.edited /\ panel'.sent = panel.sent
        /\ panel'.refreshed = panel.refreshed /\ panel'.new = panel.new
        BY <1>a, <2>1 DEF IsBlock
  <2> QED BY <1>a, <1>b, <2>1, <2>2, UntouchedKeeps
<1> QED BY <1>1, <1>2, <1>3, <1>4, <1>5, <1>6, <1>7, <1>8, <1>9, <1>10, <1>11, <1>12,
           <1>13, <1>14 DEF Blocks!Next, Blocks!Screen

-----------------------------------------------------------------------------
(* Where a session is kept                                                 *)

IsStore(p) ==
    p = [lasting |-> p.lasting, up |-> p.up, probes |-> p.probes, asking |-> p.asking,
         reads |-> p.reads, writes |-> p.writes, overruled |-> p.overruled,
         session |-> p.session, row |-> p.row, known |-> p.known,
         shown |-> p.shown, stored |-> p.stored, backend |-> p.backend,
         writing |-> p.writing, failed |-> p.failed, refused |-> p.refused]

\* A backend that is known to keep its data is never asked again: as long as no
\* detection begun before overrules it, writes skip the browser only when reads
\* do.  Before the session there are no messages.
StoreInv ==
    /\ IsStore(panel) /\ Store!TypeOK
    /\ panel.overruled \in BOOLEAN
    /\ ~panel.overruled /\ panel.writes = "api" => panel.reads = "api"
    /\ panel.session = "none" => panel.shown = Store!Nothing
    /\ (panel.session = "open" /\ panel.reads # "api" /\ ~panel.failed /\ ~panel.overruled) =>
          \A key \in Store!Keys \ (panel.writing \cup panel.asking) :
              panel.shown[key] # "absent" => panel.stored[key] # "absent"

LEMMA StoreInit == MaxMessages \in Nat /\ MaxProbes \in Nat /\ Store!Init => StoreInv
<1> SUFFICES ASSUME MaxProbes \in Nat, Store!Init PROVE StoreInv
    OBVIOUS
<1>1. /\ IsStore(panel) /\ panel.probes = 0 /\ panel.reads = "unknown"
      /\ panel.writes = "unknown" /\ panel.session = "none"
      /\ panel.shown = Store!Nothing /\ panel.stored = Store!Nothing
      /\ panel.backend = Store!Nothing /\ panel.writing = {}
      /\ panel.asking = {} /\ panel.overruled = FALSE
      BY DEF Store!Init, IsStore
<1>2. Store!Nothing \in [Store!Keys -> Store!Forms]
      BY DEF Store!Nothing, Store!Forms
<1>3. Store!TypeOK
      BY <1>1, <1>2 DEF Store!TypeOK, Store!Places
<1>4. \A key \in Store!Keys : panel.shown[key] = "absent"
      BY <1>1 DEF Store!Nothing
<1> QED BY <1>1, <1>3, <1>4 DEF StoreInv

LEMMA StoreStep ==
    MaxMessages \in Nat /\ MaxProbes \in Nat /\ StoreInv /\ Store!Next => StoreInv'
<1> SUFFICES ASSUME MaxMessages \in Nat, MaxProbes \in Nat, StoreInv, Store!Next
             PROVE  StoreInv'
    OBVIOUS
<1>a. /\ IsStore(panel)
      /\ panel.reads \in Store!Places /\ panel.writes \in Store!Places
      /\ panel.shown \in [Store!Keys -> Store!Forms]
      /\ panel.stored \in [Store!Keys -> Store!Forms]
      /\ panel.backend \in [Store!Keys -> Store!Forms]
      /\ panel.probes \in 0..MaxProbes /\ panel.writing \subseteq Store!Keys
      /\ panel.asking \subseteq Store!Keys /\ panel.overruled \in BOOLEAN
      BY DEF StoreInv, Store!TypeOK
<1>b. Store!Nothing \in [Store!Keys -> Store!Forms]
      BY DEF Store!Nothing, Store!Forms
<1>c. Store!Answers \subseteq {"api", "local"}
      BY DEF Store!Answers, Store!Truth
<1>1. CASE Store!Detect
  <2>1. /\ IsStore(panel')
        /\ panel'.probes = panel.probes + 1 /\ panel'.asking = panel.asking
        /\ panel'.reads = panel.reads /\ panel'.writes = panel.writes
        /\ panel'.overruled = panel.overruled /\ panel'.session = panel.session
        /\ panel'.shown = panel.shown /\ panel'.stored = panel.stored
        /\ panel'.backend = panel.backend /\ panel'.writing = panel.writing
        /\ panel'.failed = panel.failed
        BY <1>a, <1>1 DEF Store!Detect, IsStore
  <2>2. panel.probes + 1 \in 0..MaxProbes
        BY <1>a, <1>1 DEF Store!Detect
  <2> QED BY <2>1, <2>2 DEF StoreInv, Store!TypeOK
<1>2. CASE Store!Detected
  <2>1. PICK answer \in Store!Answers :
           panel' = Store!Heard([panel EXCEPT !.probes = @ - 1], answer)
        BY <1>2 DEF Store!Detected
  <2>2. /\ IsStore(panel')
        /\ panel'.probes = panel.probes - 1 /\ panel'.asking = panel.asking
        /\ panel'.reads = answer /\ panel'.writes = panel.writes
        /\ panel'.overruled = (panel.overruled \/ (panel.reads = "api" /\ answer = "local"))
        /\ panel'.session = panel.session /\ panel'.shown = panel.shown
        /\ panel'.stored = panel.stored /\ panel'.backend = panel.backend
        /\ panel'.writing = panel.writing /\ panel'.failed = panel.failed
        BY <1>a, <2>1 DEF Store!Heard, IsStore
  <2>3. panel.probes - 1 \in 0..MaxProbes
        BY <1>a, <1>2 DEF Store!Detected
  <2>4. answer \in {"api", "local"}
        BY <1>c
  <2> QED BY <2>2, <2>3, <2>4 DEF StoreInv, Store!TypeOK, Store!Places
<1>3. CASE Store!BackendTurns
  <2>1. /\ IsStore(panel')
        /\ panel'.probes = panel.probes /\ panel'.asking = panel.asking
        /\ panel'.reads = panel.reads /\ panel'.writes = panel.writes
        /\ panel'.overruled = panel.overruled /\ panel'.session = panel.session
        /\ panel'.shown = panel.shown /\ panel'.stored = panel.stored
        /\ panel'.backend = panel.backend /\ panel'.writing = panel.writing
        /\ panel'.failed = panel.failed
        BY <1>a, <1>3 DEF Store!BackendTurns, IsStore
  <2> QED BY <2>1 DEF StoreInv, Store!TypeOK
<1>4. CASE Store!Redetect
  <2>1. /\ IsStore(panel')
        /\ panel'.probes = panel.probes + 1 /\ panel'.asking = panel.asking
        /\ panel'.reads = "unknown" /\ panel'.writes = panel.writes
        /\ panel'.overruled = panel.overruled /\ panel'.session = panel.session
        /\ panel'.shown = panel.shown /\ panel'.stored = panel.stored
        /\ panel'.backend = panel.backend /\ panel'.writing = panel.writing
        /\ panel'.failed = panel.failed
        BY <1>a, <1>4 DEF Store!Redetect, IsStore
  <2>2. panel.reads # "api" /\ panel.probes + 1 \in 0..MaxProbes
        BY <1>a, <1>4 DEF Store!Redetect
  <2> QED BY <2>1, <2>2 DEF StoreInv, Store!TypeOK, Store!Places
<1>5. CASE Store!CreateSession
  <2>1. PICK writes \in {panel.writes, Store!WritesTo(panel)} :
           /\ IsStore(panel')
           /\ panel'.probes = panel.probes /\ panel'.asking = panel.asking
           /\ panel'.reads = panel.reads /\ panel'.writes = writes
           /\ panel'.overruled = panel.overruled /\ panel'.session = "open"
           /\ panel'.shown = panel.shown /\ panel'.stored = panel.stored
           /\ panel'.backend = panel.backend /\ panel'.writing = panel.writing
           /\ panel'.failed = panel.failed
        BY <1>a, <1>5 DEF Store!CreateSession, IsStore
  <2>2. panel.session = "none"
        BY <1>5 DEF Store!CreateSession
  <2>3. /\ writes \in Store!Places
        /\ ~panel.overruled /\ writes = "api" => panel.reads = "api"
        BY <1>a DEF StoreInv, Store!WritesTo
  <2> QED BY <2>1, <2>2, <2>3 DEF StoreInv, Store!TypeOK, Store!Nothing
<1>6. CASE Store!DeleteSession
  <2>1. PICK writes \in {panel.writes, "local"}, stored \in {panel.stored, Store!Nothing} :
           /\ IsStore(panel')
           /\ panel'.probes = panel.probes /\ panel'.asking = panel.asking
           /\ panel'.reads = panel.reads /\ panel'.writes = writes
           /\ panel'.overruled = panel.overruled /\ panel'.session = "deleted"
           /\ panel'.shown = Store!Nothing /\ panel'.stored = stored
           /\ panel'.backend = Store!Nothing /\ panel'.writing = panel.writing
           /\ panel'.failed = panel.failed
        BY <1>a, <1>6 DEF Store!DeleteSession, IsStore
  <2>2. /\ writes \in Store!Places
        /\ ~panel.overruled /\ writes = "api" => panel.reads = "api"
        BY <1>a DEF StoreInv, Store!Places
  <2> QED BY <1>b, <2>1, <2>2 DEF StoreInv, Store!TypeOK
<1>7. CASE Store!SendCommand
  <2>1. /\ IsStore(panel')
        /\ panel'.probes = panel.probes /\ panel'.asking = panel.asking
        /\ panel'.reads = panel.reads /\ panel'.writes = panel.writes
        /\ panel'.overruled = panel.overruled /\ panel'.session = panel.session
        /\ panel'.shown = panel.shown /\ panel'.stored = panel.stored
        /\ panel'.backend = panel.backend /\ panel'.writing = panel.writing
        /\ panel'.failed = panel.failed
        BY <1>a, <1>7 DEF Store!SendCommand, IsStore
  <2> QED BY <2>1 DEF StoreInv, Store!TypeOK
<1>8. CASE Store!Add
  <2>0. panel.session = "open"
        BY <1>8 DEF Store!Add
  <2>1. PICK key \in Store!Keys :
           LET added == [panel EXCEPT !.shown[key] = "plain", !.backend[key] = "plain"]
           IN  panel' = IF Store!WritesTo(panel) = "unknown"
                        THEN [added EXCEPT !.asking = @ \cup {key}]
                        ELSE Store!Decided(added, key, Store!WritesTo(panel))
        BY <1>8 DEF Store!Add
  <2> DEFINE shown == [panel.shown EXCEPT ![key] = "plain"]
             backend == [panel.backend EXCEPT ![key] = "plain"]
             added == [panel EXCEPT !.shown = shown, !.backend = backend]
  <2>2. panel' = IF Store!WritesTo(panel) = "unknown"
                 THEN [added EXCEPT !.asking = @ \cup {key}]
                 ELSE Store!Decided(added, key, Store!WritesTo(panel))
        BY <2>1
  <2>3. /\ shown \in [Store!Keys -> Store!Forms] /\ backend \in [Store!Keys -> Store!Forms]
        /\ \A other \in Store!Keys \ {key} : shown[other] = panel.shown[other]
        BY <1>a DEF Store!Forms
  <2>4. /\ Store!WritesTo(panel) \in Store!Places
        /\ ~panel.overruled /\ Store!WritesTo(panel) = "api" => panel.reads = "api"
        BY <1>a DEF StoreInv, Store!WritesTo
  <2> HIDE DEF shown, backend
  <2>5. CASE Store!WritesTo(panel) = "unknown"
    <3>1. /\ IsStore(panel')
          /\ panel'.probes = panel.probes /\ panel'.asking = panel.asking \cup {key}
          /\ panel'.reads = panel.reads /\ panel'.writes = panel.writes
          /\ panel'.overruled = panel.overruled /\ panel'.session = panel.session
          /\ panel'.shown = shown /\ panel'.stored = panel.stored
          /\ panel'.backend = backend /\ panel'.writing = panel.writing
          /\ panel'.failed = panel.failed
          BY <1>a, <2>2, <2>5 DEF IsStore
    <3> QED BY <2>0, <2>3, <3>1 DEF StoreInv, Store!TypeOK
  <2>6. CASE Store!WritesTo(panel) = "local"
    <3>1. /\ IsStore(panel')
          /\ panel'.probes = panel.probes /\ panel'.asking = panel.asking
          /\ panel'.reads = panel.reads /\ panel'.writes = "local"
          /\ panel'.overruled = panel.overruled /\ panel'.session = panel.session
          /\ panel'.shown = shown /\ panel'.stored = panel.stored
          /\ panel'.backend = backend /\ panel'.writing = panel.writing \cup {key}
          /\ panel'.failed = panel.failed
          BY <1>a, <2>2, <2>6 DEF Store!Decided, IsStore
    <3> QED BY <2>0, <2>3, <3>1 DEF StoreInv, Store!TypeOK, Store!Places
  <2>7. CASE Store!WritesTo(panel) = "api"
    <3>1. /\ IsStore(panel')
          /\ panel'.probes = panel.probes /\ panel'.asking = panel.asking
          /\ panel'.reads = panel.reads /\ panel'.writes = "api"
          /\ panel'.overruled = panel.overruled /\ panel'.session = panel.session
          /\ panel'.shown = shown /\ panel'.stored = panel.stored
          /\ panel'.backend = backend /\ panel'.writing = panel.writing
          /\ panel'.failed = panel.failed
          BY <1>a, <2>2, <2>7 DEF Store!Decided, IsStore
    <3> QED BY <2>0, <2>3, <2>4, <2>7, <3>1 DEF StoreInv, Store!TypeOK, Store!Places
  <2> QED BY <2>4, <2>5, <2>6, <2>7 DEF Store!Places
<1>9. CASE Store!WriteHears
  <2>1. PICK key \in panel.asking : \E a \in Store!Answers :
           panel' = Store!Decided(Store!Heard([panel EXCEPT !.asking = @ \ {key}], a), key, a)
        BY <1>9 DEF Store!WriteHears
  <2>2. PICK answer \in Store!Answers :
           panel' = Store!Decided(Store!Heard([panel EXCEPT !.asking = @ \ {key}], answer),
                                  key, answer)
        BY <2>1
  <2>3. answer \in {"api", "local"} /\ key \in Store!Keys
        BY <1>a, <1>c
  <2>4. PICK writing : writing = IF answer = "local" THEN panel.writing \cup {key}
                                 ELSE panel.writing
        OBVIOUS
  <2>5. /\ IsStore(panel')
        /\ panel'.probes = panel.probes /\ panel'.asking = panel.asking \ {key}
        /\ panel'.reads = answer /\ panel'.writes = answer
        /\ panel'.overruled = (panel.overruled \/ (panel.reads = "api" /\ answer = "local"))
        /\ panel'.session = panel.session /\ panel'.shown = panel.shown
        /\ panel'.stored = panel.stored /\ panel'.backend = panel.backend
        /\ panel'.writing = writing /\ panel'.failed = panel.failed
        BY <1>a, <2>2, <2>4 DEF Store!Decided, Store!Heard, IsStore
  <2>6. writing \subseteq Store!Keys
        BY <1>a, <2>3, <2>4
  <2> QED BY <2>3, <2>4, <2>5, <2>6 DEF StoreInv, Store!TypeOK, Store!Places
<1>10. CASE Store!Write
  <2>1. PICK key \in panel.writing :
           panel' = [panel EXCEPT !.writing = @ \ {key}, !.stored[key] = "plain"]
        BY <1>10 DEF Store!Write
  <2> DEFINE stored == [panel.stored EXCEPT ![key] = "plain"]
  <2>2. panel' = [panel EXCEPT !.writing = @ \ {key}, !.stored = stored]
        BY <2>1
  <2>3. stored \in [Store!Keys -> Store!Forms] /\ stored[key] = "plain"
        /\ \A other \in Store!Keys \ {key} : stored[other] = panel.stored[other]
        BY <1>a DEF Store!Forms
  <2> HIDE DEF stored
  <2>4. /\ IsStore(panel')
        /\ panel'.probes = panel.probes /\ panel'.asking = panel.asking
        /\ panel'.reads = panel.reads /\ panel'.writes = panel.writes
        /\ panel'.overruled = panel.overruled /\ panel'.session = panel.session
        /\ panel'.shown = panel.shown /\ panel'.stored = stored
        /\ panel'.backend = panel.backend /\ panel'.writing = panel.writing \ {key}
        /\ panel'.failed = panel.failed
        BY <1>a, <2>2 DEF IsStore
  <2> QED BY <2>3, <2>4 DEF StoreInv, Store!TypeOK
<1>11. CASE Store!WriteFails
  <2>1. PICK key \in panel.writing :
           /\ IsStore(panel')
           /\ panel'.probes = panel.probes /\ panel'.asking = panel.asking
           /\ panel'.reads = panel.reads /\ panel'.writes = panel.writes
           /\ panel'.overruled = panel.overruled /\ panel'.session = panel.session
           /\ panel'.shown = panel.shown /\ panel'.stored = panel.stored
           /\ panel'.backend = panel.backend /\ panel'.writing = panel.writing \ {key}
           /\ panel'.failed = TRUE
        BY <1>a, <1>11 DEF Store!WriteFails, IsStore
  <2> QED BY <2>1 DEF StoreInv, Store!TypeOK
<1>12. CASE Store!AttachBlocks
  <2>1. PICK id \in Store!Ids :
           /\ panel.shown[id] = "plain"
           /\ panel' = [panel EXCEPT !.shown[id] = "blocks", !.backend[id] = "blocks"]
        BY <1>12 DEF Store!AttachBlocks
  <2> DEFINE shown == [panel.shown EXCEPT ![id] = "blocks"]
             backend == [panel.backend EXCEPT ![id] = "blocks"]
  <2>0. id \in Store!Keys
        BY DEF Store!Ids, Store!Keys
  <2>2. panel' = [panel EXCEPT !.shown = shown, !.backend = backend]
        BY <2>1
  <2>3. /\ shown \in [Store!Keys -> Store!Forms] /\ backend \in [Store!Keys -> Store!Forms]
        /\ \A key \in Store!Keys : shown[key] # "absent" => panel.shown[key] # "absent"
        BY <1>a, <2>0, <2>1 DEF Store!Forms
  <2>5. panel.session # "none"
        BY <2>0, <2>1 DEF StoreInv, Store!Nothing
  <2> HIDE DEF shown, backend
  <2>4. /\ IsStore(panel')
        /\ panel'.probes = panel.probes /\ panel'.asking = panel.asking
        /\ panel'.reads = panel.reads /\ panel'.writes = panel.writes
        /\ panel'.overruled = panel.overruled /\ panel'.session = panel.session
        /\ panel'.shown = shown /\ panel'.stored = panel.stored
        /\ panel'.backend = backend /\ panel'.writing = panel.writing
        /\ panel'.failed = panel.failed
        BY <1>a, <2>2 DEF IsStore
  <2> QED BY <2>3, <2>4, <2>5 DEF StoreInv, Store!TypeOK
<1>13. CASE Store!DeleteMessage
  <2>1. PICK id \in Store!Ids :
           /\ panel.shown[id] # "absent"
           /\ panel' = [panel EXCEPT !.shown[id] = "absent"]
        BY <1>13 DEF Store!DeleteMessage
  <2> DEFINE shown == [panel.shown EXCEPT ![id] = "absent"]
  <2>0. id \in Store!Keys
        BY DEF Store!Ids, Store!Keys
  <2>2. panel' = [panel EXCEPT !.shown = shown]
        BY <2>1
  <2>3. /\ shown \in [Store!Keys -> Store!Forms]
        /\ \A key \in Store!Keys : shown[key] # "absent" => panel.shown[key] # "absent"
        BY <1>a, <2>0, <2>1 DEF Store!Forms
  <2>5. panel.session # "none"
        BY <2>0, <2>1 DEF StoreInv, Store!Nothing
  <2> HIDE DEF shown
  <2>4. /\ IsStore(panel')
        /\ panel'.probes = panel.probes /\ panel'.asking = panel.asking
        /\ panel'.reads = panel.reads /\ panel'.writes = panel.writes
        /\ panel'.overruled = panel.overruled /\ panel'.session = panel.session
        /\ panel'.shown = shown /\ panel'.stored = panel.stored
        /\ panel'.backend = panel.backend /\ panel'.writing = panel.writing
        /\ panel'.failed = panel.failed
        BY <1>a, <2>2 DEF IsStore
  <2> QED BY <2>3, <2>4, <2>5 DEF StoreInv, Store!TypeOK
<1>14. CASE Store!Reload
  <2>0. panel.session = "open"
        BY <1>14 DEF Store!Reload
  <2>1. CASE panel.reads = "api" /\ panel' = [panel EXCEPT !.shown = panel.backend]
    <3>1. /\ IsStore(panel')
          /\ panel'.probes = panel.probes /\ panel'.asking = panel.asking
          /\ panel'.reads = panel.reads /\ panel'.writes = panel.writes
          /\ panel'.overruled = panel.overruled /\ panel'.session = panel.session
          /\ panel'.shown = panel.backend /\ panel'.stored = panel.stored
          /\ panel'.backend = panel.backend /\ panel'.writing = panel.writing
          /\ panel'.failed = panel.failed
          BY <1>a, <2>1 DEF IsStore
    <3> QED BY <1>a, <2>0, <2>1, <3>1 DEF StoreInv, Store!TypeOK
  <2>2. CASE panel' = [panel EXCEPT !.shown = [panel.stored EXCEPT ![0] = "absent"]]
    <3> DEFINE shown == [panel.stored EXCEPT ![0] = "absent"]
    <3>1. panel' = [panel EXCEPT !.shown = shown]
          BY <2>2
    <3>2. /\ shown \in [Store!Keys -> Store!Forms]
          /\ \A key \in Store!Keys : shown[key] # "absent" => panel.stored[key] # "absent"
          BY <1>a DEF Store!Forms
    <3> HIDE DEF shown
    <3>3. /\ IsStore(panel')
          /\ panel'.probes = panel.probes /\ panel'.asking = panel.asking
          /\ panel'.reads = panel.reads /\ panel'.writes = panel.writes
          /\ panel'.overruled = panel.overruled /\ panel'.session = panel.session
          /\ panel'.shown = shown /\ panel'.stored = panel.stored
          /\ panel'.backend = panel.backend /\ panel'.writing = panel.writing
          /\ panel'.failed = panel.failed
          BY <1>a, <3>1 DEF IsStore
    <3> QED BY <2>0, <3>2, <3>3 DEF StoreInv, Store!TypeOK
  <2> QED BY <1>14, <2>1, <2>2 DEF Store!Reload
<1> QED BY <1>1, <1>2, <1>3, <1>4, <1>5, <1>6, <1>7, <1>8, <1>9, <1>10, <1>11, <1>12,
           <1>13, <1>14
        DEF Store!Next

-----------------------------------------------------------------------------
(* The wizard                                                              *)

LEMMA RangeGrows ==
    ASSUME NEW n \in Nat
    PROVE  n + 1 \in Nat /\ 1..n \subseteq 1..(n + 1) /\ n + 1 \in 1..(n + 1)
OBVIOUS

Creations(made) ==
    [id : 1..made, doc : New!Docs, shown : New!Docs \cup {New!Spinner},
     alive : BOOLEAN, stored : BOOLEAN]

\* What CreatedAsShown says of one creation.
AsShown(c) == c.doc = c.shown \/ (c.shown = New!Spinner /\ c.doc \in New!RunNames)

IsWizard(p) ==
    p = [page |-> p.page, open |-> p.open, form |-> p.form, raw |-> p.raw,
         listing |-> p.listing, loading |-> p.loading, selecting |-> p.selecting,
         generating |-> p.generating, runs |-> p.runs, creating |-> p.creating,
         listed |-> p.listed, deleting |-> p.deleting, confirm |-> p.confirm,
         made |-> p.made, kept |-> p.kept]

IsForm(f) ==
    f = [step |-> f.step, named |-> f.named, mode |-> f.mode,
         templates |-> f.templates, filter |-> f.filter, slug |-> f.slug,
         preview |-> f.preview, genre |-> f.genre, doc |-> f.doc]

\* The raw text is that of the preview as long as there is one, and a
\* generation that runs has written what there is of the document.
WizardInv ==
    /\ IsWizard(panel) /\ IsForm(panel.form)
    /\ New!TypeOK
    /\ panel.form.templates \subseteq New!Slugs
    /\ panel.made \in Nat /\ panel.confirm \subseteq 1..panel.made
    /\ panel.creating \subseteq Creations(panel.made)
    /\ panel.form.preview # "" => panel.raw = panel.form.preview
    /\ panel.generating = {} \/ panel.form.doc \in {""} \cup New!RunNames
    /\ New!CreatedAsShown

FreshForm(f) ==
    /\ IsForm(f) /\ f.mode \in New!Modes /\ f.doc = "" /\ f.preview = ""
    /\ f.templates = {}

LEMMA FreshIsForm == FreshForm(New!Fresh)
BY DEF FreshForm, IsForm, New!Fresh, New!Modes

LEMMA EmptyIsDoc == "" \in New!Docs
BY DEF New!Docs

LEMMA WizardInit == New!Init => WizardInv
<1> SUFFICES ASSUME New!Init PROVE WizardInv
    OBVIOUS
<1>1. /\ IsWizard(panel) /\ panel.form = New!Fresh /\ panel.page = "list" /\ panel.raw = ""
      /\ panel.selecting = {} /\ panel.generating = {} /\ panel.creating = {}
      /\ panel.listed = {} /\ panel.deleting = {} /\ panel.confirm = {}
      /\ panel.made = 0 /\ panel.kept = {}
      BY DEF New!Init, IsWizard
<1>2. FreshForm(panel.form)
      BY <1>1, FreshIsForm
<1>3. New!TypeOK
      BY <1>1, <1>2, EmptyIsDoc DEF FreshForm, New!TypeOK
<1>4. /\ IsForm(panel.form) /\ panel.form.templates = {} /\ panel.form.preview = ""
      BY <1>2 DEF FreshForm
<1>5. panel.creating \subseteq Creations(panel.made) /\ panel.confirm \subseteq 1..panel.made
      BY <1>1
<1>6. New!CreatedAsShown
      BY <1>1 DEF New!CreatedAsShown
<1>7. panel.made \in Nat
    <2>1. 0 \in Nat
          OBVIOUS
    <2> QED BY <1>1, <2>1, Zenon
<1> QED BY <1>1, <1>3, <1>4, <1>5, <1>6, <1>7 DEF WizardInv

\* A step that begins and ends no creation.
LEMMA WizardKeeps ==
    ASSUME WizardInv, IsWizard(panel'), IsForm(panel'.form),
           panel'.creating = panel.creating, panel'.made = panel.made,
           panel'.page \in {"list", "project"}, panel'.form.mode \in New!Modes,
           panel'.raw \in New!Docs, panel'.form.preview \in New!Docs,
           panel'.form.doc \in New!Docs,
           panel'.form.preview = "" \/ panel'.raw = panel'.form.preview,
           panel'.generating = {} \/ panel'.form.doc \in {""} \cup New!RunNames,
           panel'.form.templates \subseteq New!Slugs,
           panel'.selecting \subseteq New!Slugs, panel'.generating \subseteq New!RunNames,
           panel'.kept \subseteq 1..panel.made, panel'.listed \subseteq 1..panel.made,
           panel'.deleting \subseteq 1..panel.made, panel'.confirm \subseteq 1..panel.made
    PROVE  WizardInv'
BY DEF WizardInv, New!TypeOK, New!CreatedAsShown

\* The page of a project is opened, from a state like this one or one in
\* which a creation has ended.
LEMMA PageLeftKeeps ==
    ASSUME WizardInv, NEW p, IsWizard(p), panel' = New!PageLeft(p),
           p.creating \subseteq panel.creating, p.made = panel.made,
           p.kept = panel.kept, p.deleting = panel.deleting,
           p.listed \subseteq 1..panel.made
    PROVE  WizardInv'
<1>1. PICK cs : cs = {[c EXCEPT !.alive = FALSE] : c \in p.creating}
      OBVIOUS
<1>2. PICK f : f = New!Fresh
      OBVIOUS
<1>3. panel' = [p EXCEPT !.page = "project", !.open = FALSE, !.form = f, !.raw = "",
                         !.listing = FALSE, !.loading = FALSE, !.selecting = {},
                         !.generating = {}, !.confirm = {}, !.creating = cs]
      BY <1>1, <1>2 DEF New!PageLeft, IsWizard
<1>4. /\ IsWizard(panel')
      /\ panel'.page = "project" /\ panel'.form = f /\ panel'.raw = ""
      /\ panel'.selecting = {} /\ panel'.generating = {} /\ panel'.creating = cs
      /\ panel'.listed = p.listed /\ panel'.deleting = p.deleting /\ panel'.confirm = {}
      /\ panel'.made = p.made /\ panel'.kept = p.kept
      BY <1>3 DEF IsWizard
<1>5. ASSUME NEW d \in panel'.creating
      PROVE  d \in Creations(panel.made) /\ d.alive = FALSE /\ AsShown(d)
    <2>1. PICK c \in p.creating : d = [c EXCEPT !.alive = FALSE]
          BY <1>1, <1>4
    <2>2. c \in Creations(panel.made) /\ AsShown(c)
          BY DEF WizardInv, New!CreatedAsShown, AsShown
    <2> QED BY <2>1, <2>2 DEF Creations, AsShown
<1>6. /\ panel'.creating \subseteq Creations(panel.made)
      /\ \A d \in panel'.creating : d.alive = FALSE /\ AsShown(d)
      BY <1>5
<1>7. New!TypeOK'
      BY <1>2, <1>4, <1>6, FreshIsForm, EmptyIsDoc DEF FreshForm, WizardInv, New!TypeOK
<1> QED BY <1>2, <1>4, <1>6, <1>7, FreshIsForm DEF FreshForm, WizardInv, New!CreatedAsShown, AsShown

LEMMA WizardStep == WizardInv /\ New!Next => WizardInv'
<1> SUFFICES ASSUME WizardInv, New!Next PROVE WizardInv'
    OBVIOUS
<1> DEFINE Form(f) ==
               /\ IsForm(f) /\ f.mode \in New!Modes /\ f.doc \in New!Docs
               /\ f.templates \subseteq New!Slugs /\ f.preview \in New!Docs
<1>a. /\ IsWizard(panel) /\ IsForm(panel.form) /\ Form(panel.form)
      /\ panel.page \in {"list", "project"} /\ panel.raw \in New!Docs
      /\ panel.form.preview = "" \/ panel.raw = panel.form.preview
      /\ panel.generating = {} \/ panel.form.doc \in {""} \cup New!RunNames
      /\ panel.selecting \subseteq New!Slugs /\ panel.generating \subseteq New!RunNames
      /\ panel.kept \subseteq 1..panel.made /\ panel.listed \subseteq 1..panel.made
      /\ panel.deleting \subseteq 1..panel.made /\ panel.confirm \subseteq 1..panel.made
      /\ panel.made \in Nat
      BY DEF WizardInv, New!TypeOK
<1>b. Form(New!Fresh) /\ New!Fresh.preview = "" /\ New!Fresh.doc = ""
      BY FreshIsForm, EmptyIsDoc DEF FreshForm
<1>c. New!Slugs \subseteq New!Docs /\ New!RunNames \subseteq New!Docs
      BY DEF New!Docs
<1>1. CASE New!OpenWizard
  <2>1. /\ IsWizard(panel')
        /\ panel'.form = New!Fresh /\ panel'.page = panel.page /\ panel'.raw = panel.raw
        /\ panel'.selecting = panel.selecting /\ panel'.generating = panel.generating
        /\ panel'.creating = panel.creating /\ panel'.listed = panel.listed
        /\ panel'.deleting = panel.deleting /\ panel'.confirm = panel.confirm
        /\ panel'.made = panel.made /\ panel'.kept = panel.kept
        BY <1>a, <1>1 DEF New!OpenWizard, IsWizard
  <2> QED BY <1>a, <1>b, <2>1, EmptyIsDoc, WizardKeeps
<1>2. CASE New!CloseWizard
  <2>1. /\ IsWizard(panel')
        /\ panel'.form = panel.form /\ panel'.page = panel.page /\ panel'.raw = panel.raw
        /\ panel'.selecting = panel.selecting /\ panel'.generating = panel.generating
        /\ panel'.creating = panel.creating /\ panel'.listed = panel.listed
        /\ panel'.deleting = panel.deleting /\ panel'.confirm = panel.confirm
        /\ panel'.made = panel.made /\ panel'.kept = panel.kept
        BY <1>a, <1>2 DEF New!CloseWizard, IsWizard
  <2> QED BY <1>a, <1>b, <2>1, EmptyIsDoc, WizardKeeps
<1>4. CASE New!BackToList
  <2>1. /\ IsWizard(panel')
        /\ panel'.form = panel.form /\ panel'.page = "list" /\ panel'.raw = panel.raw
        /\ panel'.selecting = panel.selecting /\ panel'.generating = panel.generating
        /\ panel'.creating = panel.creating /\ panel'.listed = panel.kept
        /\ panel'.deleting = panel.deleting /\ panel'.confirm = panel.confirm
        /\ panel'.made = panel.made /\ panel'.kept = panel.kept
        BY <1>a, <1>4 DEF New!BackToList, IsWizard
  <2> QED BY <1>a, <1>b, <2>1, EmptyIsDoc, WizardKeeps
<1>5. CASE New!AskDelete
  <2>1. PICK id \in panel.listed :
           /\ IsWizard(panel')
           /\ panel'.form = panel.form /\ panel'.page = panel.page /\ panel'.raw = panel.raw
           /\ panel'.selecting = panel.selecting /\ panel'.generating = panel.generating
           /\ panel'.creating = panel.creating /\ panel'.listed = panel.listed
           /\ panel'.deleting = panel.deleting /\ panel'.confirm = {id}
           /\ panel'.made = panel.made /\ panel'.kept = panel.kept
        BY <1>a, <1>5 DEF New!AskDelete, IsWizard
  <2> QED BY <1>a, <1>b, <2>1, EmptyIsDoc, WizardKeeps
<1>6. CASE New!KeepProject
  <2>1. /\ IsWizard(panel')
        /\ panel'.form = panel.form /\ panel'.page = panel.page /\ panel'.raw = panel.raw
        /\ panel'.selecting = panel.selecting /\ panel'.generating = panel.generating
        /\ panel'.creating = panel.creating /\ panel'.listed = panel.listed
        /\ panel'.deleting = panel.deleting /\ panel'.confirm = {}
        /\ panel'.made = panel.made /\ panel'.kept = panel.kept
        BY <1>a, <1>6 DEF New!KeepProject, IsWizard
  <2> QED BY <1>a, <1>b, <2>1, EmptyIsDoc, WizardKeeps
<1>7. CASE New!ConfirmDelete
  <2>1. /\ IsWizard(panel')
        /\ panel'.form = panel.form /\ panel'.page = panel.page /\ panel'.raw = panel.raw
        /\ panel'.selecting = panel.selecting /\ panel'.generating = panel.generating
        /\ panel'.creating = panel.creating /\ panel'.listed = panel.listed
        /\ panel'.deleting = panel.deleting \cup panel.confirm /\ panel'.confirm = {}
        /\ panel'.made = panel.made /\ panel'.kept = panel.kept
        BY <1>a, <1>7 DEF New!ConfirmDelete, IsWizard
  <2> QED BY <1>a, <1>b, <2>1, EmptyIsDoc, WizardKeeps
<1>8. CASE New!Deleted
  <2>1. PICK id \in panel.deleting, kept \in SUBSET panel.kept :
           /\ IsWizard(panel')
           /\ panel'.form = panel.form /\ panel'.page = panel.page /\ panel'.raw = panel.raw
           /\ panel'.selecting = panel.selecting /\ panel'.generating = panel.generating
           /\ panel'.creating = panel.creating /\ panel'.listed = panel.listed \ {id}
           /\ panel'.deleting = panel.deleting \ {id} /\ panel'.confirm = panel.confirm
           /\ panel'.made = panel.made /\ panel'.kept = kept
        BY <1>a, <1>8 DEF New!Deleted, IsWizard
  <2> QED BY <1>a, <1>b, <2>1, EmptyIsDoc, WizardKeeps
<1>9. CASE New!NameProject
  <2>1. panel' = [panel EXCEPT !.form = [@ EXCEPT !.named = TRUE]]
        BY <1>9 DEF New!NameProject
  <2>2. PICK f : f = [panel.form EXCEPT !.named = TRUE]
        OBVIOUS
  <2>3. /\ IsForm(f) /\ f.mode = panel.form.mode /\ f.doc = panel.form.doc
        /\ f.preview = panel.form.preview /\ f.templates = panel.form.templates
        BY <1>a, <2>2 DEF IsForm
  <2>4. /\ IsWizard(panel')
        /\ panel'.form = f /\ panel'.page = panel.page /\ panel'.raw = panel.raw
        /\ panel'.selecting = panel.selecting /\ panel'.generating = panel.generating
        /\ panel'.creating = panel.creating /\ panel'.listed = panel.listed
        /\ panel'.deleting = panel.deleting /\ panel'.confirm = panel.confirm
        /\ panel'.made = panel.made /\ panel'.kept = panel.kept
        BY <1>a, <2>1, <2>2 DEF IsWizard
  <2> QED BY <1>a, <1>c, <2>3, <2>4, EmptyIsDoc, WizardKeeps
<1>10. CASE New!NextStep
  <2>1. panel' = [panel EXCEPT !.form = [@ EXCEPT !.step = "world"]]
        BY <1>10 DEF New!NextStep
  <2>2. PICK f : f = [panel.form EXCEPT !.step = "world"]
        OBVIOUS
  <2>3. /\ IsForm(f) /\ f.mode = panel.form.mode /\ f.doc = panel.form.doc
        /\ f.preview = panel.form.preview /\ f.templates = panel.form.templates
        BY <1>a, <2>2 DEF IsForm
  <2>4. /\ IsWizard(panel')
        /\ panel'.form = f /\ panel'.page = panel.page /\ panel'.raw = panel.raw
        /\ panel'.selecting = panel.selecting /\ panel'.generating = panel.generating
        /\ panel'.creating = panel.creating /\ panel'.listed = panel.listed
        /\ panel'.deleting = panel.deleting /\ panel'.confirm = panel.confirm
        /\ panel'.made = panel.made /\ panel'.kept = panel.kept
        BY <1>a, <2>1, <2>2 DEF IsWizard
  <2> QED BY <1>a, <1>c, <2>3, <2>4, EmptyIsDoc, WizardKeeps
<1>11. CASE New!Previous
  <2>1. panel' = [panel EXCEPT !.form = [@ EXCEPT !.step = "info"]]
        BY <1>11 DEF New!Previous
  <2>2. PICK f : f = [panel.form EXCEPT !.step = "info"]
        OBVIOUS
  <2>3. /\ IsForm(f) /\ f.mode = panel.form.mode /\ f.doc = panel.form.doc
        /\ f.preview = panel.form.preview /\ f.templates = panel.form.templates
        BY <1>a, <2>2 DEF IsForm
  <2>4. /\ IsWizard(panel')
        /\ panel'.form = f /\ panel'.page = panel.page /\ panel'.raw = panel.raw
        /\ panel'.selecting = panel.selecting /\ panel'.generating = panel.generating
        /\ panel'.creating = panel.creating /\ panel'.listed = panel.listed
        /\ panel'.deleting = panel.deleting /\ panel'.confirm = panel.confirm
        /\ panel'.made = panel.made /\ panel'.kept = panel.kept
        BY <1>a, <2>1, <2>2 DEF IsWizard
  <2> QED BY <1>a, <1>c, <2>3, <2>4, EmptyIsDoc, WizardKeeps
<1>12. CASE New!ChooseMode
  <2>1. PICK mode, listing :
           /\ mode \in New!Modes
           /\ panel' = [panel EXCEPT !.form = [@ EXCEPT !.mode = mode], !.listing = listing]
        BY <1>12 DEF New!ChooseMode
  <2>2. PICK f : f = [panel.form EXCEPT !.mode = mode]
        OBVIOUS
  <2>3. /\ IsForm(f) /\ f.mode = mode /\ f.doc = panel.form.doc
        /\ f.preview = panel.form.preview /\ f.templates = panel.form.templates
        BY <1>a, <2>2 DEF IsForm
  <2>4. /\ IsWizard(panel')
        /\ panel'.form = f /\ panel'.page = panel.page /\ panel'.raw = panel.raw
        /\ panel'.selecting = panel.selecting /\ panel'.generating = panel.generating
        /\ panel'.creating = panel.creating /\ panel'.listed = panel.listed
        /\ panel'.deleting = panel.deleting /\ panel'.confirm = panel.confirm
        /\ panel'.made = panel.made /\ panel'.kept = panel.kept
        BY <1>a, <2>1, <2>2 DEF IsWizard
  <2> QED BY <1>a, <1>c, <2>1, <2>3, <2>4, EmptyIsDoc, WizardKeeps
<1>13. CASE New!SetFilter
  <2>1. PICK filter :
           panel' = [panel EXCEPT !.form = [@ EXCEPT !.filter = filter]]
        BY <1>13 DEF New!SetFilter
  <2>2. PICK f : f = [panel.form EXCEPT !.filter = filter]
        OBVIOUS
  <2>3. /\ IsForm(f) /\ f.mode = panel.form.mode /\ f.doc = panel.form.doc
        /\ f.preview = panel.form.preview /\ f.templates = panel.form.templates
        BY <1>a, <2>2 DEF IsForm
  <2>4. /\ IsWizard(panel')
        /\ panel'.form = f /\ panel'.page = panel.page /\ panel'.raw = panel.raw
        /\ panel'.selecting = panel.selecting /\ panel'.generating = panel.generating
        /\ panel'.creating = panel.creating /\ panel'.listed = panel.listed
        /\ panel'.deleting = panel.deleting /\ panel'.confirm = panel.confirm
        /\ panel'.made = panel.made /\ panel'.kept = panel.kept
        BY <1>a, <2>1, <2>2 DEF IsWizard
  <2> QED BY <1>a, <1>c, <2>3, <2>4, EmptyIsDoc, WizardKeeps
<1>14. CASE New!HandleSelectTemplate
  <2>1. PICK slug \in New!FilteredTemplates :
           panel' = [panel EXCEPT !.form = [@ EXCEPT !.slug = slug], !.loading = TRUE, !.selecting = @ \cup {slug}]
        BY <1>14 DEF New!HandleSelectTemplate
  <2>2. PICK f : f = [panel.form EXCEPT !.slug = slug]
        OBVIOUS
  <2>3. /\ IsForm(f) /\ f.mode = panel.form.mode /\ f.doc = panel.form.doc
        /\ f.preview = panel.form.preview /\ f.templates = panel.form.templates
        BY <1>a, <2>2 DEF IsForm
  <2>4. /\ IsWizard(panel')
        /\ panel'.form = f /\ panel'.page = panel.page /\ panel'.raw = panel.raw
        /\ panel'.selecting = panel.selecting \cup {slug}
        /\ panel'.generating = panel.generating /\ panel'.creating = panel.creating
        /\ panel'.listed = panel.listed /\ panel'.deleting = panel.deleting
        /\ panel'.confirm = panel.confirm /\ panel'.made = panel.made
        /\ panel'.kept = panel.kept
        BY <1>a, <2>1, <2>2 DEF IsWizard
  <2> QED BY <1>a, <1>c, <2>3, <2>4, EmptyIsDoc, WizardKeeps DEF New!FilteredTemplates
<1>15. CASE New!ChooseDifferent
  <2>1. panel' = [panel EXCEPT !.form = [@ EXCEPT !.slug = "", !.preview = ""]]
        BY <1>15 DEF New!ChooseDifferent
  <2>2. PICK f : f = [panel.form EXCEPT !.slug = "", !.preview = ""]
        OBVIOUS
  <2>3. /\ IsForm(f) /\ f.mode = panel.form.mode /\ f.doc = panel.form.doc
        /\ f.preview = "" /\ f.templates = panel.form.templates
        BY <1>a, <2>2 DEF IsForm
  <2>4. /\ IsWizard(panel')
        /\ panel'.form = f /\ panel'.page = panel.page /\ panel'.raw = panel.raw
        /\ panel'.selecting = panel.selecting /\ panel'.generating = panel.generating
        /\ panel'.creating = panel.creating /\ panel'.listed = panel.listed
        /\ panel'.deleting = panel.deleting /\ panel'.confirm = panel.confirm
        /\ panel'.made = panel.made /\ panel'.kept = panel.kept
        BY <1>a, <2>1, <2>2 DEF IsWizard
  <2> QED BY <1>a, <1>c, <2>3, <2>4, EmptyIsDoc, WizardKeeps
<1>16. CASE New!FillGenre
  <2>1. PICK genre :
           panel' = [panel EXCEPT !.form = [@ EXCEPT !.genre = genre]]
        BY <1>16 DEF New!FillGenre
  <2>2. PICK f : f = [panel.form EXCEPT !.genre = genre]
        OBVIOUS
  <2>3. /\ IsForm(f) /\ f.mode = panel.form.mode /\ f.doc = panel.form.doc
        /\ f.preview = panel.form.preview /\ f.templates = panel.form.templates
        BY <1>a, <2>2 DEF IsForm
  <2>4. /\ IsWizard(panel')
        /\ panel'.form = f /\ panel'.page = panel.page /\ panel'.raw = panel.raw
        /\ panel'.selecting = panel.selecting /\ panel'.generating = panel.generating
        /\ panel'.creating = panel.creating /\ panel'.listed = panel.listed
        /\ panel'.deleting = panel.deleting /\ panel'.confirm = panel.confirm
        /\ panel'.made = panel.made /\ panel'.kept = panel.kept
        BY <1>a, <2>1, <2>2 DEF IsWizard
  <2> QED BY <1>a, <1>c, <2>3, <2>4, EmptyIsDoc, WizardKeeps
<1>17. CASE New!HandleGenerate
  <2>1. PICK run \in New!RunNames :
           /\ IsWizard(panel')
           /\ panel'.form = panel.form /\ panel'.page = panel.page /\ panel'.raw = panel.raw
           /\ panel'.selecting = panel.selecting /\ panel'.generating = {run}
           /\ panel.form.doc = ""
           /\ panel'.creating = panel.creating /\ panel'.listed = panel.listed
           /\ panel'.deleting = panel.deleting /\ panel'.confirm = panel.confirm
           /\ panel'.made = panel.made /\ panel'.kept = panel.kept
        BY <1>a, <1>17 DEF New!HandleGenerate, IsWizard, New!RunNames
  <2> QED BY <1>a, <1>b, <2>1, EmptyIsDoc, WizardKeeps
<1>18. CASE New!EditDoc
  <2>1. PICK doc \in New!Docs :
           /\ panel' = [panel EXCEPT !.form = [@ EXCEPT !.doc = doc]]
           /\ panel.generating = {}
        BY <1>18 DEF New!EditDoc, New!Docs
  <2>2. PICK f : f = [panel.form EXCEPT !.doc = doc]
        OBVIOUS
  <2>3. /\ IsForm(f) /\ f.mode = panel.form.mode /\ f.doc = doc
        /\ f.preview = panel.form.preview /\ f.templates = panel.form.templates
        BY <1>a, <2>2 DEF IsForm
  <2>4. /\ IsWizard(panel')
        /\ panel'.form = f /\ panel'.page = panel.page /\ panel'.raw = panel.raw
        /\ panel'.selecting = panel.selecting /\ panel'.generating = panel.generating
        /\ panel'.creating = panel.creating /\ panel'.listed = panel.listed
        /\ panel'.deleting = panel.deleting /\ panel'.confirm = panel.confirm
        /\ panel'.made = panel.made /\ panel'.kept = panel.kept
        BY <1>a, <2>1, <2>2 DEF IsWizard
  <2> QED BY <1>a, <1>c, <2>1, <2>3, <2>4, EmptyIsDoc, WizardKeeps
<1>19. CASE New!TemplatesAnswered
  <2>1. PICK templates \in {panel.form.templates, New!Slugs} :
           panel' = [panel EXCEPT !.form = [@ EXCEPT !.templates = templates], !.listing = FALSE]
        BY <1>19 DEF New!TemplatesAnswered
  <2>2. PICK f : f = [panel.form EXCEPT !.templates = templates]
        OBVIOUS
  <2>3. /\ IsForm(f) /\ f.mode = panel.form.mode /\ f.doc = panel.form.doc
        /\ f.preview = panel.form.preview /\ f.templates = templates
        BY <1>a, <2>2 DEF IsForm
  <2>4. /\ IsWizard(panel')
        /\ panel'.form = f /\ panel'.page = panel.page /\ panel'.raw = panel.raw
        /\ panel'.selecting = panel.selecting /\ panel'.generating = panel.generating
        /\ panel'.creating = panel.creating /\ panel'.listed = panel.listed
        /\ panel'.deleting = panel.deleting /\ panel'.confirm = panel.confirm
        /\ panel'.made = panel.made /\ panel'.kept = panel.kept
        BY <1>a, <2>1, <2>2 DEF IsWizard
  <2> QED BY <1>a, <1>c, <2>3, <2>4, EmptyIsDoc, WizardKeeps
<1>20. CASE New!Chunk
  <2>1. PICK run \in panel.generating :
           panel' = [panel EXCEPT !.form = [@ EXCEPT !.doc = run]]
        BY <1>20 DEF New!Chunk
  <2>2. PICK f : f = [panel.form EXCEPT !.doc = run]
        OBVIOUS
  <2>3. /\ IsForm(f) /\ f.mode = panel.form.mode /\ f.doc = run
        /\ f.preview = panel.form.preview /\ f.templates = panel.form.templates
        BY <1>a, <2>2 DEF IsForm
  <2>4. /\ IsWizard(panel')
        /\ panel'.form = f /\ panel'.page = panel.page /\ panel'.raw = panel.raw
        /\ panel'.selecting = panel.selecting /\ panel'.generating = panel.generating
        /\ panel'.creating = panel.creating /\ panel'.listed = panel.listed
        /\ panel'.deleting = panel.deleting /\ panel'.confirm = panel.confirm
        /\ panel'.made = panel.made /\ panel'.kept = panel.kept
        BY <1>a, <2>1, <2>2 DEF IsWizard
  <2> QED BY <1>a, <1>c, <2>3, <2>4, EmptyIsDoc, WizardKeeps
<1>21. CASE New!GenerateEnds
  <2>1. /\ IsWizard(panel')
        /\ panel'.form = panel.form /\ panel'.page = panel.page /\ panel'.raw = panel.raw
        /\ panel'.selecting = panel.selecting /\ panel'.generating = {}
        /\ panel'.creating = panel.creating /\ panel'.listed = panel.listed
        /\ panel'.deleting = panel.deleting /\ panel'.confirm = panel.confirm
        /\ panel'.made = panel.made /\ panel'.kept = panel.kept
        BY <1>a, <1>21 DEF New!GenerateEnds, IsWizard
  <2> QED BY <1>a, <1>b, <2>1, EmptyIsDoc, WizardKeeps
<1>22. CASE New!Back
  <2>1. ASSUME panel' = [panel EXCEPT !.form.mode = "none", !.form.slug = "",
                                      !.form.preview = ""]
        PROVE  WizardInv'
    <3>1. PICK f : f = [panel.form EXCEPT !.mode = "none", !.slug = "", !.preview = ""]
          OBVIOUS
    <3>2. /\ IsForm(f) /\ f.mode = "none" /\ f.doc = panel.form.doc
          /\ f.preview = "" /\ f.templates = panel.form.templates
          BY <1>a, <3>1 DEF IsForm
    <3>3. /\ IsWizard(panel')
          /\ panel'.form = f /\ panel'.page = panel.page /\ panel'.raw = panel.raw
          /\ panel'.selecting = panel.selecting /\ panel'.generating = panel.generating
          /\ panel'.creating = panel.creating /\ panel'.listed = panel.listed
          /\ panel'.deleting = panel.deleting /\ panel'.confirm = panel.confirm
          /\ panel'.made = panel.made /\ panel'.kept = panel.kept
          BY <1>a, <2>1, <3>1 DEF IsWizard, IsForm
    <3> QED BY <1>a, <1>c, <3>2, <3>3, EmptyIsDoc, WizardKeeps DEF New!Modes
  <2>2. ASSUME panel' = [panel EXCEPT !.form.mode = "none", !.form.doc = ""]
        PROVE  WizardInv'
    <3>1. PICK f : f = [panel.form EXCEPT !.mode = "none", !.doc = ""]
          OBVIOUS
    <3>2. /\ IsForm(f) /\ f.mode = "none" /\ f.doc = ""
          /\ f.preview = panel.form.preview /\ f.templates = panel.form.templates
          BY <1>a, <3>1 DEF IsForm
    <3>3. /\ IsWizard(panel')
          /\ panel'.form = f /\ panel'.page = panel.page /\ panel'.raw = panel.raw
          /\ panel'.selecting = panel.selecting /\ panel'.generating = panel.generating
          /\ panel'.creating = panel.creating /\ panel'.listed = panel.listed
          /\ panel'.deleting = panel.deleting /\ panel'.confirm = panel.confirm
          /\ panel'.made = panel.made /\ panel'.kept = panel.kept
          BY <1>a, <2>2, <3>1 DEF IsWizard, IsForm
    <3> QED BY <1>a, <1>c, <3>2, <3>3, EmptyIsDoc, WizardKeeps DEF New!Modes
  <2> QED BY <1>22, <2>1, <2>2 DEF New!Back
<1>23. CASE New!SelectAnswered
  <2>1. PICK slug \in panel.selecting :
           \/ panel' = [panel EXCEPT !.selecting = @ \ {slug}, !.loading = FALSE,
                                     !.form.preview = slug, !.raw = slug]
           \/ panel' = [panel EXCEPT !.selecting = @ \ {slug}, !.loading = FALSE]
        BY <1>23 DEF New!SelectAnswered
  <2>2. ASSUME panel' = [panel EXCEPT !.selecting = @ \ {slug}, !.loading = FALSE,
                                      !.form.preview = slug, !.raw = slug]
        PROVE  WizardInv'
    <3>1. PICK f : f = [panel.form EXCEPT !.preview = slug]
          OBVIOUS
    <3>2. /\ IsForm(f) /\ f.mode = panel.form.mode /\ f.doc = panel.form.doc
          /\ f.preview = slug /\ f.templates = panel.form.templates
          BY <1>a, <3>1 DEF IsForm
    <3>3. /\ IsWizard(panel')
          /\ panel'.form = f /\ panel'.page = panel.page /\ panel'.raw = slug
          /\ panel'.selecting = panel.selecting \ {slug}
          /\ panel'.generating = panel.generating /\ panel'.creating = panel.creating
          /\ panel'.listed = panel.listed /\ panel'.deleting = panel.deleting
          /\ panel'.confirm = panel.confirm /\ panel'.made = panel.made
          /\ panel'.kept = panel.kept
          BY <1>a, <2>2, <3>1 DEF IsWizard, IsForm
    <3>4. slug \in New!Docs
          BY <1>a, <1>c
    <3> QED BY <1>a, <1>c, <3>2, <3>3, <3>4, EmptyIsDoc, WizardKeeps
  <2>3. ASSUME panel' = [panel EXCEPT !.selecting = @ \ {slug}, !.loading = FALSE]
        PROVE  WizardInv'
    <3>1. /\ IsWizard(panel')
          /\ panel'.form = panel.form /\ panel'.page = panel.page /\ panel'.raw = panel.raw
          /\ panel'.selecting = panel.selecting \ {slug}
          /\ panel'.generating = panel.generating /\ panel'.creating = panel.creating
          /\ panel'.listed = panel.listed /\ panel'.deleting = panel.deleting
          /\ panel'.confirm = panel.confirm /\ panel'.made = panel.made
          /\ panel'.kept = panel.kept
          BY <1>a, <2>3 DEF IsWizard
    <3> QED BY <1>a, <3>1, WizardKeeps
  <2> QED BY <2>1, <2>2, <2>3
<1>d. /\ panel.creating \subseteq Creations(panel.made)
      /\ \A c, d \in panel.creating : c.alive /\ d.alive => c = d
      /\ \A c \in panel.creating : AsShown(c)
      BY DEF WizardInv, New!TypeOK, New!CreatedAsShown, AsShown
<1>e. \A c \in Creations(panel.made) :
         /\ c.id \in 1..panel.made /\ c.doc \in New!Docs
         /\ c.alive \in BOOLEAN /\ c.stored \in BOOLEAN
      BY DEF Creations
<1>24. CASE New!OpenProject
  <2>1. panel' = New!PageLeft(panel)
        BY <1>24 DEF New!OpenProject
  <2> QED BY <1>a, <1>d, <2>1, PageLeftKeeps
<1>25. CASE New!Created
  <2>1. PICK c \in panel.creating :
           panel' = New!PageLeft([panel EXCEPT !.creating = @ \ {c}, !.listed = @ \cup {c.id}])
        BY <1>25 DEF New!Created
  <2>2. PICK p : p = [panel EXCEPT !.creating = @ \ {c}, !.listed = @ \cup {c.id}]
        OBVIOUS
  <2>3. /\ IsWizard(p)
        /\ p.form = panel.form /\ p.page = panel.page /\ p.raw = panel.raw
        /\ p.selecting = panel.selecting /\ p.generating = panel.generating
        /\ p.creating = panel.creating \ {c} /\ p.listed = panel.listed \cup {c.id}
        /\ p.deleting = panel.deleting /\ p.confirm = panel.confirm /\ p.made = panel.made
        /\ p.kept = panel.kept
        BY <1>a, <2>2 DEF IsWizard
  <2>4. c.id \in 1..panel.made
        BY <1>d, <1>e
  <2>5. panel' = New!PageLeft(p)
        BY <2>1, <2>2
  <2> QED BY <1>a, <1>d, <2>3, <2>4, <2>5, PageLeftKeeps
<1>26. ASSUME NEW doc \in New!Docs, NEW shown, New!HandleCreate(doc, shown),
              doc = shown \/ (shown = New!Spinner /\ doc \in New!RunNames)
       PROVE  WizardInv'
  <2>1. PICK n \in Nat : n = panel.made + 1 /\ 1..panel.made \subseteq 1..n /\ n \in 1..n
        BY <1>a, RangeGrows
  <2>2. PICK new : new = [id |-> n, doc |-> doc, shown |-> shown,
                          alive |-> TRUE, stored |-> FALSE]
        OBVIOUS
  <2>3. /\ new \in Creations(n) /\ AsShown(new)
        BY <1>26, <2>1, <2>2 DEF Creations, AsShown
  <2>4. panel' = [panel EXCEPT !.made = n, !.creating = @ \cup {new}]
        BY <1>26, <2>1, <2>2 DEF New!HandleCreate
  <2>5. /\ IsWizard(panel')
        /\ panel'.form = panel.form /\ panel'.page = panel.page /\ panel'.raw = panel.raw
        /\ panel'.selecting = panel.selecting /\ panel'.generating = panel.generating
        /\ panel'.creating = panel.creating \cup {new} /\ panel'.listed = panel.listed
        /\ panel'.deleting = panel.deleting /\ panel'.confirm = panel.confirm
        /\ panel'.made = n /\ panel'.kept = panel.kept
        BY <1>a, <2>4 DEF IsWizard
  <2>6. panel.creating \subseteq Creations(n)
    <3>1. Creations(panel.made) \subseteq Creations(n)
          BY <2>1 DEF Creations
    <3> QED BY <1>d, <3>1
  <2>7. \A c \in panel.creating : ~c.alive
        BY <1>26 DEF New!HandleCreate
  <2>8. panel'.creating \subseteq Creations(panel'.made)
        BY <2>3, <2>5, <2>6
  <2>9. \A c, d \in panel'.creating : c.alive /\ d.alive => c = d
        BY <2>5, <2>7
  <2>10. \A c \in panel'.creating : AsShown(c)
        BY <1>d, <2>3, <2>5
  <2>11. New!TypeOK'
        BY <1>a, <2>1, <2>5, <2>9 DEF New!TypeOK
  <2> QED BY <1>a, <2>1, <2>5, <2>8, <2>10, <2>11 DEF WizardInv, New!CreatedAsShown, AsShown
<1>27. CASE New!CreateBlank
  <2> QED BY <1>26, <1>27, EmptyIsDoc DEF New!CreateBlank
<1>28. CASE New!CreateFromTemplate
  <2>1. panel.form.preview # "" /\ panel.raw = panel.form.preview
        BY <1>a, <1>28 DEF New!CreateFromTemplate
  <2>2. New!HandleCreate(panel.raw, panel.raw)
        BY <1>28, <2>1 DEF New!CreateFromTemplate
  <2> QED BY <1>a, <1>26, <2>2
<1>29. CASE New!CreateGenerated
  <2>1. panel.form.doc \in New!Docs /\ panel.form.doc # ""
        BY <1>a, <1>29 DEF New!CreateGenerated
  <2>2. CASE panel.generating = {}
    <3>1. New!HandleCreate(panel.form.doc, panel.form.doc)
          BY <1>29, <2>2 DEF New!CreateGenerated
    <3> QED BY <1>26, <2>1, <3>1
  <2>3. CASE panel.generating # {}
    <3>1. New!HandleCreate(panel.form.doc, New!Spinner)
          BY <1>29, <2>3 DEF New!CreateGenerated
    <3> QED BY <1>a, <1>26, <2>1, <2>3, <3>1
  <2> QED BY <2>2, <2>3
<1>30. CASE New!CreateStored
  <2>1. PICK c \in panel.creating :
           panel' = [panel EXCEPT !.creating = (@ \ {c}) \cup {[c EXCEPT !.stored = TRUE]},
                                  !.kept = @ \cup {c.id}]
        BY <1>30 DEF New!CreateStored
  <2>2. PICK done : done = [c EXCEPT !.stored = TRUE]
        OBVIOUS
  <2>3. /\ done \in Creations(panel.made) /\ AsShown(done)
        /\ done.alive = c.alive /\ c.id \in 1..panel.made
    <3>1. c \in Creations(panel.made) /\ AsShown(c)
          BY <1>d
    <3> QED BY <2>2, <3>1 DEF Creations, AsShown
  <2>4. panel' = [panel EXCEPT !.creating = (panel.creating \ {c}) \cup {done},
                               !.kept = panel.kept \cup {c.id}]
        BY <1>a, <2>1, <2>2 DEF IsWizard
  <2>5. /\ IsWizard(panel')
        /\ panel'.form = panel.form /\ panel'.page = panel.page /\ panel'.raw = panel.raw
        /\ panel'.selecting = panel.selecting /\ panel'.generating = panel.generating
        /\ panel'.creating = (panel.creating \ {c}) \cup {done}
        /\ panel'.listed = panel.listed /\ panel'.deleting = panel.deleting
        /\ panel'.confirm = panel.confirm /\ panel'.made = panel.made
        /\ panel'.kept = panel.kept \cup {c.id}
        BY <1>a, <2>4 DEF IsWizard
  <2>6. panel'.creating \subseteq Creations(panel'.made)
        BY <1>d, <2>3, <2>5
  <2>7. \A a, b \in panel'.creating : a.alive /\ b.alive => a = b
        BY <1>d, <2>3, <2>5
  <2>8. \A a \in panel'.creating : AsShown(a)
        BY <1>d, <2>3, <2>5
  <2>9. New!TypeOK'
        BY <1>a, <2>3, <2>5, <2>7 DEF New!TypeOK
  <2> QED BY <1>a, <2>5, <2>6, <2>8, <2>9 DEF WizardInv, New!CreatedAsShown, AsShown
<1>31. CASE New!CreateFails
  <2>1. PICK c \in panel.creating : panel' = [panel EXCEPT !.creating = @ \ {c}]
        BY <1>31 DEF New!CreateFails
  <2>2. /\ IsWizard(panel')
        /\ panel'.form = panel.form /\ panel'.page = panel.page /\ panel'.raw = panel.raw
        /\ panel'.selecting = panel.selecting /\ panel'.generating = panel.generating
        /\ panel'.creating = panel.creating \ {c} /\ panel'.listed = panel.listed
        /\ panel'.deleting = panel.deleting /\ panel'.confirm = panel.confirm
        /\ panel'.made = panel.made /\ panel'.kept = panel.kept
        BY <1>a, <2>1 DEF IsWizard
  <2>3. /\ panel'.creating \subseteq Creations(panel'.made)
        /\ \A a, b \in panel'.creating : a.alive /\ b.alive => a = b
        /\ \A a \in panel'.creating : AsShown(a)
        BY <1>d, <2>2
  <2>4. New!TypeOK'
        BY <1>a, <2>2, <2>3 DEF New!TypeOK
  <2> QED BY <1>a, <2>2, <2>3, <2>4 DEF WizardInv, New!CreatedAsShown, AsShown
<1> QED BY <1>1, <1>2, <1>4, <1>5, <1>6, <1>7, <1>8, <1>9, <1>10, <1>11, <1>12, <1>13,
           <1>14, <1>15, <1>16, <1>17, <1>18, <1>19, <1>20, <1>21, <1>22, <1>23, <1>24,
           <1>25, <1>27, <1>28, <1>29, <1>30, <1>31
        DEF New!Next, New!List, New!Form

-----------------------------------------------------------------------------
(* The novel                                                               *)

IsNovel(p) ==
    p = [mounted |-> p.mounted, session |-> p.session, count |-> p.count,
         loading |-> p.loading, error |-> p.error, chapters |-> p.chapters,
         active |-> p.active, streaming |-> p.streaming, stream |-> p.stream,
         written |-> p.written, whole |-> p.whole, failed |-> p.failed,
         ended |-> p.ended, novels |-> p.novels]

IsStream(s) ==
    s = [phase |-> s.phase, index |-> s.index, parts |-> s.parts, count |-> s.count]

Phases == {"none", "outline", "chapters"}

NovelTypes(p) ==
    /\ IsNovel(p) /\ IsStream(p.stream)
    /\ p.session \in Story!Sessions /\ p.count \in Story!Counts
    /\ p.loading \in BOOLEAN /\ p.error \in BOOLEAN
    /\ p.stream.phase \in Phases /\ p.stream.index \in Nat /\ p.stream.count \in Nat

NovelTexts(p) ==
    /\ p.written \in Seq(Nat) /\ p.chapters = p.written
    /\ p.streaming \in 0..Len(p.written)
    /\ p.written # <<>> => p.active \in 1..Len(p.written)

\* The stream goes through the chapters in order, and without an error it has
\* finished those it has passed.  Until there is an outline nothing is written.
NovelOrder(p) ==
    /\ p.loading <=> p.stream.phase # "none"
    /\ p.ended = "done" =>
          /\ p.stream.phase = "none"
          /\ ~p.error => p.whole = 1..Len(p.written) /\ p.streaming = 0
    /\ p.stream.phase = "outline" =>
          p.written = <<>> /\ p.whole = {} /\ p.streaming = 0 /\ p.active = 1
    /\ p.stream.phase = "chapters" =>
          /\ p.stream.index \in 1..(Len(p.written) + 1)
          /\ ~p.error => p.whole = 1..(p.stream.index - 1)

NovelOK(p) == NovelTypes(p) /\ NovelTexts(p) /\ NovelOrder(p)

NovelInv == NovelOK(panel)

LEMMA NovelProperties == NovelInv => Story!TypeOK /\ Story!CompleteWithoutError
<1> SUFFICES ASSUME NovelInv PROVE Story!TypeOK /\ Story!CompleteWithoutError
    OBVIOUS
<1>1. DOMAIN panel.written = 1..Len(panel.written)
      BY DEF NovelInv, NovelOK, NovelTypes, NovelTexts, NovelOrder
<1>2. Story!TypeOK
      BY <1>1 DEF NovelInv, NovelOK, NovelTypes, NovelTexts, NovelOrder, Story!TypeOK
<1>3. Story!CompleteWithoutError
      BY <1>1 DEF NovelInv, NovelOK, NovelTypes, NovelTexts, NovelOrder, Story!CompleteWithoutError, Story!Download
<1> QED BY <1>2, <1>3

LEMMA NoStreamFields ==
    /\ IsStream(Story!NoStream) /\ Story!NoStream.phase = "none"
    /\ Story!NoStream.index = 0 /\ Story!NoStream.count = 0
BY DEF Story!NoStream, IsStream

LEMMA NovelInit == Story!Init => NovelInv
<1> SUFFICES ASSUME Story!Init PROVE NovelOK(panel)
    BY DEF NovelInv
<1>1. /\ IsNovel(panel)
      /\ panel.mounted = FALSE /\ panel.session = "s" /\ panel.count = 2
      /\ panel.loading = FALSE /\ panel.error = FALSE /\ panel.chapters = <<>>
      /\ panel.active = 1 /\ panel.streaming = 0 /\ panel.stream = Story!NoStream
      /\ panel.written = <<>> /\ panel.whole = {} /\ panel.failed = {}
      /\ panel.ended = "none" /\ panel.novels = 0
      BY DEF Story!Init, IsNovel
<1>2. 0 \in Nat /\ <<>> \in Seq(Nat) /\ 0 \in 0..Len(<<>>)
      OBVIOUS
<1>3. "s" \in Story!Sessions /\ 2 \in Story!Counts
      BY DEF Story!Sessions, Story!Counts
<1> QED BY <1>1, <1>2, <1>3, NoStreamFields DEF NovelOK, NovelTypes, NovelTexts, NovelOrder, Phases

\* The stream ends: what is written stays.
LEMMA SettledKeeps ==
    ASSUME NEW p, NovelOK(p), NEW how,
           how = "done" /\ ~p.error => p.whole = 1..Len(p.written) /\ p.streaming = 0
    PROVE  /\ NovelOK(Story!Settled(p, how))
           /\ Story!Settled(p, how).ended = how
           /\ ~Story!Settled(p, how).loading
<1>1. PICK q : q = Story!Settled(p, how)
      OBVIOUS
<1>2. /\ IsNovel(q)
      /\ q.session = p.session /\ q.count = p.count /\ q.loading = FALSE
      /\ q.error = p.error /\ q.chapters = p.chapters /\ q.active = p.active
      /\ q.streaming = p.streaming /\ q.stream = Story!NoStream /\ q.written = p.written
      /\ q.whole = p.whole /\ q.ended = how
      BY <1>1 DEF Story!Settled, NovelOK, NovelTypes, NovelTexts, NovelOrder, IsNovel
<1>3. NovelTypes(q)
    <2>1. q.loading \in BOOLEAN /\ q.error \in BOOLEAN
          BY <1>2 DEF NovelOK, NovelTypes
    <2> QED BY <1>2, <2>1, NoStreamFields DEF NovelOK, NovelTypes, Phases
<1>4. NovelTexts(q)
      BY <1>2 DEF NovelOK, NovelTexts
<1>5. NovelOrder(q)
      BY <1>2, NoStreamFields DEF NovelOrder
<1> QED BY <1>1, <1>2, <1>3, <1>4, <1>5 DEF NovelOK

LEMMA FailedKeeps ==
    ASSUME NEW p, NovelOK(p), NEW how, how # "done"
    PROVE  NovelOK([Story!Settled(p, how) EXCEPT !.error = TRUE])
<1>1. PICK q : q = Story!Settled(p, how)
      OBVIOUS
<1>2. NovelOK(q) /\ q.ended = how /\ ~q.loading
      BY <1>1, SettledKeeps
<1>3. PICK r : r = [q EXCEPT !.error = TRUE]
      OBVIOUS
<1>4. /\ IsNovel(r)
      /\ r.session = q.session /\ r.count = q.count /\ r.loading = q.loading
      /\ r.error = TRUE /\ r.chapters = q.chapters /\ r.active = q.active
      /\ r.streaming = q.streaming /\ r.stream = q.stream /\ r.written = q.written
      /\ r.whole = q.whole /\ r.ended = q.ended
      BY <1>2, <1>3 DEF NovelOK, NovelTypes, NovelTexts, NovelOrder, IsNovel
<1> QED BY <1>1, <1>2, <1>3, <1>4 DEF NovelOK, NovelTypes, NovelTexts, NovelOrder

LEMMA NovelStep == NovelInv /\ Story!Next => NovelInv'
<1> SUFFICES ASSUME NovelOK(panel), Story!Next PROVE NovelOK(panel')
    BY DEF NovelInv
<1>a. IsNovel(panel) /\ IsStream(panel.stream)
      BY DEF NovelOK, NovelTypes, NovelTexts, NovelOrder
<1>1. CASE Story!Mount
  <2>1. /\ IsNovel(panel')
        /\ panel'.session = panel.session /\ panel'.count = panel.count
        /\ panel'.loading = panel.loading /\ panel'.error = panel.error
        /\ panel'.chapters = panel.chapters /\ panel'.active = panel.active
        /\ panel'.streaming = panel.streaming /\ panel'.stream = panel.stream
        /\ panel'.written = panel.written /\ panel'.whole = panel.whole
        /\ panel'.ended = panel.ended
        BY <1>a, <1>1 DEF Story!Mount, IsNovel
  <2> QED BY <2>1 DEF NovelOK, NovelTypes, NovelTexts, NovelOrder
<1>2. CASE Story!Unmount
  <2>1. /\ IsNovel(panel')
        /\ panel'.session = panel.session /\ panel'.count = 2 /\ panel'.loading = FALSE
        /\ panel'.error = FALSE /\ panel'.chapters = <<>> /\ panel'.active = 1
        /\ panel'.streaming = 0 /\ panel'.stream = Story!NoStream /\ panel'.written = <<>>
        /\ panel'.whole = {} /\ panel'.ended = "none"
        BY <1>a, <1>2 DEF Story!Unmount, IsNovel
  <2>e. panel'.loading \in BOOLEAN /\ panel'.error \in BOOLEAN
        BY <2>1
  <2>2. <<>> \in Seq(Nat) /\ 0 \in 0..Len(<<>>) /\ 2 \in Story!Counts
        BY DEF Story!Counts
  <2>b. NovelTypes(panel')
        BY <2>1, <2>2, <2>e, NoStreamFields DEF NovelOK, NovelTypes, Phases
  <2>c. NovelTexts(panel')
        BY <2>1, <2>2, NoStreamFields DEF NovelOK, NovelTypes, NovelTexts
  <2>d. NovelOrder(panel')
        BY <2>1, <2>2, NoStreamFields DEF NovelOK, NovelTypes, NovelTexts, NovelOrder
  <2> QED BY <2>b, <2>c, <2>d DEF NovelOK
<1>3. CASE Story!ChangeSession
  <2>1. PICK session \in Story!Sessions :
           /\ IsNovel(panel')
           /\ panel'.session = session /\ panel'.count = panel.count
           /\ panel'.loading = panel.loading /\ panel'.error = panel.error
           /\ panel'.chapters = panel.chapters /\ panel'.active = panel.active
           /\ panel'.streaming = panel.streaming /\ panel'.stream = panel.stream
           /\ panel'.written = panel.written /\ panel'.whole = panel.whole
           /\ panel'.ended = panel.ended
        BY <1>a, <1>3 DEF Story!ChangeSession, IsNovel
  <2> QED BY <2>1 DEF NovelOK, NovelTypes, NovelTexts, NovelOrder
<1>4. CASE Story!SetChapterCount
  <2>1. PICK count \in Story!Counts :
           /\ IsNovel(panel')
           /\ panel'.session = panel.session /\ panel'.count = count
           /\ panel'.loading = panel.loading /\ panel'.error = panel.error
           /\ panel'.chapters = panel.chapters /\ panel'.active = panel.active
           /\ panel'.streaming = panel.streaming /\ panel'.stream = panel.stream
           /\ panel'.written = panel.written /\ panel'.whole = panel.whole
           /\ panel'.ended = panel.ended
        BY <1>a, <1>4 DEF Story!SetChapterCount, IsNovel
  <2> QED BY <2>1 DEF NovelOK, NovelTypes, NovelTexts, NovelOrder
<1>5. CASE Story!HandleGenerate
  <2>1. PICK stream : stream = [Story!NoStream EXCEPT !.phase = "outline", !.count = panel.count]
        OBVIOUS
  <2>2. /\ IsNovel(panel')
        /\ panel'.session = panel.session /\ panel'.count = panel.count
        /\ panel'.loading = TRUE /\ panel'.error = FALSE /\ panel'.chapters = <<>>
        /\ panel'.active = 1 /\ panel'.streaming = 0 /\ panel'.stream = stream
        /\ panel'.written = <<>> /\ panel'.whole = {} /\ panel'.ended = "none"
        BY <1>a, <1>5, <2>1 DEF Story!HandleGenerate, IsNovel
  <2>e. panel'.loading \in BOOLEAN /\ panel'.error \in BOOLEAN
        BY <2>2
  <2>3. /\ IsStream(stream) /\ stream.phase = "outline" /\ stream.index = 0
        /\ stream.count = panel.count
        BY <2>1 DEF Story!NoStream, IsStream
  <2>4. <<>> \in Seq(Nat) /\ 0 \in 0..Len(<<>>) /\ panel.count \in Nat
        BY DEF NovelOK, NovelTypes, NovelTexts, NovelOrder, Story!Counts
  <2>b. NovelTypes(panel')
        BY <2>2, <2>3, <2>4, <2>e DEF NovelOK, NovelTypes, Phases
  <2>c. NovelTexts(panel')
        BY <2>2, <2>3, <2>4 DEF NovelOK, NovelTypes, NovelTexts
  <2>d. NovelOrder(panel')
        BY <2>2, <2>3, <2>4 DEF NovelOK, NovelTypes, NovelTexts, NovelOrder
  <2> QED BY <2>b, <2>c, <2>d DEF NovelOK
<1>6. CASE Story!HandleStop
  <2> QED BY <1>6, SettledKeeps DEF Story!HandleStop
<1>7. CASE Story!SelectChapter
  <2>1. PICK i \in DOMAIN panel.chapters : panel' = [panel EXCEPT !.active = i]
        BY <1>7 DEF Story!SelectChapter
  <2>2. /\ IsNovel(panel')
        /\ panel'.session = panel.session /\ panel'.count = panel.count
        /\ panel'.loading = panel.loading /\ panel'.error = panel.error
        /\ panel'.chapters = panel.chapters /\ panel'.active = i
        /\ panel'.streaming = panel.streaming /\ panel'.stream = panel.stream
        /\ panel'.written = panel.written /\ panel'.whole = panel.whole
        /\ panel'.ended = panel.ended
        BY <1>a, <2>1 DEF IsNovel
  <2>3. i \in 1..Len(panel.written) /\ panel.written # <<>>
        BY DEF NovelOK, NovelTexts
  <2> QED BY <2>2, <2>3 DEF NovelOK, NovelTypes, NovelTexts, NovelOrder
<1>8. CASE Story!Outline
  <2>1. PICK n \in {panel.stream.count, 0} :
           panel' = [panel EXCEPT !.chapters = [i \in 1..n |-> 0],
                                  !.written = [i \in 1..n |-> 0],
                                  !.stream = [@ EXCEPT !.phase = "chapters", !.index = 1]]
        BY <1>8 DEF Story!Outline
  <2>2. PICK stream : stream = [panel.stream EXCEPT !.phase = "chapters", !.index = 1]
        OBVIOUS
  <2>3. PICK begun : begun = [i \in 1..n |-> 0]
        OBVIOUS
  <2>4. /\ IsNovel(panel')
        /\ panel'.session = panel.session /\ panel'.count = panel.count
        /\ panel'.loading = panel.loading /\ panel'.error = panel.error
        /\ panel'.chapters = begun /\ panel'.active = panel.active
        /\ panel'.streaming = panel.streaming /\ panel'.stream = stream
        /\ panel'.written = begun /\ panel'.whole = panel.whole
        /\ panel'.ended = panel.ended
        BY <1>a, <2>1, <2>2, <2>3 DEF IsNovel
  <2>5. /\ IsStream(stream) /\ stream.phase = "chapters" /\ stream.index = 1
        /\ stream.count = panel.stream.count
        BY <1>a, <2>2 DEF IsStream
  <2>6. n \in Nat /\ panel.stream.phase = "outline"
        BY <1>8 DEF NovelOK, NovelTypes, NovelTexts, NovelOrder, Story!Outline
  <2>7. begun \in Seq(Nat) /\ Len(begun) = n
        BY <2>3, <2>6
  <2>8. /\ 0 \in 0..Len(begun)
        /\ begun # <<>> => 1 \in 1..Len(begun)
        BY <2>6, <2>7
  <2>9. 1..(1 - 1) = {} /\ 1 \in 1..(Len(begun) + 1)
        BY <2>6, <2>7
  <2>b. NovelTypes(panel')
        BY <2>4, <2>5, <2>6, <2>7 DEF NovelOK, NovelTypes, Phases
  <2>c. NovelTexts(panel')
    <3>1. panel.streaming = 0 /\ panel.active = 1
          BY <2>6 DEF NovelOK, NovelOrder
    <3> QED BY <2>4, <2>7, <2>8, <3>1 DEF NovelTexts
  <2>d. NovelOrder(panel')
        BY <2>4, <2>5, <2>6, <2>7, <2>8, <2>9 DEF NovelOK, NovelTypes, NovelTexts, NovelOrder
  <2> QED BY <2>b, <2>c, <2>d DEF NovelOK
<1>9. CASE Story!OutlineFails
  <2> QED BY <1>9, FailedKeeps DEF Story!OutlineFails
<1>10. CASE Story!ConnectionLost
  <2> QED BY <1>10, FailedKeeps DEF Story!ConnectionLost
<1>b. ASSUME Story!Writing
      PROVE  /\ panel.stream.phase = "chapters"
             /\ panel.stream.index \in 1..Len(panel.written)
      BY <1>b DEF Story!Writing, NovelOK, NovelTypes, NovelTexts, NovelOrder
<1>11. CASE Story!Piece
  <2>1. PICK i \in 1..Len(panel.written) :
           /\ i = panel.stream.index
           /\ panel' = [panel EXCEPT !.written[i] = @ + 1, !.chapters[i] = @ + 1,
                                     !.streaming = i, !.active = i]
        BY <1>11, <1>b DEF Story!Piece
  <2>2. PICK longer : longer = [panel.written EXCEPT ![i] = @ + 1]
        OBVIOUS
  <2>3. /\ IsNovel(panel')
        /\ panel'.session = panel.session /\ panel'.count = panel.count
        /\ panel'.loading = panel.loading /\ panel'.error = panel.error
        /\ panel'.chapters = longer /\ panel'.active = i /\ panel'.streaming = i
        /\ panel'.stream = panel.stream /\ panel'.written = longer
        /\ panel'.whole = panel.whole /\ panel'.ended = panel.ended
        BY <1>a, <2>1, <2>2 DEF IsNovel, NovelOK, NovelTexts, NovelTypes
  <2>p. panel.stream.phase = "chapters"
        BY <1>11, <1>b DEF Story!Piece
  <2>4. longer \in Seq(Nat) /\ Len(longer) = Len(panel.written)
        BY <2>2 DEF NovelOK, NovelTypes, NovelTexts, NovelOrder
  <2>q. i \in 1..Len(longer) /\ i \in 0..Len(longer)
        BY <2>1, <2>4 DEF NovelOK, NovelTexts
  <2>b. NovelTypes(panel')
        BY <2>1, <2>3, <2>4, <2>p DEF NovelOK, NovelTypes, Phases
  <2>c. NovelTexts(panel')
        BY <2>1, <2>3, <2>4, <2>p, <2>q DEF NovelOK, NovelTypes, NovelTexts
  <2>d. NovelOrder(panel')
        BY <2>1, <2>3, <2>4, <2>p DEF NovelOK, NovelTypes, NovelTexts, NovelOrder
  <2> QED BY <2>b, <2>c, <2>d DEF NovelOK
<1>12. CASE Story!Chapter
  <2>1. PICK i \in 1..Len(panel.written) :
           /\ i = panel.stream.index
           /\ panel' = [panel EXCEPT !.chapters[i] = panel.written[i], !.streaming = 0,
                                     !.whole = @ \cup {i}, !.stream.index = @ + 1]
        BY <1>12, <1>b DEF Story!Chapter
  <2>2. PICK stream : stream = [panel.stream EXCEPT !.index = @ + 1]
        OBVIOUS
  <2>p. panel.stream.phase = "chapters"
        BY <1>12, <1>b DEF Story!Chapter
  <2>6. 1..((i + 1) - 1) = (1..(i - 1)) \cup {i}
        BY <2>1
  <2>3. [panel.chapters EXCEPT ![i] = panel.written[i]] = panel.chapters
        BY DEF NovelOK, NovelTypes, NovelTexts, NovelOrder
  <2>4. /\ IsNovel(panel')
        /\ panel'.session = panel.session /\ panel'.count = panel.count
        /\ panel'.loading = panel.loading /\ panel'.error = panel.error
        /\ panel'.chapters = panel.chapters /\ panel'.active = panel.active
        /\ panel'.streaming = 0 /\ panel'.stream = stream /\ panel'.written = panel.written
        /\ panel'.whole = panel.whole \cup {i} /\ panel'.ended = panel.ended
        BY <1>a, <2>1, <2>2, <2>3 DEF IsNovel
  <2>5. /\ IsStream(stream) /\ stream.phase = panel.stream.phase /\ stream.index = i + 1
        /\ stream.count = panel.stream.count
        BY <1>a, <2>1, <2>2 DEF IsStream
  <2>b. NovelTypes(panel')
        BY <2>1, <2>4, <2>5, <2>p DEF NovelOK, NovelTypes, Phases
  <2>c. NovelTexts(panel')
        BY <2>1, <2>4, <2>5, <2>p DEF NovelOK, NovelTypes, NovelTexts
  <2>d. NovelOrder(panel')
    <3>1. /\ ~panel.error => panel.whole = 1..(i - 1)
          /\ panel.ended # "done" /\ panel.loading
          BY <2>1, <2>p DEF NovelOK, NovelOrder
    <3>2. i + 1 \in 1..(Len(panel.written) + 1)
          BY <2>1 DEF NovelOK, NovelTexts
    <3>3. ~panel'.error => panel'.whole = 1..(panel'.stream.index - 1)
          BY <2>4, <2>5, <2>6, <3>1
    <3> QED BY <2>4, <2>5, <2>p, <3>1, <3>2, <3>3 DEF NovelOrder
  <2> QED BY <2>b, <2>c, <2>d DEF NovelOK
<1>13. CASE Story!ChapterFails
  <2>1. PICK i \in 1..Len(panel.written) :
           /\ i = panel.stream.index
           /\ panel' = [panel EXCEPT !.error = TRUE, !.failed = @ \cup {panel.stream.index},
                                     !.stream.index = @ + 1]
        BY <1>13, <1>b DEF Story!ChapterFails
  <2>2. PICK stream : stream = [panel.stream EXCEPT !.index = @ + 1]
        OBVIOUS
  <2>4. /\ IsNovel(panel')
        /\ panel'.session = panel.session /\ panel'.count = panel.count
        /\ panel'.loading = panel.loading /\ panel'.error = TRUE
        /\ panel'.chapters = panel.chapters /\ panel'.active = panel.active
        /\ panel'.streaming = panel.streaming /\ panel'.stream = stream
        /\ panel'.written = panel.written /\ panel'.whole = panel.whole
        /\ panel'.ended = panel.ended
        BY <1>a, <2>1, <2>2 DEF IsNovel
  <2>5. /\ IsStream(stream) /\ stream.phase = panel.stream.phase /\ stream.index = i + 1
        /\ stream.count = panel.stream.count
        BY <1>a, <2>1, <2>2 DEF IsStream
  <2> QED BY <1>13, <1>b, <2>1, <2>4, <2>5 DEF NovelOK, NovelTypes, NovelTexts, NovelOrder, Story!ChapterFails
<1>14. CASE Story!Done
  <2>1. PICK q : q = [panel EXCEPT !.streaming = 0]
        OBVIOUS
  <2>2. /\ IsNovel(q)
        /\ q.session = panel.session /\ q.count = panel.count /\ q.loading = panel.loading
        /\ q.error = panel.error /\ q.chapters = panel.chapters /\ q.active = panel.active
        /\ q.streaming = 0 /\ q.stream = panel.stream /\ q.written = panel.written
        /\ q.whole = panel.whole /\ q.ended = panel.ended
        BY <1>a, <2>1 DEF IsNovel
  <2>3. NovelOK(q)
        BY <2>2 DEF NovelOK, NovelTypes, NovelTexts, NovelOrder
  <2>4. panel.stream.index = Len(panel.written) + 1 /\ panel.stream.phase = "chapters"
        BY <1>14 DEF Story!Done, Story!Writing, NovelOK, NovelTypes, NovelTexts, NovelOrder
  <2>5. ~q.error => q.whole = 1..Len(q.written) /\ q.streaming = 0
        BY <2>2, <2>4 DEF NovelOK, NovelTypes, NovelTexts, NovelOrder
  <2>6. panel' = Story!Settled(q, "done")
        BY <1>a, <1>14, <2>1 DEF Story!Done, Story!Settled, IsNovel
  <2> QED BY <2>3, <2>5, <2>6, SettledKeeps
<1> QED BY <1>1, <1>2, <1>3, <1>4, <1>5, <1>6, <1>7, <1>8, <1>9, <1>10, <1>11, <1>12,
           <1>13, <1>14
        DEF Story!Next

-----------------------------------------------------------------------------
(* The switches of plugins                                                 *)

SwitchRequests ==
    [kind : {"fetch", "toggle"}, project : Switches!Projects, at : Nat,
     phase : {"all", "enabled", "conflicts", "sent", "stored"},
     plugin : Switches!Plugins \cup {"none"}, turn : BOOLEAN, on : SUBSET Switches!Plugins]

IsSwitches(p) ==
    p = [project |-> p.project, loaded |-> p.loaded, on |-> p.on,
         tied |-> p.tied, loading |-> p.loading, flags |-> p.flags,
         requests |-> p.requests, newest |-> p.newest, shown |-> p.shown,
         strayed |-> p.strayed, open |-> p.open, detail |-> p.detail, tab |-> p.tab,
         acts |-> p.acts]

IsFetch(r) == r.kind = "fetch"

SwitchTypes(p) ==
    /\ IsSwitches(p)
    /\ p.project \in Switches!Projects \cup {"none"}
    /\ p.loaded \in BOOLEAN /\ p.loading \in BOOLEAN /\ p.strayed \in BOOLEAN
    /\ p.on \subseteq Switches!Plugins /\ p.tied \subseteq p.on
    /\ p.flags \in [Switches!Projects -> [Switches!Plugins -> {"unset", "on", "off"}]]
    /\ p.requests \subseteq SwitchRequests
    /\ \A r \in p.requests : IsFetch(r) <=> r.phase \in {"all", "enabled", "conflicts"}
    /\ p.acts \in Nat
    /\ p.loaded \/ p.requests # {} => p.project # "none"
    /\ p.loading => \E r \in p.requests : IsFetch(r)
    /\ p.detail = "none" <=> p.open = "none"

\* Requests are told apart by what the player did for them, and none of them is
\* the one whose list is shown.
SwitchIds(p) ==
    /\ p.newest \in [Switches!Projects -> Nat]
    /\ p.shown.at \in Nat /\ p.shown.at <= p.acts
    /\ p.loaded => p.shown.at # 0 /\ p.shown.project \in Switches!Projects
    /\ \A r \in p.requests : r.at # 0 /\ r.at <= p.acts /\ r.at # p.shown.at
    /\ \A r, s \in p.requests : r.at = s.at => r = s

\* What is stored of a project will be read.
Pending(p, project) ==
    \E r \in p.requests : r.project = project /\ r.phase \in {"stored", "all", "enabled"}

\* The answer to a request is what is stored, unless a later one was read or
\* will be.
Fits(p, at, project, on) ==
    at = p.newest[project] =>
        on = Switches!Enabled(p.flags[project]) \/ Pending(p, project)

\* The list that is shown and those that were read fit what is stored; while
\* the player waits for a project's list before opening another, all of them
\* are of the open project.
SwitchOrder(p) ==
    /\ p.loaded => Fits(p, p.shown.at, p.shown.project, p.on)
    /\ \A r \in p.requests : r.phase = "conflicts" => Fits(p, r.at, r.project, r.on)
    /\ ~p.strayed =>
          /\ \A r \in p.requests : r.project = p.project
          /\ p.loaded => \/ p.shown.project = p.project
                         \/ \E r \in p.requests : IsFetch(r)

SwitchInv == SwitchTypes(panel) /\ SwitchIds(panel) /\ SwitchOrder(panel)

LEMMA SwitchProperties == SwitchInv => Switches!TypeOK /\ Switches!SwitchesAsStored
BY DEF SwitchInv, SwitchTypes, SwitchOrder, Fits, Pending, Switches!TypeOK,
       Switches!SwitchesAsStored

LEMMA EnabledArePlugins ==
    ASSUME NEW flags
    PROVE  Switches!Enabled(flags) \subseteq Switches!Plugins
BY DEF Switches!Enabled, Switches!Plugins, Switches!Required, Switches!DefaultOn

LEMMA SwitchInit == Switches!Init => SwitchInv
<1> SUFFICES ASSUME Switches!Init PROVE SwitchInv
    OBVIOUS
<1>1. /\ IsSwitches(panel)
      /\ panel.project = "none" /\ panel.loaded = FALSE /\ panel.on = {}
      /\ panel.tied = {} /\ panel.loading = FALSE /\ panel.flags = panel.flags
      /\ panel.requests = {} /\ panel.strayed = FALSE /\ panel.open = "none"
      /\ panel.detail = "none" /\ panel.acts = 0 /\ panel.shown.at = 0
      BY DEF Switches!Init, IsSwitches
<1>2. /\ panel.flags \in [Switches!Projects -> [Switches!Plugins -> {"unset", "on", "off"}]]
      /\ panel.newest \in [Switches!Projects -> Nat]
      BY DEF Switches!Init
<1>3. SwitchTypes(panel)
    <2>1. 0 \in Nat /\ FALSE \in BOOLEAN
          OBVIOUS
    <2>2. panel.acts \in Nat /\ panel.loaded \in BOOLEAN
          BY <1>1, <2>1, Zenon
    <2>3. panel.strayed \in BOOLEAN /\ panel.loading \in BOOLEAN
          BY <1>1, <2>1, Zenon
    <2> QED BY <1>1, <1>2, <2>2, <2>3 DEF SwitchTypes
<1>4. SwitchIds(panel)
      BY <1>1, <1>2 DEF SwitchIds
<1> QED BY <1>1, <1>3, <1>4 DEF SwitchInv, SwitchOrder

LEMMA ActKeeps ==
    ASSUME NEW p, SwitchTypes(p)
    PROVE  /\ IsSwitches(Switches!Act(p))
           /\ Switches!Act(p).project = p.project /\ Switches!Act(p).loaded = p.loaded
           /\ Switches!Act(p).on = p.on /\ Switches!Act(p).tied = p.tied
           /\ Switches!Act(p).loading = p.loading /\ Switches!Act(p).flags = p.flags
           /\ Switches!Act(p).requests = p.requests /\ Switches!Act(p).newest = p.newest
           /\ Switches!Act(p).shown = p.shown /\ Switches!Act(p).strayed = p.strayed
           /\ Switches!Act(p).open = p.open /\ Switches!Act(p).detail = p.detail
           /\ Switches!Act(p).acts = p.acts + 1
           /\ p.acts + 1 \in Nat
<1>1. PICK n : n = p.acts + 1
      OBVIOUS
<1>2. PICK q : q = [p EXCEPT !.acts = n]
      OBVIOUS
<1>3. Switches!Act(p) = q
      BY <1>1, <1>2 DEF Switches!Act, SwitchTypes, IsSwitches
<1>4. /\ IsSwitches(q)
      /\ q.project = p.project /\ q.loaded = p.loaded /\ q.on = p.on /\ q.tied = p.tied
      /\ q.loading = p.loading /\ q.flags = p.flags /\ q.requests = p.requests
      /\ q.newest = p.newest /\ q.shown = p.shown /\ q.strayed = p.strayed
      /\ q.open = p.open /\ q.detail = p.detail /\ q.acts = n
      BY <1>2 DEF SwitchTypes, IsSwitches
<1>5. n \in Nat
      BY <1>1 DEF SwitchTypes
<1> QED BY <1>1, <1>3, <1>4, <1>5

\* A list is asked for.
LEMMA FetchingKeeps ==
    ASSUME NEW p, SwitchTypes(p), SwitchIds(p), p.project # "none",
           NEW project \in Switches!Projects,
           NEW at \in Nat, at # 0, at <= p.acts, at # p.shown.at,
           \A r \in p.requests : r.at # at,
           \A r \in p.requests : r.phase = "conflicts" =>
              \/ Fits(p, r.at, r.project, r.on)
              \/ r.project = project,
           p.loaded => \/ Fits(p, p.shown.at, p.shown.project, p.on)
                       \/ p.shown.project = project,
           ~p.strayed => project = p.project /\ \A r \in p.requests : r.project = p.project
    PROVE  /\ SwitchTypes(Switches!Fetching(p, project, at))
           /\ SwitchIds(Switches!Fetching(p, project, at))
           /\ SwitchOrder(Switches!Fetching(p, project, at))
<1>1. PICK request : request = [kind |-> "fetch", project |-> project, at |-> at,
                                phase |-> "all", plugin |-> "none", turn |-> FALSE,
                                on |-> {}]
      OBVIOUS
<1>2. /\ request \in SwitchRequests /\ IsFetch(request) /\ request.phase = "all"
      /\ request.project = project /\ request.at = at
      BY <1>1 DEF SwitchRequests, IsFetch
<1>3. PICK q : q = Switches!Fetching(p, project, at)
      OBVIOUS
<1>4. q = [p EXCEPT !.loading = TRUE, !.requests = @ \cup {request}]
      BY <1>1, <1>3 DEF Switches!Fetching, Switches!Asked, SwitchTypes, IsSwitches
<1>5. /\ IsSwitches(q)
      /\ q.project = p.project /\ q.loaded = p.loaded /\ q.on = p.on /\ q.tied = p.tied
      /\ q.loading = TRUE /\ q.flags = p.flags /\ q.requests = p.requests \cup {request}
      /\ q.newest = p.newest /\ q.shown = p.shown /\ q.strayed = p.strayed
      /\ q.open = p.open /\ q.detail = p.detail /\ q.acts = p.acts
      BY <1>4 DEF SwitchTypes, IsSwitches
<1>6. SwitchTypes(q)
    <2>1. q.loading \in BOOLEAN
          BY <1>5
    <2>2. \A r \in q.requests : r = request \/ r \in p.requests
          BY <1>5
    <2>3. /\ q.requests \subseteq SwitchRequests
          /\ \A r \in q.requests : IsFetch(r) <=> r.phase \in {"all", "enabled", "conflicts"}
          BY <1>2, <2>2 DEF SwitchTypes
    <2>4. \E r \in q.requests : IsFetch(r)
          BY <1>2, <1>5
    <2> QED BY <1>5, <2>1, <2>3, <2>4 DEF SwitchTypes
<1>7. SwitchIds(q)
      BY <1>2, <1>5 DEF SwitchIds
<1>8. /\ Pending(q, project)
      /\ \A other : Pending(p, other) => Pending(q, other)
      BY <1>2, <1>5 DEF Pending
<1>9. SwitchOrder(q)
      BY <1>2, <1>5, <1>8 DEF SwitchOrder, Fits
<1> QED BY <1>3, <1>6, <1>7, <1>9

\* One request goes on to its next phase.
LEMMA AdvancedKeeps ==
    ASSUME NEW p, SwitchTypes(p), SwitchIds(p), NEW r \in p.requests,
           NEW next \in SwitchRequests,
           next.kind = r.kind, next.project = r.project, next.at = r.at,
           IsFetch(next) <=> next.phase \in {"all", "enabled", "conflicts"},
           NEW q, q.requests = (p.requests \ {r}) \cup {next},
           q.shown = p.shown, q.acts = p.acts, q.loaded = p.loaded,
           q.newest \in [Switches!Projects -> Nat]
    PROVE  /\ q.requests \subseteq SwitchRequests
           /\ \A s \in q.requests : IsFetch(s) <=> s.phase \in {"all", "enabled", "conflicts"}
           /\ (\E s \in p.requests : IsFetch(s)) => \E s \in q.requests : IsFetch(s)
           /\ (\A s \in p.requests : s.project = p.project) =>
                 \A s \in q.requests : s.project = p.project
           /\ SwitchIds(q)
<1>1. \A s \in q.requests : s = next \/ (s \in p.requests /\ s # r)
      OBVIOUS
<1>2. /\ q.requests \subseteq SwitchRequests
      /\ \A s \in q.requests : IsFetch(s) <=> s.phase \in {"all", "enabled", "conflicts"}
      /\ \A s \in q.requests : r = s => s = next
      BY <1>1 DEF SwitchTypes
<1>3. ASSUME NEW s \in p.requests, IsFetch(s)
      PROVE  \E u \in q.requests : IsFetch(u)
    <2>1. CASE s = r
          BY <1>3, <2>1 DEF IsFetch
    <2>2. CASE s # r
          BY <1>3, <2>2
    <2> QED BY <2>1, <2>2
<1>4. SwitchIds(q)
      BY <1>1 DEF SwitchIds
<1> QED BY <1>1, <1>2, <1>3, <1>4

\* When an answer about a project is lost, nothing that was read of it counts as
\* the newest.
LEMMA LostFits ==
    ASSUME NEW p, NEW q, NEW r \in p.requests,
           p.newest \in [Switches!Projects -> Nat], r.project \in Switches!Projects,
           q.newest = [p.newest EXCEPT ![r.project] = 0], q.flags = p.flags,
           \A s \in p.requests : s # r => s \in q.requests,
           NEW project \in Switches!Projects, NEW at, at # 0, NEW on,
           Fits(p, at, project, on)
    PROVE  Fits(q, at, project, on)
<1>1. CASE project = r.project
      BY <1>1 DEF Fits
<1>2. CASE project # r.project
  <2>1. q.newest[project] = p.newest[project]
        BY <1>2
  <2>2. Pending(p, project) => Pending(q, project)
        BY <1>2 DEF Pending
  <2> QED BY <2>1, <2>2 DEF Fits
<1> QED BY <1>1, <1>2

\* The player looks at one plugin: the switches stay as they are.
LEMMA ActedKeeps ==
    ASSUME SwitchTypes(panel), SwitchIds(panel), SwitchOrder(panel), NEW p,
           IsSwitches(p),
           p.project = panel.project, p.loaded = panel.loaded, p.on = panel.on,
           p.tied = panel.tied, p.loading = panel.loading, p.flags = panel.flags,
           p.requests = panel.requests, p.newest = panel.newest, p.shown = panel.shown,
           p.strayed = panel.strayed, p.acts = panel.acts,
           p.detail = "none" <=> p.open = "none"
    PROVE  /\ SwitchTypes(Switches!Act(p))
           /\ SwitchIds(Switches!Act(p))
           /\ SwitchOrder(Switches!Act(p))
<1>1. SwitchTypes(p)
      BY DEF SwitchTypes
<1>2. PICK q : q = Switches!Act(p)
      OBVIOUS
<1>3. /\ IsSwitches(q)
        /\ q.project = p.project /\ q.loaded = p.loaded /\ q.on = p.on
        /\ q.tied = p.tied /\ q.loading = p.loading /\ q.flags = p.flags
        /\ q.requests = p.requests /\ q.newest = p.newest /\ q.shown = p.shown
        /\ q.strayed = p.strayed /\ q.open = p.open /\ q.detail = p.detail
        /\ q.acts = p.acts + 1
      /\ p.acts + 1 \in Nat
      BY <1>1, <1>2, ActKeeps
<1>4. SwitchTypes(q)
      BY <1>1, <1>3 DEF SwitchTypes
<1>5. SwitchIds(q)
    <2>1. /\ p.acts + 1 \in Nat /\ panel.shown.at <= p.acts + 1
          /\ \A r \in panel.requests : r.at <= p.acts + 1
      <3>1. \A r \in panel.requests : r.at \in Nat /\ r.at <= p.acts
            BY DEF SwitchTypes, SwitchRequests, SwitchIds
      <3>2. p.acts \in Nat /\ panel.shown.at \in Nat /\ panel.shown.at <= p.acts
            BY DEF SwitchTypes, SwitchIds
      <3> QED BY <3>1, <3>2
    <2> QED BY <1>3, <2>1 DEF SwitchIds
<1>6. SwitchOrder(q)
      BY <1>3 DEF SwitchOrder, Fits, Pending
<1> QED BY <1>2, <1>4, <1>5, <1>6

LEMMA SwitchStep == SwitchInv /\ Switches!Next => SwitchInv'
<1> SUFFICES ASSUME SwitchTypes(panel), SwitchIds(panel), SwitchOrder(panel), Switches!Next
             PROVE  SwitchTypes(panel') /\ SwitchIds(panel') /\ SwitchOrder(panel')
    BY DEF SwitchInv
<1>a. /\ IsSwitches(panel) /\ panel.requests \subseteq SwitchRequests
      /\ \A r \in panel.requests : IsFetch(r) <=> r.phase \in {"all", "enabled", "conflicts"}
      BY DEF SwitchTypes
<1>b. \A r \in SwitchRequests : /\ r.project \in Switches!Projects /\ r.at \in Nat
                                /\ r.on \subseteq Switches!Plugins
      BY DEF SwitchRequests
<1>1. CASE Switches!OpenProject
  <2>1. PICK project \in Switches!Projects :
           panel' = Switches!Fetching(Switches!Act([panel EXCEPT !.project = project,
                                                     !.strayed = panel.requests # {}]),
                                      project, panel.acts + 1)
        BY <1>1 DEF Switches!OpenProject
  <2>2. PICK strayed \in BOOLEAN : strayed = (panel.requests # {})
        OBVIOUS
  <2>3. PICK p : p = [panel EXCEPT !.project = project, !.strayed = strayed]
        OBVIOUS
  <2>4. /\ IsSwitches(p)
        /\ p.project = project /\ p.loaded = panel.loaded /\ p.on = panel.on
        /\ p.tied = panel.tied /\ p.loading = panel.loading /\ p.flags = panel.flags
        /\ p.requests = panel.requests /\ p.newest = panel.newest
        /\ p.shown = panel.shown /\ p.strayed = strayed /\ p.open = panel.open
        /\ p.detail = panel.detail /\ p.acts = panel.acts
        BY <1>a, <2>3 DEF IsSwitches
  <2>5. SwitchTypes(p)
        BY <2>4 DEF SwitchTypes, Switches!Projects
  <2>6. PICK q : q = Switches!Act(p)
        OBVIOUS
  <2>7. /\ IsSwitches(q)
        /\ q.project = p.project /\ q.loaded = p.loaded /\ q.on = p.on
        /\ q.tied = p.tied /\ q.loading = p.loading /\ q.flags = p.flags
        /\ q.requests = p.requests /\ q.newest = p.newest /\ q.shown = p.shown
        /\ q.strayed = p.strayed /\ q.open = p.open /\ q.detail = p.detail
        /\ q.acts = p.acts + 1
        /\ p.acts + 1 \in Nat
        BY <2>5, <2>6, ActKeeps
  <2>8. SwitchTypes(q)
        BY <2>5, <2>7 DEF SwitchTypes
  <2>9. SwitchIds(q)
        BY <1>b, <1>a, <2>4, <2>7 DEF SwitchIds, SwitchTypes
  <2>10. PICK at \in Nat : at = panel.acts + 1
        BY <2>4, <2>7
  <2>11. /\ at # 0 /\ at <= q.acts /\ at # q.shown.at
         /\ \A r \in q.requests : r.at # at
        BY <1>a, <1>b, <2>4, <2>7, <2>10 DEF SwitchIds, SwitchTypes
  <2>12. /\ \A r \in q.requests : r.phase = "conflicts" => Fits(q, r.at, r.project, r.on)
         /\ q.loaded => Fits(q, q.shown.at, q.shown.project, q.on)
        BY <2>4, <2>7 DEF SwitchOrder, Fits, Pending
  <2>13. ~q.strayed => project = q.project /\ \A r \in q.requests : r.project = q.project
        BY <2>2, <2>4, <2>7
  <2>14. q.project # "none"
        BY <2>4, <2>7 DEF Switches!Projects
  <2>15. panel' = Switches!Fetching(q, project, at)
        BY <2>1, <2>2, <2>3, <2>6, <2>10
  <2> QED BY <2>8, <2>9, <2>11, <2>12, <2>13, <2>14, <2>15, FetchingKeeps
<1>2. CASE Switches!ListAnswered
  <2>1. PICK r \in panel.requests :
           /\ r.phase = "all"
           /\ panel' = Switches!Advanced(r, [r EXCEPT !.phase = "enabled"])
        BY <1>2 DEF Switches!ListAnswered
  <2>2. PICK next : next = [r EXCEPT !.phase = "enabled"]
        OBVIOUS
  <2>3. r \in SwitchRequests /\ IsFetch(r)
        BY <1>a, <2>1
  <2>4. /\ next \in SwitchRequests /\ next.kind = r.kind /\ next.project = r.project
        /\ next.at = r.at /\ next.phase = "enabled" /\ IsFetch(next)
        BY <2>2, <2>3 DEF SwitchRequests, IsFetch
  <2>5. /\ IsSwitches(panel')
        /\ panel'.project = panel.project /\ panel'.loaded = panel.loaded
        /\ panel'.on = panel.on /\ panel'.tied = panel.tied
        /\ panel'.loading = panel.loading /\ panel'.flags = panel.flags
        /\ panel'.requests = (panel.requests \ {r}) \cup {next}
        /\ panel'.newest = panel.newest /\ panel'.shown = panel.shown
        /\ panel'.strayed = panel.strayed /\ panel'.open = panel.open
        /\ panel'.detail = panel.detail /\ panel'.acts = panel.acts
        BY <1>a, <2>1, <2>2 DEF Switches!Advanced, IsSwitches
  <2>6. /\ panel'.requests \subseteq SwitchRequests
        /\ \A s \in panel'.requests : IsFetch(s) <=> s.phase \in {"all", "enabled", "conflicts"}
        /\ (\E s \in panel.requests : IsFetch(s)) => \E s \in panel'.requests : IsFetch(s)
        /\ (\A s \in panel.requests : s.project = panel.project) =>
              \A s \in panel'.requests : s.project = panel.project
        /\ SwitchIds(panel')
        BY <2>4, <2>5, AdvancedKeeps DEF SwitchIds
  <2>7. SwitchTypes(panel')
        BY <2>5, <2>6 DEF SwitchTypes
  <2>8. \A project : Pending(panel, project) => Pending(panel', project)
    <3>1. next \in panel'.requests
          BY <2>5
    <3> QED BY <2>4, <2>5, <3>1 DEF Pending
  <2>9. SwitchOrder(panel')
        BY <2>4, <2>5, <2>6, <2>8 DEF SwitchOrder, Fits
  <2> QED BY <2>6, <2>7, <2>9
<1>3. CASE Switches!EnabledAnswered
  <2>1. PICK r \in panel.requests :
           /\ r.phase = "enabled"
           /\ panel' = [Switches!Advanced(r, [r EXCEPT !.phase = "conflicts",
                           !.on = Switches!Enabled(panel.flags[r.project])])
                           EXCEPT !.newest[r.project] = r.at]
        BY <1>3 DEF Switches!EnabledAnswered
  <2>2. PICK next : next = [r EXCEPT !.phase = "conflicts",
                               !.on = Switches!Enabled(panel.flags[r.project])]
        OBVIOUS
  <2>3. r \in SwitchRequests /\ IsFetch(r)
        BY <1>a, <2>1
  <2>4. /\ next \in SwitchRequests /\ next.kind = r.kind /\ next.project = r.project
        /\ next.at = r.at /\ next.phase = "conflicts" /\ IsFetch(next)
        /\ next.on = Switches!Enabled(panel.flags[r.project])
        BY <2>2, <2>3, EnabledArePlugins DEF SwitchRequests, IsFetch
  <2>5. PICK newest : newest = [panel.newest EXCEPT ![r.project] = r.at]
        OBVIOUS
  <2>6. /\ IsSwitches(panel')
        /\ panel'.project = panel.project /\ panel'.loaded = panel.loaded
        /\ panel'.on = panel.on /\ panel'.tied = panel.tied
        /\ panel'.loading = panel.loading /\ panel'.flags = panel.flags
        /\ panel'.requests = (panel.requests \ {r}) \cup {next}
        /\ panel'.newest = newest /\ panel'.shown = panel.shown
        /\ panel'.strayed = panel.strayed /\ panel'.open = panel.open
        /\ panel'.detail = panel.detail /\ panel'.acts = panel.acts
        BY <1>a, <2>1, <2>2, <2>5 DEF Switches!Advanced, IsSwitches
  <2>7. newest \in [Switches!Projects -> Nat] /\ newest[r.project] = r.at
        BY <1>b, <2>3, <2>5 DEF SwitchIds
  <2>8. /\ panel'.requests \subseteq SwitchRequests
        /\ \A s \in panel'.requests : IsFetch(s) <=> s.phase \in {"all", "enabled", "conflicts"}
        /\ (\E s \in panel.requests : IsFetch(s)) => \E s \in panel'.requests : IsFetch(s)
        /\ (\A s \in panel.requests : s.project = panel.project) =>
              \A s \in panel'.requests : s.project = panel.project
        /\ SwitchIds(panel')
        BY <2>4, <2>6, <2>7, AdvancedKeeps
  <2>9. SwitchTypes(panel')
        BY <2>6, <2>8 DEF SwitchTypes
  <2>10. ASSUME NEW project \in Switches!Projects, project # r.project, NEW at, NEW on,
                Fits(panel, at, project, on)
         PROVE  Fits(panel', at, project, on)
    <3>1. newest[project] = panel.newest[project]
          BY <2>5, <2>7, <2>10 DEF SwitchIds
    <3>2. Pending(panel, project) => Pending(panel', project)
          BY <2>6, <2>10 DEF Pending
    <3> QED BY <2>6, <2>10, <3>1, <3>2 DEF Fits
  <2>11. panel'.loaded => Fits(panel', panel'.shown.at, panel'.shown.project, panel'.on)
    <3> SUFFICES ASSUME panel.loaded PROVE Fits(panel', panel.shown.at, panel.shown.project, panel.on)
        BY <2>6
    <3>1. panel.shown.project \in Switches!Projects /\ panel.shown.at # r.at
          BY DEF SwitchIds
    <3>2. CASE panel.shown.project = r.project
          BY <2>6, <2>7, <3>1, <3>2 DEF Fits
    <3>3. CASE panel.shown.project # r.project
          BY <2>10, <3>1, <3>3 DEF SwitchOrder
    <3> QED BY <3>2, <3>3
  <2>12. ASSUME NEW s \in panel'.requests, s.phase = "conflicts"
         PROVE  Fits(panel', s.at, s.project, s.on)
    <3>1. CASE s = next
          BY <2>4, <2>6, <3>1 DEF Fits
    <3>2. CASE s \in panel.requests /\ s # r
      <4>1. s.at # r.at /\ s.project \in Switches!Projects
            BY <1>a, <1>b, <3>2 DEF SwitchIds
      <4>2. CASE s.project = r.project
            BY <2>6, <2>7, <4>1, <4>2 DEF Fits
      <4>3. CASE s.project # r.project
            BY <2>10, <2>12, <3>2, <4>1, <4>3 DEF SwitchOrder
      <4> QED BY <4>2, <4>3
    <3> QED BY <2>6, <3>1, <3>2
  <2>13. SwitchOrder(panel')
        BY <2>6, <2>8, <2>11, <2>12 DEF SwitchOrder
  <2> QED BY <2>8, <2>9, <2>13
<1>4. CASE Switches!EnabledFails
  <2>1. PICK r \in panel.requests :
           /\ r.phase = "enabled"
           /\ panel' = [Switches!Advanced(r, [r EXCEPT !.phase = "conflicts",
                                                       !.on = Switches!Required])
                           EXCEPT !.newest[r.project] = 0]
        BY <1>4 DEF Switches!EnabledFails
  <2>2. PICK next : next = [r EXCEPT !.phase = "conflicts", !.on = Switches!Required]
        OBVIOUS
  <2>3. r \in SwitchRequests /\ IsFetch(r)
        BY <1>a, <2>1
  <2>4. /\ next \in SwitchRequests /\ next.kind = r.kind /\ next.project = r.project
        /\ next.at = r.at /\ next.phase = "conflicts" /\ IsFetch(next)
        BY <2>2, <2>3 DEF SwitchRequests, IsFetch, Switches!Required, Switches!Plugins
  <2>5. PICK newest : newest = [panel.newest EXCEPT ![r.project] = 0]
        OBVIOUS
  <2>6. /\ IsSwitches(panel')
        /\ panel'.project = panel.project /\ panel'.loaded = panel.loaded
        /\ panel'.on = panel.on /\ panel'.tied = panel.tied
        /\ panel'.loading = panel.loading /\ panel'.flags = panel.flags
        /\ panel'.requests = (panel.requests \ {r}) \cup {next}
        /\ panel'.newest = newest /\ panel'.shown = panel.shown
        /\ panel'.strayed = panel.strayed /\ panel'.open = panel.open
        /\ panel'.detail = panel.detail /\ panel'.acts = panel.acts
        BY <1>a, <2>1, <2>2, <2>5 DEF Switches!Advanced, IsSwitches
  <2>7. newest \in [Switches!Projects -> Nat] /\ newest[r.project] = 0
        BY <1>b, <2>3, <2>5 DEF SwitchIds
  <2>8. /\ panel'.requests \subseteq SwitchRequests
        /\ \A s \in panel'.requests : IsFetch(s) <=> s.phase \in {"all", "enabled", "conflicts"}
        /\ (\E s \in panel.requests : IsFetch(s)) => \E s \in panel'.requests : IsFetch(s)
        /\ (\A s \in panel.requests : s.project = panel.project) =>
              \A s \in panel'.requests : s.project = panel.project
        /\ SwitchIds(panel')
        BY <2>4, <2>6, <2>7, AdvancedKeeps
  <2>9. SwitchTypes(panel')
        BY <2>6, <2>8 DEF SwitchTypes
  <2>10. SwitchOrder(panel')
    <3>1. ASSUME NEW project \in Switches!Projects, NEW at, at # 0, NEW on,
                 Fits(panel, at, project, on)
          PROVE  Fits(panel', at, project, on)
          BY <2>3, <2>5, <2>6, <2>7, <3>1, LostFits DEF SwitchIds
    <3>2. panel'.loaded => Fits(panel', panel'.shown.at, panel'.shown.project, panel'.on)
          BY <2>6, <3>1 DEF SwitchOrder, SwitchIds
    <3>3. ASSUME NEW s \in panel'.requests, s.phase = "conflicts"
          PROVE  Fits(panel', s.at, s.project, s.on)
      <4>1. CASE s = next
            BY <1>a, <2>4, <2>6, <2>7, <4>1 DEF Fits, SwitchIds
      <4>2. CASE s \in panel.requests
            BY <1>a, <1>b, <3>1, <3>3, <4>2 DEF SwitchOrder, SwitchIds
      <4> QED BY <2>6, <4>1, <4>2
    <3> QED BY <2>6, <2>8, <3>2, <3>3 DEF SwitchOrder
  <2> QED BY <2>8, <2>9, <2>10
<1>5. CASE Switches!ListShown
  <2>1. PICK r \in panel.requests :
           /\ r.phase = "conflicts"
           /\ panel' = [panel EXCEPT !.requests = @ \ {r}, !.loaded = TRUE, !.loading = FALSE,
                          !.on = r.on, !.shown = [at |-> r.at, project |-> r.project],
                          !.tied = {plugin \in r.on : Switches!RequiredBy(plugin, r.on) # {}}]
        BY <1>5 DEF Switches!ListShown
  <2>2. PICK tied \in SUBSET r.on :
           tied = {plugin \in r.on : Switches!RequiredBy(plugin, r.on) # {}}
        OBVIOUS
  <2>3. PICK shown : shown = [at |-> r.at, project |-> r.project]
        OBVIOUS
  <2>4. /\ IsSwitches(panel')
        /\ panel'.project = panel.project /\ panel'.loaded = TRUE /\ panel'.on = r.on
        /\ panel'.tied = tied /\ panel'.loading = FALSE /\ panel'.flags = panel.flags
        /\ panel'.requests = panel.requests \ {r} /\ panel'.newest = panel.newest
        /\ panel'.shown = shown /\ panel'.strayed = panel.strayed
        /\ panel'.open = panel.open /\ panel'.detail = panel.detail
        /\ panel'.acts = panel.acts
        BY <1>a, <2>1, <2>2, <2>3 DEF IsSwitches
  <2>5. /\ r \in SwitchRequests /\ r.on \subseteq Switches!Plugins /\ r.project # "none"
        /\ shown.at = r.at /\ shown.project = r.project
        BY <1>a, <1>b, <2>3 DEF Switches!Projects
  <2>6. panel'.loading \in BOOLEAN /\ panel'.loaded \in BOOLEAN
        BY <2>4
  <2>7. SwitchTypes(panel')
        BY <2>2, <2>4, <2>5, <2>6 DEF SwitchTypes
  <2>8. SwitchIds(panel')
        BY <1>b, <2>4, <2>5 DEF SwitchIds
  <2>9. \A project : Pending(panel, project) => Pending(panel', project)
        BY <2>1, <2>4 DEF Pending
  <2>10. ASSUME NEW project, NEW at, NEW on, Fits(panel, at, project, on)
         PROVE  Fits(panel', at, project, on)
        BY <2>4, <2>9, <2>10 DEF Fits
  <2>11. /\ Fits(panel', panel'.shown.at, panel'.shown.project, panel'.on)
         /\ \A s \in panel'.requests : s.phase = "conflicts" => Fits(panel', s.at, s.project, s.on)
        BY <2>1, <2>4, <2>5, <2>10 DEF SwitchOrder
  <2>12. SwitchOrder(panel')
        BY <2>4, <2>5, <2>11 DEF SwitchOrder
  <2> QED BY <2>7, <2>8, <2>12
<1>6. CASE Switches!ListFails
  <2>1. PICK r \in panel.requests :
           panel' = [panel EXCEPT !.requests = @ \ {r}, !.loading = FALSE,
                                  !.newest[r.project] = 0, !.strayed = TRUE]
        BY <1>6 DEF Switches!ListFails
  <2>2. PICK newest : newest = [panel.newest EXCEPT ![r.project] = 0]
        OBVIOUS
  <2>3. /\ IsSwitches(panel')
        /\ panel'.project = panel.project /\ panel'.loaded = panel.loaded
        /\ panel'.on = panel.on /\ panel'.tied = panel.tied /\ panel'.loading = FALSE
        /\ panel'.flags = panel.flags /\ panel'.requests = panel.requests \ {r}
        /\ panel'.newest = newest /\ panel'.shown = panel.shown
        /\ panel'.strayed = TRUE /\ panel'.open = panel.open
        /\ panel'.detail = panel.detail /\ panel'.acts = panel.acts
        BY <1>a, <2>1, <2>2 DEF IsSwitches
  <2>4. panel'.strayed \in BOOLEAN /\ panel'.loading \in BOOLEAN
        BY <2>3
  <2>5. SwitchTypes(panel')
        BY <2>3, <2>4 DEF SwitchTypes
  <2>6. /\ newest \in [Switches!Projects -> Nat] /\ newest[r.project] = 0
        /\ r \in SwitchRequests
        BY <1>a, <1>b, <2>2 DEF SwitchIds
  <2>7. SwitchIds(panel')
        BY <2>3, <2>6 DEF SwitchIds
  <2>8. ASSUME NEW project \in Switches!Projects, NEW at, at # 0, NEW on,
               Fits(panel, at, project, on)
        PROVE  Fits(panel', at, project, on)
        BY <2>2, <2>3, <2>6, <2>8, LostFits DEF SwitchIds
  <2>9. SwitchOrder(panel')
        BY <1>a, <1>b, <2>3, <2>8 DEF SwitchOrder, SwitchIds
  <2> QED BY <2>5, <2>7, <2>9
<1>7. CASE Switches!TogglePlugin
  <2>1. PICK plugin \in Switches!Plugins :
           /\ panel.project # "none" /\ panel.loaded
           /\ panel' = Switches!Asked(Switches!Act(panel),
                          [kind |-> "toggle", project |-> panel.project,
                           at |-> panel.acts + 1, phase |-> "sent", plugin |-> plugin,
                           turn |-> plugin \notin panel.on, on |-> {}])
        BY <1>7 DEF Switches!TogglePlugin, Switches!Disabled
  <2>2. PICK q : q = Switches!Act(panel)
        OBVIOUS
  <2>3. /\ IsSwitches(q)
        /\ q.project = panel.project /\ q.loaded = panel.loaded /\ q.on = panel.on
        /\ q.tied = panel.tied /\ q.loading = panel.loading /\ q.flags = panel.flags
        /\ q.requests = panel.requests /\ q.newest = panel.newest
        /\ q.shown = panel.shown /\ q.strayed = panel.strayed /\ q.open = panel.open
        /\ q.detail = panel.detail /\ q.acts = panel.acts + 1
        /\ panel.acts + 1 \in Nat
        BY <2>2, ActKeeps
  <2>4. PICK n \in Nat : n = panel.acts + 1
        BY <2>3
  <2>5. PICK turn \in BOOLEAN : turn = (plugin \notin panel.on)
        OBVIOUS
  <2>6. PICK new : new = [kind |-> "toggle", project |-> panel.project, at |-> n,
                          phase |-> "sent", plugin |-> plugin, turn |-> turn, on |-> {}]
        OBVIOUS
  <2>7. /\ new \in SwitchRequests /\ ~IsFetch(new) /\ new.phase = "sent"
        /\ new.project = panel.project /\ new.at = n
        BY <2>1, <2>6 DEF SwitchTypes, SwitchRequests, IsFetch
  <2>8. panel' = [q EXCEPT !.requests = @ \cup {new}]
        BY <2>1, <2>2, <2>4, <2>5, <2>6 DEF Switches!Asked
  <2>9. /\ IsSwitches(panel')
        /\ panel'.project = panel.project /\ panel'.loaded = panel.loaded
        /\ panel'.on = panel.on /\ panel'.tied = panel.tied
        /\ panel'.loading = panel.loading /\ panel'.flags = panel.flags
        /\ panel'.requests = panel.requests \cup {new} /\ panel'.newest = panel.newest
        /\ panel'.shown = panel.shown /\ panel'.strayed = panel.strayed
        /\ panel'.open = panel.open /\ panel'.detail = panel.detail /\ panel'.acts = n
        BY <2>3, <2>4, <2>8 DEF IsSwitches
  <2>10. SwitchTypes(panel')
    <3>1. \A r \in panel'.requests : r = new \/ r \in panel.requests
          BY <2>9
    <3>2. /\ panel'.requests \subseteq SwitchRequests
          /\ \A r \in panel'.requests : IsFetch(r) <=> r.phase \in {"all", "enabled", "conflicts"}
          BY <1>a, <2>7, <3>1
    <3> QED BY <2>1, <2>9, <3>2 DEF SwitchTypes
  <2>11. SwitchIds(panel')
    <3>1. /\ \A r \in panel.requests : r.at \in Nat /\ r.at <= panel.acts /\ r.at # n
          /\ n # 0 /\ n > panel.acts /\ n # panel.shown.at /\ panel.shown.at <= n
          BY <1>a, <1>b, <2>4 DEF SwitchIds, SwitchTypes
    <3>2. \A r \in panel.requests : r.at <= n
          BY <2>4, <3>1 DEF SwitchTypes
    <3>3. \A r \in panel'.requests : r = new \/ r \in panel.requests
          BY <2>9
    <3>4. \A r, s \in panel'.requests : r.at = s.at => r = s
          BY <2>7, <3>1, <3>3 DEF SwitchIds
    <3>5. \A r \in panel'.requests : r.at # 0 /\ r.at <= n /\ r.at # panel.shown.at
          BY <2>7, <3>1, <3>2, <3>3 DEF SwitchIds
    <3> QED BY <2>9, <3>1, <3>4, <3>5 DEF SwitchIds
  <2>12. \A project : Pending(panel, project) => Pending(panel', project)
        BY <2>9 DEF Pending
  <2>13. ASSUME NEW project, NEW at, NEW on, Fits(panel, at, project, on)
         PROVE  Fits(panel', at, project, on)
        BY <2>9, <2>12, <2>13 DEF Fits
  <2>14. \A r \in panel'.requests : r.phase = "conflicts" => r \in panel.requests
        BY <2>7, <2>9
  <2>15. SwitchOrder(panel')
        BY <2>1, <2>7, <2>9, <2>13, <2>14 DEF SwitchOrder
  <2> QED BY <2>10, <2>11, <2>15
<1>8. CASE Switches!ToggleStored
  <2>1. PICK r \in panel.requests :
           /\ r.phase = "sent"
           /\ panel' = [Switches!Advanced(r, [r EXCEPT !.phase = "stored"])
                          EXCEPT !.flags[r.project][r.plugin] = IF r.turn THEN "on" ELSE "off"]
        BY <1>8 DEF Switches!ToggleStored
  <2>2. PICK next : next = [r EXCEPT !.phase = "stored"]
        OBVIOUS
  <2>3. r \in SwitchRequests /\ ~IsFetch(r)
        BY <1>a, <2>1
  <2>4. /\ next \in SwitchRequests /\ next.kind = r.kind /\ next.project = r.project
        /\ next.at = r.at /\ next.phase = "stored" /\ ~IsFetch(next)
        BY <2>2, <2>3 DEF SwitchRequests, IsFetch
  <2>5. PICK flag \in {"on", "off"} : flag = IF r.turn THEN "on" ELSE "off"
        OBVIOUS
  <2>6. PICK flags : flags = [panel.flags EXCEPT ![r.project][r.plugin] = flag]
        OBVIOUS
  <2>7. /\ flags \in [Switches!Projects -> [Switches!Plugins -> {"unset", "on", "off"}]]
        /\ \A project \in Switches!Projects \ {r.project} :
              flags[project] = panel.flags[project]
    <3>1. panel.flags \in [Switches!Projects -> [Switches!Plugins -> {"unset", "on", "off"}]]
          BY DEF SwitchTypes
    <3> QED BY <2>6, <3>1
  <2>8. /\ IsSwitches(panel')
        /\ panel'.project = panel.project /\ panel'.loaded = panel.loaded
        /\ panel'.on = panel.on /\ panel'.tied = panel.tied
        /\ panel'.loading = panel.loading /\ panel'.flags = flags
        /\ panel'.requests = (panel.requests \ {r}) \cup {next}
        /\ panel'.newest = panel.newest /\ panel'.shown = panel.shown
        /\ panel'.strayed = panel.strayed /\ panel'.open = panel.open
        /\ panel'.detail = panel.detail /\ panel'.acts = panel.acts
        BY <1>a, <2>1, <2>2, <2>5, <2>6 DEF Switches!Advanced, IsSwitches
  <2>9. /\ panel'.requests \subseteq SwitchRequests
        /\ \A s \in panel'.requests : IsFetch(s) <=> s.phase \in {"all", "enabled", "conflicts"}
        /\ (\E s \in panel.requests : IsFetch(s)) => \E s \in panel'.requests : IsFetch(s)
        /\ (\A s \in panel.requests : s.project = panel.project) =>
              \A s \in panel'.requests : s.project = panel.project
        /\ SwitchIds(panel')
        BY <2>4, <2>8, AdvancedKeeps DEF SwitchIds
  <2>10. SwitchTypes(panel')
        BY <2>7, <2>8, <2>9 DEF SwitchTypes
  <2>11. Pending(panel', r.project)
        BY <2>4, <2>8 DEF Pending
  <2>12. ASSUME NEW project \in Switches!Projects, NEW at, NEW on,
                Fits(panel, at, project, on)
         PROVE  Fits(panel', at, project, on)
    <3>1. CASE project = r.project
          BY <2>11, <3>1 DEF Fits
    <3>2. CASE project # r.project
      <4>1. Pending(panel, project) => Pending(panel', project)
            BY <2>8, <3>2 DEF Pending
      <4> QED BY <2>7, <2>8, <2>12, <3>2, <4>1 DEF Fits
    <3> QED BY <3>1, <3>2
  <2>13. SwitchOrder(panel')
        BY <1>a, <1>b, <2>4, <2>8, <2>9, <2>12 DEF SwitchOrder, SwitchIds
  <2> QED BY <2>9, <2>10, <2>13
<1>9. CASE Switches!ToggleAnswered
  <2>1. PICK r \in panel.requests :
           /\ r.phase = "stored"
           /\ panel' = Switches!Fetching([panel EXCEPT !.requests = @ \ {r}], r.project, r.at)
        BY <1>9 DEF Switches!ToggleAnswered
  <2>2. PICK p : p = [panel EXCEPT !.requests = @ \ {r}]
        OBVIOUS
  <2>3. /\ IsSwitches(p)
        /\ p.project = panel.project /\ p.loaded = panel.loaded /\ p.on = panel.on
        /\ p.tied = panel.tied /\ p.loading = panel.loading /\ p.flags = panel.flags
        /\ p.requests = panel.requests \ {r} /\ p.newest = panel.newest
        /\ p.shown = panel.shown /\ p.strayed = panel.strayed /\ p.open = panel.open
        /\ p.detail = panel.detail /\ p.acts = panel.acts
        BY <1>a, <2>2 DEF IsSwitches
  <2>4. SwitchTypes(p)
    <3>1. ~IsFetch(r)
          BY <1>a, <2>1
    <3> QED BY <2>3, <3>1 DEF SwitchTypes
  <2>5. /\ r.project \in Switches!Projects /\ p.project # "none" /\ r.at \in Nat
        BY <1>a, <1>b, <2>3 DEF SwitchTypes
  <2>6. SwitchIds(p)
        BY <2>3 DEF SwitchIds
  <2>7. /\ r.at # 0 /\ r.at <= p.acts /\ r.at # p.shown.at
        /\ \A s \in p.requests : s.at # r.at
        BY <2>3 DEF SwitchIds
  <2>8. ASSUME NEW project, project # r.project, NEW at, NEW on,
               Fits(panel, at, project, on)
        PROVE  Fits(p, at, project, on)
        BY <2>3, <2>8 DEF Fits, Pending
  <2>9. /\ \A s \in p.requests : s.phase = "conflicts" =>
              \/ Fits(p, s.at, s.project, s.on)
              \/ s.project = r.project
        /\ p.loaded => \/ Fits(p, p.shown.at, p.shown.project, p.on)
                       \/ p.shown.project = r.project
        /\ ~p.strayed => r.project = p.project /\ \A s \in p.requests : s.project = p.project
        BY <2>3, <2>8 DEF SwitchOrder
  <2> QED BY <2>1, <2>2, <2>4, <2>5, <2>6, <2>7, <2>9, FetchingKeeps
<1>10. CASE Switches!ToggleFails
  <2>1. PICK r \in panel.requests :
           /\ r.phase \in {"sent", "stored"}
           /\ panel' = [panel EXCEPT !.requests = @ \ {r},
                                     !.newest[r.project] = IF r.phase = "stored" THEN 0 ELSE @]
        BY <1>10 DEF Switches!ToggleFails
  <2>2. PICK n : n = IF r.phase = "stored" THEN 0 ELSE panel.newest[r.project]
        OBVIOUS
  <2>3. PICK newest : newest = [panel.newest EXCEPT ![r.project] = n]
        OBVIOUS
  <2>4. /\ IsSwitches(panel')
        /\ panel'.project = panel.project /\ panel'.loaded = panel.loaded
        /\ panel'.on = panel.on /\ panel'.tied = panel.tied
        /\ panel'.loading = panel.loading /\ panel'.flags = panel.flags
        /\ panel'.requests = panel.requests \ {r} /\ panel'.newest = newest
        /\ panel'.shown = panel.shown /\ panel'.strayed = panel.strayed
        /\ panel'.open = panel.open /\ panel'.detail = panel.detail
        /\ panel'.acts = panel.acts
        BY <1>a, <2>1, <2>2, <2>3 DEF IsSwitches
  <2>5. ~IsFetch(r) /\ r \in SwitchRequests
        BY <1>a, <2>1
  <2>6. SwitchTypes(panel')
        BY <2>4, <2>5 DEF SwitchTypes
  <2>7. /\ newest \in [Switches!Projects -> Nat]
        /\ r.phase = "stored" => newest[r.project] = 0
        /\ \A project \in Switches!Projects :
              project # r.project \/ r.phase # "stored" => newest[project] = panel.newest[project]
        BY <1>b, <2>2, <2>3, <2>5 DEF SwitchIds
  <2>8. SwitchIds(panel')
        BY <2>4, <2>7 DEF SwitchIds
  <2>9. ASSUME NEW project \in Switches!Projects, NEW at, at # 0, NEW on,
               Fits(panel, at, project, on)
        PROVE  Fits(panel', at, project, on)
    <3>1. CASE project = r.project /\ r.phase = "stored"
          BY <2>4, <2>7, <2>9, <3>1 DEF Fits
    <3>2. CASE project # r.project \/ r.phase # "stored"
      <4>1. Pending(panel, project) => Pending(panel', project)
            BY <2>1, <2>4, <3>2 DEF Pending
      <4> QED BY <2>4, <2>7, <2>9, <3>2, <4>1 DEF Fits
    <3> QED BY <3>1, <3>2
  <2>10. SwitchOrder(panel')
        BY <1>a, <1>b, <2>4, <2>5, <2>9 DEF SwitchOrder, SwitchIds
  <2> QED BY <2>6, <2>8, <2>10
<1>11. CASE Switches!Expand
  <2>1. PICK open, detail, tab :
           /\ detail = "none" <=> open = "none"
           /\ panel' = Switches!Act([panel EXCEPT !.open = open, !.detail = detail, !.tab = tab])
    <3>1. PICK plugin \in Switches!Plugins :
             panel' = IF panel.open = plugin
                      THEN Switches!Act([panel EXCEPT !.open = "none", !.detail = "none"])
                      ELSE Switches!Act([panel EXCEPT !.open = plugin, !.detail = "loading",
                                                      !.tab = "prompt"])
          BY <1>11 DEF Switches!Expand
    <3>2. [panel EXCEPT !.open = "none", !.detail = "none"]
            = [panel EXCEPT !.open = "none", !.detail = "none", !.tab = panel.tab]
          BY <1>a DEF IsSwitches
    <3> QED BY <3>1, <3>2 DEF Switches!Plugins
  <2>2. PICK p : p = [panel EXCEPT !.open = open, !.detail = detail, !.tab = tab]
        OBVIOUS
  <2>3. /\ IsSwitches(p)
        /\ p.project = panel.project /\ p.loaded = panel.loaded /\ p.on = panel.on
        /\ p.tied = panel.tied /\ p.loading = panel.loading /\ p.flags = panel.flags
        /\ p.requests = panel.requests /\ p.newest = panel.newest
        /\ p.shown = panel.shown /\ p.strayed = panel.strayed /\ p.open = open
        /\ p.detail = detail /\ p.acts = panel.acts
        BY <1>a, <2>2 DEF IsSwitches
  <2> QED BY <2>1, <2>2, <2>3, ActedKeeps
<1>12. CASE Switches!DetailAnswered
  <2>1. PICK detail \in {"shown", "failed"} : panel' = [panel EXCEPT !.detail = detail]
        BY <1>12 DEF Switches!DetailAnswered
  <2>2. /\ IsSwitches(panel')
        /\ panel'.project = panel.project /\ panel'.loaded = panel.loaded
        /\ panel'.on = panel.on /\ panel'.tied = panel.tied
        /\ panel'.loading = panel.loading /\ panel'.flags = panel.flags
        /\ panel'.requests = panel.requests /\ panel'.newest = panel.newest
        /\ panel'.shown = panel.shown /\ panel'.strayed = panel.strayed
        /\ panel'.open = panel.open /\ panel'.detail = detail
        /\ panel'.acts = panel.acts
        BY <1>a, <2>1 DEF IsSwitches
  <2>3. panel.detail = "loading"
        BY <1>12 DEF Switches!DetailAnswered
  <2> QED BY <2>2, <2>3 DEF SwitchTypes, SwitchIds, SwitchOrder, Fits, Pending
<1>13. CASE Switches!ChooseTab
  <2>1. PICK tab : panel' = Switches!Act([panel EXCEPT !.tab = tab])
        BY <1>13 DEF Switches!ChooseTab
  <2>2. PICK p : p = [panel EXCEPT !.tab = tab]
        OBVIOUS
  <2>3. /\ IsSwitches(p)
        /\ p.project = panel.project /\ p.loaded = panel.loaded /\ p.on = panel.on
        /\ p.tied = panel.tied /\ p.loading = panel.loading /\ p.flags = panel.flags
        /\ p.requests = panel.requests /\ p.newest = panel.newest
        /\ p.shown = panel.shown /\ p.strayed = panel.strayed /\ p.open = panel.open
        /\ p.detail = panel.detail /\ p.acts = panel.acts
        BY <1>a, <2>2 DEF IsSwitches
  <2>4. p.detail = "none" <=> p.open = "none"
        BY <2>3 DEF SwitchTypes
  <2> QED BY <2>1, <2>2, <2>3, <2>4, ActedKeeps
<1> QED BY <1>1, <1>2, <1>3, <1>4, <1>5, <1>6, <1>7, <1>8, <1>9, <1>10,
           <1>11, <1>12, <1>13
        DEF Switches!Next

-----------------------------------------------------------------------------
(* The settings of a game                                                  *)

RuntimeValues == {"none", "low", "blank", "wide"}

RuntimeRows == [Runtime!Keys -> RuntimeValues]

RuntimeOverrides == [Runtime!Scopes -> RuntimeRows]

RuntimeRequests ==
    [kind : {"get", "patch"}, at : Nat, asker : Runtime!Sessions,
     session : Runtime!Sessions, ends : BOOLEAN, key : Runtime!Keys \cup {"none"},
     value : RuntimeValues, scope : Runtime!Scopes,
     phase : {"sent", "read", "stored", "answered"}, row : RuntimeRows,
     over : RuntimeOverrides]

\* A request for the settings is in no phase of a change, and what a request is
\* made for is the session it was made in, or none.
ProperRequest(r) ==
    /\ r \in RuntimeRequests
    /\ r.kind = "get" => r.phase \in {"sent", "answered"}
    /\ r.kind = "patch" => r.key \in Runtime!Keys
    /\ r.kind = "patch" /\ r.scope = "session" => r.session # "none"
    /\ r.session \in {"none", r.asker}

IsRuntime(p) ==
    p = [mounted |-> p.mounted, session |-> p.session, scope |-> p.scope,
         rows |-> p.rows, listed |-> p.listed, over |-> p.over,
         values |-> p.values, saving |-> p.saving, requests |-> p.requests,
         newest |-> p.newest, shown |-> p.shown, strayed |-> p.strayed, acts |-> p.acts]

RuntimeTypes(p) ==
    /\ IsRuntime(p)
    /\ p.session \in Runtime!Sessions /\ p.listed \in BOOLEAN /\ p.strayed \in BOOLEAN
    /\ p.acts \in Nat
    /\ p.rows \in [Runtime!Owners -> RuntimeRows]
    /\ p.over \in RuntimeOverrides
    /\ p.values \in [Runtime!Keys -> RuntimeValues \cup {"usual"}]
    /\ \A r \in p.requests : ProperRequest(r)
    /\ p.saving \in Runtime!Keys \cup {"none"}
    /\ p.scope \in Runtime!Scopes
    /\ p.scope = "session" => p.session # "none"

\* Requests are told apart by what the player did for them, and none of them is
\* the one whose answer is shown.
RuntimeIds(p) ==
    /\ p.newest \in Nat
    /\ p.shown.at \in Nat /\ p.shown.at <= p.acts
    /\ p.shown.session \in Runtime!Sessions
    /\ p.listed => p.shown.at # 0
    /\ \A r \in p.requests : r.at # 0 /\ r.at <= p.acts /\ r.at # p.shown.at
    /\ \A r, s \in p.requests : r.at = s.at => r = s

\* The backend will answer again.
Waiting(p) == \E r \in p.requests : r.phase # "answered"

\* The answer to a request has what is stored for its session, unless a later
\* one was given or will be.
AnswerFits(p, at, session, over) ==
    at = p.newest => Waiting(p) \/ over = Runtime!Overrides(p.rows, session)

\* The answer that is shown and those on their way fit what is stored, a field
\* that is being saved waits for a request, and while the player waits for the
\* settings of a session before going to another, none is of another.
RuntimeOrder(p) ==
    /\ p.listed => /\ AnswerFits(p, p.shown.at, p.shown.session, p.over)
                   /\ p.shown.at = p.newest =>
                         Waiting(p) \/ p.values = Runtime!Effective(p.over)
    /\ \A r \in p.requests : r.phase = "answered" => AnswerFits(p, r.at, r.session, r.over)
    /\ p.saving # "none" => \E r \in p.requests : r.ends
    /\ ~p.strayed =>
          /\ \A r \in p.requests : r.asker = p.session
          /\ p.listed => \/ p.shown.session \in {"none", p.session}
                         \/ \E r \in p.requests : r.kind = "get"

RuntimeInv == RuntimeTypes(panel) /\ RuntimeIds(panel) /\ RuntimeOrder(panel)

LEMMA RuntimeProperties == RuntimeInv => Runtime!TypeOK /\ Runtime!ShownAsStored
<1> SUFFICES ASSUME RuntimeInv PROVE Runtime!TypeOK /\ Runtime!ShownAsStored
    OBVIOUS
<1>1. ASSUME NEW key \in Runtime!Keys
      PROVE  {panel.rows[owner][key] : owner \in Runtime!Owners} \cup
             {panel.over[scope][key] : scope \in Runtime!Scopes} \cup {panel.values[key]}
                \subseteq {"none", "low", "blank", "wide", "usual"}
    <2>1. \A owner \in Runtime!Owners : panel.rows[owner] \in RuntimeRows
          BY DEF RuntimeInv, RuntimeTypes
    <2>2. \A scope \in Runtime!Scopes : panel.over[scope] \in RuntimeRows
          BY DEF RuntimeInv, RuntimeTypes, RuntimeOverrides
    <2>3. panel.values[key] \in RuntimeValues \cup {"usual"}
          BY DEF RuntimeInv, RuntimeTypes
    <2>4. /\ \A owner \in Runtime!Owners : panel.rows[owner][key] \in RuntimeValues
          /\ \A scope \in Runtime!Scopes : panel.over[scope][key] \in RuntimeValues
          BY <2>1, <2>2 DEF RuntimeRows
    <2> QED BY <2>3, <2>4 DEF RuntimeValues
<1>2. Runtime!TypeOK
      BY <1>1 DEF RuntimeInv, RuntimeTypes, Runtime!TypeOK
<1>3. Runtime!ShownAsStored
      BY DEF RuntimeInv, RuntimeOrder, AnswerFits, Waiting, Runtime!ShownAsStored
<1> QED BY <1>2, <1>3

LEMMA UnsetIsRow ==
    Runtime!Unset \in RuntimeRows /\ Runtime!NoOverrides \in RuntimeOverrides
BY DEF Runtime!Unset, Runtime!NoOverrides, RuntimeRows, RuntimeOverrides, RuntimeValues

LEMMA OverridesAreRows ==
    ASSUME NEW rows \in [Runtime!Owners -> RuntimeRows], NEW session \in Runtime!Sessions
    PROVE  Runtime!Overrides(rows, session) \in RuntimeOverrides
BY UnsetIsRow DEF Runtime!Overrides, Runtime!Scopes, Runtime!Sessions, Runtime!Owners,
                  RuntimeOverrides

LEMMA EffectiveAreValues ==
    ASSUME NEW over \in RuntimeOverrides
    PROVE  Runtime!Effective(over) \in [Runtime!Keys -> RuntimeValues \cup {"usual"}]
<1> SUFFICES ASSUME NEW key \in Runtime!Keys
             PROVE  (IF over["session"][key] # "none" THEN over["session"][key]
                     ELSE IF over["project"][key] # "none" THEN over["project"][key]
                     ELSE "usual") \in RuntimeValues \cup {"usual"}
    BY DEF Runtime!Effective
<1>1. over["session"] \in RuntimeRows /\ over["project"] \in RuntimeRows
      BY DEF Runtime!Scopes, RuntimeOverrides
<1>2. over["session"][key] \in RuntimeValues /\ over["project"][key] \in RuntimeValues
      BY <1>1 DEF RuntimeRows
<1> QED BY <1>2

LEMMA RuntimeInit == Runtime!Init => RuntimeInv
<1> SUFFICES ASSUME Runtime!Init PROVE RuntimeInv
    OBVIOUS
<1>1. /\ IsRuntime(panel)
      /\ panel.session = "none" /\ panel.scope = "project" /\ panel.rows = Runtime!NoRows
      /\ panel.listed = FALSE /\ panel.over = Runtime!NoOverrides
      /\ panel.values = Runtime!Unset /\ panel.saving = "none" /\ panel.requests = {}
      /\ panel.newest = 0 /\ panel.shown.at = 0 /\ panel.shown.session = "none"
      /\ panel.strayed = FALSE /\ panel.acts = 0
      BY DEF Runtime!Init, IsRuntime
<1>2. Runtime!NoRows \in [Runtime!Owners -> RuntimeRows]
      BY UnsetIsRow DEF Runtime!NoRows
<1>3. Runtime!Unset \in [Runtime!Keys -> RuntimeValues \cup {"usual"}]
      BY DEF Runtime!Unset, RuntimeValues
<1>4. 0 \in Nat /\ FALSE \in BOOLEAN
      OBVIOUS
<1>5. panel.acts \in Nat /\ panel.session \in Runtime!Sessions
      BY <1>1 DEF Runtime!Sessions
<1>6. panel.listed \in BOOLEAN /\ panel.strayed \in BOOLEAN
      BY <1>1, <1>4, Zenon
<1>7. RuntimeTypes(panel)
      BY <1>1, <1>2, <1>3, <1>5, <1>6, UnsetIsRow DEF RuntimeTypes, Runtime!Scopes
<1>8. RuntimeIds(panel) /\ RuntimeOrder(panel)
      BY <1>1 DEF RuntimeIds, RuntimeOrder, Runtime!Sessions
<1> QED BY <1>7, <1>8 DEF RuntimeInv

\* The player does something: what may have been asked before stays apart from
\* what is asked now.
LEMMA RuntimeActed ==
    ASSUME NEW p, RuntimeTypes(p), RuntimeIds(p), NEW q, q = Runtime!Act(p)
    PROVE  /\ RuntimeTypes(q) /\ RuntimeIds(q)
           /\ IsRuntime(q)
           /\ q.session = p.session /\ q.scope = p.scope /\ q.rows = p.rows
           /\ q.listed = p.listed /\ q.over = p.over /\ q.values = p.values
           /\ q.saving = p.saving /\ q.requests = p.requests /\ q.newest = p.newest
           /\ q.shown = p.shown /\ q.strayed = p.strayed /\ q.acts = p.acts + 1
           /\ q.acts \in Nat /\ q.acts # 0 /\ q.acts # q.shown.at
           /\ \A r \in q.requests : r.at # q.acts
<1>1. PICK n : n = p.acts + 1
      OBVIOUS
<1>2. q = [p EXCEPT !.acts = n]
      BY <1>1 DEF Runtime!Act, RuntimeTypes, IsRuntime
<1>3. /\ IsRuntime(q)
      /\ q.session = p.session /\ q.scope = p.scope /\ q.rows = p.rows
      /\ q.listed = p.listed /\ q.over = p.over /\ q.values = p.values
      /\ q.saving = p.saving /\ q.requests = p.requests /\ q.newest = p.newest
      /\ q.shown = p.shown /\ q.strayed = p.strayed /\ q.acts = n
      BY <1>2 DEF RuntimeTypes, IsRuntime
<1>4. \A r \in p.requests : r.at \in Nat /\ r.at <= p.acts
      BY DEF RuntimeTypes, RuntimeIds, ProperRequest, RuntimeRequests
<1>5. p.acts \in Nat /\ p.shown.at \in Nat /\ p.shown.at <= p.acts
      BY DEF RuntimeTypes, RuntimeIds
<1>6. /\ n \in Nat /\ n # 0 /\ p.shown.at <= n /\ n # p.shown.at
      /\ \A r \in p.requests : r.at <= n /\ r.at # n
      BY <1>1, <1>4, <1>5
<1>7. RuntimeTypes(q)
      BY <1>3, <1>6 DEF RuntimeTypes
<1>8. RuntimeIds(q)
      BY <1>3, <1>6 DEF RuntimeIds
<1> QED BY <1>1, <1>3, <1>6, <1>7, <1>8

\* After a request nothing is known of what is shown, until it is answered.
LEMMA RuntimeAsked ==
    ASSUME NEW p, RuntimeTypes(p), RuntimeIds(p), NEW request, ProperRequest(request),
           request.phase = "sent", request.at # 0, request.at <= p.acts,
           request.at # p.shown.at, \A r \in p.requests : r.at # request.at,
           p.saving # "none" => request.ends \/ \E r \in p.requests : r.ends,
           ~p.strayed =>
              /\ \A r \in p.requests \cup {request} : r.asker = p.session
              /\ p.listed => \/ p.shown.session \in {"none", p.session}
                             \/ \E r \in p.requests \cup {request} : r.kind = "get",
           NEW q, q = Runtime!Asked(p, request)
    PROVE  RuntimeTypes(q) /\ RuntimeIds(q) /\ RuntimeOrder(q)
<1>1. q = [p EXCEPT !.requests = @ \cup {request}]
      BY DEF Runtime!Asked
<1>2. /\ IsRuntime(q)
      /\ q.session = p.session /\ q.scope = p.scope /\ q.rows = p.rows
      /\ q.listed = p.listed /\ q.over = p.over /\ q.values = p.values
      /\ q.saving = p.saving /\ q.requests = p.requests \cup {request}
      /\ q.newest = p.newest /\ q.shown = p.shown /\ q.strayed = p.strayed
      /\ q.acts = p.acts
      BY <1>1 DEF RuntimeTypes, IsRuntime
<1>3. RuntimeTypes(q)
      BY <1>2 DEF RuntimeTypes
<1>4. RuntimeIds(q)
      BY <1>2 DEF RuntimeIds
<1>5. Waiting(q)
      BY <1>2 DEF Waiting
<1>6. RuntimeOrder(q)
      BY <1>2, <1>5 DEF RuntimeOrder, AnswerFits
<1> QED BY <1>3, <1>4, <1>6

LEMMA GetIsProper ==
    ASSUME NEW at \in Nat, NEW session \in Runtime!Sessions, NEW ends \in BOOLEAN
    PROVE  /\ ProperRequest(Runtime!Get(at, session, ends))
           /\ Runtime!Get(at, session, ends).ends = ends
           /\ Runtime!Get(at, session, ends).at = at
           /\ Runtime!Get(at, session, ends).asker = session
           /\ Runtime!Get(at, session, ends).session = session
           /\ Runtime!Get(at, session, ends).kind = "get"
           /\ Runtime!Get(at, session, ends).phase = "sent"
BY UnsetIsRow DEF Runtime!Get, ProperRequest, RuntimeRequests, Runtime!Scopes, RuntimeValues

\* The panel asks again, with what the player did for it.
LEMMA RuntimeRefreshed ==
    ASSUME NEW p, RuntimeTypes(p), RuntimeIds(p),
           p.acts \in Nat, p.acts # 0, p.acts # p.shown.at,
           \A r \in p.requests : r.at # p.acts,
           p.saving # "none" => \E r \in p.requests : r.ends,
           ~p.strayed => \A r \in p.requests : r.asker = p.session,
           NEW q, q = Runtime!Refreshed(p)
    PROVE  RuntimeTypes(q) /\ RuntimeIds(q) /\ RuntimeOrder(q)
<1>1. PICK get : get = Runtime!Get(p.acts, p.session, FALSE)
      OBVIOUS
<1>2. /\ ProperRequest(get) /\ get.at = p.acts /\ get.asker = p.session
      /\ get.kind = "get" /\ get.phase = "sent"
    <2>1. /\ FALSE \in BOOLEAN /\ p.session \in Runtime!Sessions
          /\ p.acts \in Nat
          BY DEF RuntimeTypes
    <2>2. PICK ends \in BOOLEAN : ends = FALSE
          BY <2>1
    <2>3. get = Runtime!Get(p.acts, p.session, ends)
          BY <1>1, <2>2
    <2> QED BY <2>1, <2>3, GetIsProper
<1>3. p.acts <= p.acts
      OBVIOUS
<1> QED BY <1>1, <1>2, <1>3, RuntimeAsked DEF Runtime!Refreshed

\* One request goes on to its next phase, or is a request again.
LEMMA RuntimeStepped ==
    ASSUME NEW p, RuntimeTypes(p), RuntimeIds(p), RuntimeOrder(p), NEW r \in p.requests,
           NEW next, ProperRequest(next), next.at = r.at, next.asker = r.asker,
           r.ends => next.ends, r.kind = "get" => next.kind = "get",
           NEW q, q.requests = (p.requests \ {r}) \cup {next},
           q.shown = p.shown, q.acts = p.acts, q.listed = p.listed, q.newest \in Nat,
           q.saving = p.saving, q.session = p.session, q.strayed = p.strayed
    PROVE  /\ RuntimeIds(q)
           /\ \A s \in q.requests : ProperRequest(s)
           /\ \A s \in q.requests : s = next \/ (s \in p.requests /\ s.at # r.at)
           /\ q.saving # "none" => \E s \in q.requests : s.ends
           /\ ~q.strayed =>
                 /\ \A s \in q.requests : s.asker = q.session
                 /\ q.listed => \/ q.shown.session \in {"none", q.session}
                                \/ \E s \in q.requests : s.kind = "get"
<1>1. \A s \in q.requests : s = next \/ (s \in p.requests /\ s # r)
      OBVIOUS
<1>2. \A s \in q.requests : s = next \/ (s \in p.requests /\ s.at # r.at)
      BY <1>1 DEF RuntimeIds
<1>3. RuntimeIds(q)
      BY <1>2 DEF RuntimeIds
<1>4. \A s \in q.requests : ProperRequest(s)
      BY <1>1 DEF RuntimeTypes
<1>5. \A s \in p.requests : s = r \/ s \in q.requests
      OBVIOUS
<1>6. q.saving # "none" => \E s \in q.requests : s.ends
      BY <1>5 DEF RuntimeOrder
<1>7. (\E s \in p.requests : s.kind = "get") => \E s \in q.requests : s.kind = "get"
      BY <1>5
<1>8. ~q.strayed =>
         /\ \A s \in q.requests : s.asker = q.session
         /\ q.listed => \/ q.shown.session \in {"none", q.session}
                        \/ \E s \in q.requests : s.kind = "get"
      BY <1>1, <1>7 DEF RuntimeOrder
<1> QED BY <1>2, <1>3, <1>4, <1>6, <1>8

\* While a request is still to be answered nothing is said of what is shown.
LEMMA RuntimeWaits ==
    ASSUME NEW p, RuntimeTypes(p), RuntimeIds(p), RuntimeOrder(p), NEW r \in p.requests,
           NEW next, ProperRequest(next), next.at = r.at, next.asker = r.asker,
           r.ends => next.ends, r.kind = "get" => next.kind = "get",
           next.phase # "answered", NEW q, NEW rows \in [Runtime!Owners -> RuntimeRows],
           IsRuntime(q),
           q.session = p.session, q.scope = p.scope, q.rows = rows,
           q.listed = p.listed, q.over = p.over, q.values = p.values,
           q.saving = p.saving, q.requests = (p.requests \ {r}) \cup {next}, q.newest = p.newest,
           q.shown = p.shown, q.strayed = p.strayed, q.acts = p.acts
    PROVE  RuntimeTypes(q) /\ RuntimeIds(q) /\ RuntimeOrder(q)
<1>1. /\ RuntimeIds(q)
      /\ \A s \in q.requests : ProperRequest(s)
      /\ q.saving # "none" => \E s \in q.requests : s.ends
      /\ ~q.strayed =>
            /\ \A s \in q.requests : s.asker = q.session
            /\ q.listed => \/ q.shown.session \in {"none", q.session}
                           \/ \E s \in q.requests : s.kind = "get"
      BY RuntimeStepped DEF RuntimeIds
<1>2. RuntimeTypes(q)
      BY <1>1 DEF RuntimeTypes
<1>3. Waiting(q)
      BY DEF Waiting
<1>4. RuntimeOrder(q)
      BY <1>1, <1>3 DEF RuntimeOrder, AnswerFits
<1> QED BY <1>1, <1>2, <1>4

LEMMA OwnerIsOne ==
    ASSUME NEW r, ProperRequest(r), r.kind = "patch"
    PROVE  Runtime!Owner(r) \in Runtime!Owners
BY DEF ProperRequest, RuntimeRequests, Runtime!Owner, Runtime!Owners, Runtime!Sessions

\* An answer is taken: what is shown is what it has.
LEMMA RuntimeTaken ==
    ASSUME NEW p, RuntimeTypes(p), RuntimeIds(p), RuntimeOrder(p), NEW r \in p.requests,
           r.phase = "answered", NEW listed \in BOOLEAN,
           NEW q, q = [Runtime!Taken(p, r) EXCEPT !.listed = listed]
    PROVE  RuntimeTypes(q) /\ RuntimeIds(q) /\ RuntimeOrder(q)
<1>1. /\ r.ends \in BOOLEAN /\ r.over \in RuntimeOverrides /\ r.session \in Runtime!Sessions
      /\ r.at \in Nat /\ r.session \in {"none", r.asker}
      BY DEF RuntimeTypes, ProperRequest, RuntimeRequests
<1>2. PICK values \in [Runtime!Keys -> RuntimeValues \cup {"usual"}] :
         values = Runtime!Effective(r.over)
      BY <1>1, EffectiveAreValues
<1>3. PICK saving : saving = IF r.ends THEN "none" ELSE p.saving
      OBVIOUS
<1>4. PICK shown : shown = [at |-> r.at, session |-> r.session]
      OBVIOUS
<1>5. q = [p EXCEPT !.requests = @ \ {r}, !.over = r.over, !.values = values,
                    !.shown = shown, !.saving = saving, !.listed = listed]
      BY <1>2, <1>3, <1>4 DEF Runtime!Taken, RuntimeTypes, IsRuntime
<1>6. /\ IsRuntime(q)
      /\ q.session = p.session /\ q.scope = p.scope /\ q.rows = p.rows
      /\ q.listed = listed /\ q.over = r.over /\ q.values = values
      /\ q.saving = saving /\ q.requests = p.requests \ {r} /\ q.newest = p.newest
      /\ q.shown = shown /\ q.strayed = p.strayed /\ q.acts = p.acts
      BY <1>5 DEF RuntimeTypes, IsRuntime
<1>7. shown.at = r.at /\ shown.session = r.session
      BY <1>4
<1>8. RuntimeTypes(q)
      BY <1>1, <1>2, <1>3, <1>6 DEF RuntimeTypes
<1>9. RuntimeIds(q)
      BY <1>1, <1>6, <1>7 DEF RuntimeIds
<1>10. Waiting(p) => Waiting(q)
      BY <1>6 DEF Waiting
<1>11. \A at, session, over : AnswerFits(p, at, session, over) => AnswerFits(q, at, session, over)
      BY <1>6, <1>10 DEF AnswerFits
<1>12. AnswerFits(q, q.shown.at, q.shown.session, q.over)
      BY <1>6, <1>7, <1>11 DEF RuntimeOrder
<1>13. \A s \in q.requests : s.phase = "answered" => AnswerFits(q, s.at, s.session, s.over)
      BY <1>6, <1>11 DEF RuntimeOrder
<1>14. q.saving # "none" => \E s \in q.requests : s.ends
      BY <1>1, <1>3, <1>6 DEF RuntimeOrder
<1>15. ~q.strayed => /\ \A s \in q.requests : s.asker = q.session
                     /\ q.shown.session \in {"none", q.session}
      BY <1>1, <1>6, <1>7 DEF RuntimeOrder
<1>16. RuntimeOrder(q)
      BY <1>2, <1>6, <1>12, <1>13, <1>14, <1>15 DEF RuntimeOrder
<1> QED BY <1>8, <1>9, <1>16

\* A change of a field, also a reset: the value is shown at once.
LEMMA RuntimeChanged ==
    ASSUME RuntimeTypes(panel), RuntimeIds(panel), RuntimeOrder(panel),
           NEW key \in Runtime!Keys, NEW value \in RuntimeValues,
           NEW q, q = Runtime!Changed(panel, key, value)
    PROVE  RuntimeTypes(q) /\ RuntimeIds(q) /\ RuntimeOrder(q)
<1>1. PICK p : p = Runtime!Act(panel)
      OBVIOUS
<1>2. /\ RuntimeTypes(p) /\ RuntimeIds(p)
      /\ IsRuntime(p)
      /\ p.session = panel.session /\ p.scope = panel.scope /\ p.rows = panel.rows
      /\ p.listed = panel.listed /\ p.over = panel.over /\ p.values = panel.values
      /\ p.saving = panel.saving /\ p.requests = panel.requests
      /\ p.newest = panel.newest /\ p.shown = panel.shown
      /\ p.strayed = panel.strayed /\ p.acts = panel.acts + 1
      /\ p.acts \in Nat /\ p.acts # 0 /\ p.acts # p.shown.at
      /\ \A r \in p.requests : r.at # p.acts
      BY <1>1, RuntimeActed
<1>3. PICK values : values = [p.values EXCEPT ![key] = value]
      OBVIOUS
<1>4. values \in [Runtime!Keys -> RuntimeValues \cup {"usual"}]
      BY <1>2, <1>3 DEF RuntimeTypes
<1>5. PICK u : u = [p EXCEPT !.saving = key, !.values = values]
      OBVIOUS
<1>6. /\ IsRuntime(u)
      /\ u.session = p.session /\ u.scope = p.scope /\ u.rows = p.rows
      /\ u.listed = p.listed /\ u.over = p.over /\ u.values = values
      /\ u.saving = key /\ u.requests = p.requests /\ u.newest = p.newest
      /\ u.shown = p.shown /\ u.strayed = p.strayed /\ u.acts = p.acts
      BY <1>2, <1>5 DEF RuntimeTypes, IsRuntime
<1>7. RuntimeTypes(u)
      BY <1>2, <1>4, <1>6 DEF RuntimeTypes
<1>8. RuntimeIds(u)
      BY <1>2, <1>6 DEF RuntimeIds
<1>9. PICK scope : scope = Runtime!TargetScope(panel, key)
      OBVIOUS
<1>10. scope \in Runtime!Scopes /\ (scope = "session" => panel.session # "none")
      BY <1>9 DEF Runtime!TargetScope, RuntimeTypes, Runtime!Scopes
<1>11. PICK get : get = Runtime!Get(p.acts, panel.session, TRUE)
      OBVIOUS
<1>12. /\ ProperRequest(get) /\ get.ends = TRUE /\ get.at = p.acts
       /\ get.asker = panel.session /\ get.session = panel.session /\ get.phase = "sent"
    <2>1. TRUE \in BOOLEAN /\ panel.session \in Runtime!Sessions
          BY DEF RuntimeTypes
    <2> QED BY <1>2, <1>11, <2>1, GetIsProper
<1>13. PICK session : session = IF scope = "session" THEN panel.session ELSE "none"
      OBVIOUS
<1>14. /\ session \in Runtime!Sessions /\ session \in {"none", panel.session}
       /\ scope = "session" => session # "none"
      BY <1>10, <1>13 DEF RuntimeTypes, Runtime!Sessions
<1>15. PICK request : request = [get EXCEPT !.kind = "patch", !.key = key, !.value = value,
                                            !.scope = scope, !.session = session]
      OBVIOUS
<1>16. /\ ProperRequest(request) /\ request.ends = TRUE /\ request.at = p.acts
       /\ request.phase = "sent" /\ request.asker = panel.session
      BY <1>10, <1>12, <1>14, <1>15 DEF ProperRequest, RuntimeRequests
<1>17. [get EXCEPT !.kind = "patch", !.key = key, !.value = value, !.scope = scope,
                   !.session = IF scope = "session" THEN @ ELSE "none"] = request
      BY <1>12, <1>13, <1>15
<1>18. u = [Runtime!Act(panel) EXCEPT !.saving = key, !.values[key] = value]
      BY <1>1, <1>3, <1>5
<1>19. q = Runtime!Asked(u, request)
      BY <1>1, <1>9, <1>11, <1>17, <1>18 DEF Runtime!Changed
<1>20. ~u.strayed =>
          /\ \A r \in u.requests \cup {request} : r.asker = u.session
          /\ u.listed => \/ u.shown.session \in {"none", u.session}
                         \/ \E r \in u.requests \cup {request} : r.kind = "get"
      BY <1>2, <1>6, <1>16 DEF RuntimeOrder
<1>21. request.at # 0 /\ request.at <= u.acts /\ request.at # u.shown.at
       /\ \A r \in u.requests : r.at # request.at
      BY <1>2, <1>6, <1>16
<1> QED BY <1>7, <1>8, <1>16, <1>19, <1>20, <1>21, RuntimeAsked

LEMMA RuntimeStep == RuntimeInv /\ Runtime!Next => RuntimeInv'
<1> SUFFICES ASSUME RuntimeTypes(panel), RuntimeIds(panel), RuntimeOrder(panel), Runtime!Next
             PROVE  RuntimeTypes(panel') /\ RuntimeIds(panel') /\ RuntimeOrder(panel')
    BY DEF RuntimeInv
<1>a. IsRuntime(panel) /\ \A r \in panel.requests : ProperRequest(r)
      BY DEF RuntimeTypes
<1>1. CASE Runtime!Mount
  <2>1. PICK p : p = [panel EXCEPT !.mounted = TRUE]
        OBVIOUS
  <2>2. /\ IsRuntime(p)
        /\ p.session = panel.session /\ p.scope = panel.scope /\ p.rows = panel.rows
        /\ p.listed = panel.listed /\ p.over = panel.over /\ p.values = panel.values
        /\ p.saving = panel.saving /\ p.requests = panel.requests
        /\ p.newest = panel.newest /\ p.shown = panel.shown
        /\ p.strayed = panel.strayed /\ p.acts = panel.acts
        BY <1>a, <2>1 DEF IsRuntime
  <2>3. RuntimeTypes(p) /\ RuntimeIds(p)
        BY <2>2 DEF RuntimeTypes, RuntimeIds
  <2>4. PICK q : q = Runtime!Act(p)
        OBVIOUS
  <2>5. /\ RuntimeTypes(q) /\ RuntimeIds(q)
        /\ IsRuntime(q)
        /\ q.session = p.session /\ q.scope = p.scope /\ q.rows = p.rows
        /\ q.listed = p.listed /\ q.over = p.over /\ q.values = p.values
        /\ q.saving = p.saving /\ q.requests = p.requests /\ q.newest = p.newest
        /\ q.shown = p.shown /\ q.strayed = p.strayed /\ q.acts = p.acts + 1
        /\ q.acts \in Nat /\ q.acts # 0 /\ q.acts # q.shown.at
        /\ \A r \in q.requests : r.at # q.acts
        BY <2>3, <2>4, RuntimeActed
  <2>6. panel' = Runtime!Refreshed(q)
        BY <1>1, <2>1, <2>4 DEF Runtime!Mount
  <2>7. /\ q.saving # "none" => \E r \in q.requests : r.ends
        /\ ~q.strayed => \A r \in q.requests : r.asker = q.session
        BY <2>2, <2>5 DEF RuntimeOrder
  <2> QED BY <2>5, <2>6, <2>7, RuntimeRefreshed
<1>2. CASE Runtime!ChangeSession
  <2>1. PICK session \in Runtime!Sessions :
           panel' = Runtime!Refreshed(Runtime!Act([panel EXCEPT
                       !.session = session, !.strayed = panel.requests # {},
                       !.scope = IF session = "none" THEN "project" ELSE @]))
        BY <1>2 DEF Runtime!ChangeSession
  <2>2. PICK strayed \in BOOLEAN : strayed = (panel.requests # {})
        OBVIOUS
  <2>3. PICK scope : scope = IF session = "none" THEN "project" ELSE panel.scope
        OBVIOUS
  <2>4. PICK p : p = [panel EXCEPT !.session = session, !.strayed = strayed, !.scope = scope]
        OBVIOUS
  <2>5. /\ IsRuntime(p)
        /\ p.session = session /\ p.scope = scope /\ p.rows = panel.rows
        /\ p.listed = panel.listed /\ p.over = panel.over /\ p.values = panel.values
        /\ p.saving = panel.saving /\ p.requests = panel.requests
        /\ p.newest = panel.newest /\ p.shown = panel.shown /\ p.strayed = strayed
        /\ p.acts = panel.acts
        BY <1>a, <2>4 DEF IsRuntime
  <2>6. RuntimeTypes(p)
        BY <2>3, <2>5 DEF RuntimeTypes, Runtime!Scopes
  <2>7. RuntimeIds(p)
        BY <2>5 DEF RuntimeIds
  <2>8. PICK q : q = Runtime!Act(p)
        OBVIOUS
  <2>9. /\ RuntimeTypes(q) /\ RuntimeIds(q)
        /\ IsRuntime(q)
        /\ q.session = p.session /\ q.scope = p.scope /\ q.rows = p.rows
        /\ q.listed = p.listed /\ q.over = p.over /\ q.values = p.values
        /\ q.saving = p.saving /\ q.requests = p.requests /\ q.newest = p.newest
        /\ q.shown = p.shown /\ q.strayed = p.strayed /\ q.acts = p.acts + 1
        /\ q.acts \in Nat /\ q.acts # 0 /\ q.acts # q.shown.at
        /\ \A r \in q.requests : r.at # q.acts
        BY <2>6, <2>7, <2>8, RuntimeActed
  <2>10. panel' = Runtime!Refreshed(q)
        BY <2>1, <2>2, <2>3, <2>4, <2>8
  <2>11. /\ q.saving # "none" => \E r \in q.requests : r.ends
         /\ ~q.strayed => \A r \in q.requests : r.asker = q.session
        BY <2>2, <2>5, <2>9 DEF RuntimeOrder
  <2> QED BY <2>9, <2>10, <2>11, RuntimeRefreshed
<1>3. CASE Runtime!SetScope
  <2>1. PICK scope \in Runtime!Scopes :
           /\ scope = "session" => panel.session # "none"
           /\ panel' = Runtime!Act([panel EXCEPT !.scope = scope])
        BY <1>3 DEF Runtime!SetScope
  <2>2. PICK p : p = [panel EXCEPT !.scope = scope]
        OBVIOUS
  <2>3. /\ IsRuntime(p)
        /\ p.session = panel.session /\ p.scope = scope /\ p.rows = panel.rows
        /\ p.listed = panel.listed /\ p.over = panel.over /\ p.values = panel.values
        /\ p.saving = panel.saving /\ p.requests = panel.requests
        /\ p.newest = panel.newest /\ p.shown = panel.shown
        /\ p.strayed = panel.strayed /\ p.acts = panel.acts
        BY <1>a, <2>2 DEF IsRuntime
  <2>4. RuntimeTypes(p) /\ RuntimeIds(p)
        BY <2>1, <2>3 DEF RuntimeTypes, RuntimeIds
  <2>5. /\ RuntimeTypes(panel') /\ RuntimeIds(panel')
        /\ IsRuntime(panel')
        /\ panel'.session = p.session /\ panel'.scope = p.scope
        /\ panel'.rows = p.rows /\ panel'.listed = p.listed /\ panel'.over = p.over
        /\ panel'.values = p.values /\ panel'.saving = p.saving
        /\ panel'.requests = p.requests /\ panel'.newest = p.newest
        /\ panel'.shown = p.shown /\ panel'.strayed = p.strayed
        /\ panel'.acts = p.acts + 1
        BY <2>1, <2>2, <2>4, RuntimeActed
  <2>6. RuntimeOrder(panel')
        BY <2>3, <2>5 DEF RuntimeOrder, AnswerFits, Waiting
  <2> QED BY <2>5, <2>6
<1>4. CASE Runtime!EnterValue
  <2>1. PICK key \in Runtime!Keys : \E raw \in Runtime!Raw(key) :
           panel' = Runtime!Changed(panel, key, Runtime!Normalized(key, raw))
        BY <1>4 DEF Runtime!EnterValue
  <2>2. PICK raw \in Runtime!Raw(key) :
           panel' = Runtime!Changed(panel, key, Runtime!Normalized(key, raw))
        BY <2>1
  <2>3. Runtime!Normalized(key, raw) \in RuntimeValues
        BY DEF Runtime!Normalized, Runtime!Raw, RuntimeValues
  <2> QED BY <2>2, <2>3, RuntimeChanged
<1>5. CASE Runtime!HandleReset
  <2>1. PICK key \in Runtime!Keys : panel' = Runtime!Changed(panel, key, "none")
        BY <1>5 DEF Runtime!HandleReset
  <2>2. "none" \in RuntimeValues
        BY DEF RuntimeValues
  <2> QED BY <2>1, <2>2, RuntimeChanged
<1>6. CASE Runtime!PatchReads
  <2>1. PICK r \in panel.requests :
           /\ r.kind = "patch"
           /\ panel' = Runtime!Step(r, [r EXCEPT !.phase = "read",
                                                 !.row = panel.rows[Runtime!Owner(r)]])
        BY <1>6 DEF Runtime!PatchReads
  <2>2. PICK next : next = [r EXCEPT !.phase = "read", !.row = panel.rows[Runtime!Owner(r)]]
        OBVIOUS
  <2>3. panel.rows[Runtime!Owner(r)] \in RuntimeRows
        BY <1>a, <2>1, OwnerIsOne DEF RuntimeTypes
  <2>4. /\ ProperRequest(next) /\ next.ends = r.ends /\ next.at = r.at
        /\ next.asker = r.asker /\ next.kind = r.kind /\ next.phase = "read"
        BY <1>a, <2>1, <2>2, <2>3 DEF ProperRequest, RuntimeRequests
  <2>5. /\ IsRuntime(panel')
        /\ panel'.session = panel.session /\ panel'.scope = panel.scope
        /\ panel'.rows = panel.rows /\ panel'.listed = panel.listed
        /\ panel'.over = panel.over /\ panel'.values = panel.values
        /\ panel'.saving = panel.saving
        /\ panel'.requests = (panel.requests \ {r}) \cup {next}
        /\ panel'.newest = panel.newest /\ panel'.shown = panel.shown
        /\ panel'.strayed = panel.strayed /\ panel'.acts = panel.acts
        BY <1>a, <2>1, <2>2 DEF Runtime!Step, IsRuntime
  <2> QED BY <2>4, <2>5, RuntimeWaits DEF RuntimeTypes, RuntimeIds
<1>7. CASE Runtime!PatchWrites
  <2>1. PICK r \in panel.requests :
           /\ r.phase = "read"
           /\ panel' = [Runtime!Step(r, [r EXCEPT !.phase = "stored", !.value = "none",
                                                  !.row = Runtime!Unset])
                           EXCEPT !.rows[Runtime!Owner(r)] = [r.row EXCEPT ![r.key] = r.value]]
        BY <1>7 DEF Runtime!PatchWrites
  <2>2. PICK next : next = [r EXCEPT !.phase = "stored", !.value = "none",
                                     !.row = Runtime!Unset]
        OBVIOUS
  <2>3. /\ r \in RuntimeRequests /\ r.kind = "patch" /\ r.key \in Runtime!Keys
        /\ r.row \in RuntimeRows /\ r.value \in RuntimeValues
        BY <1>a, <2>1 DEF ProperRequest, RuntimeRequests
  <2>4. /\ ProperRequest(next) /\ next.ends = r.ends /\ next.at = r.at
        /\ next.asker = r.asker /\ next.kind = r.kind /\ next.phase = "stored"
    <3>1. "none" \in RuntimeValues
          BY DEF RuntimeValues
    <3> QED BY <1>a, <2>1, <2>2, <2>3, <3>1, UnsetIsRow DEF ProperRequest, RuntimeRequests
  <2>5. PICK row : row = [r.row EXCEPT ![r.key] = r.value]
        OBVIOUS
  <2>6. row \in RuntimeRows
        BY <2>3, <2>5 DEF RuntimeRows
  <2>7. PICK rows : rows = [panel.rows EXCEPT ![Runtime!Owner(r)] = row]
        OBVIOUS
  <2>8. rows \in [Runtime!Owners -> RuntimeRows]
        BY <1>a, <2>3, <2>6, <2>7, OwnerIsOne DEF RuntimeTypes
  <2>9. /\ IsRuntime(panel')
        /\ panel'.session = panel.session /\ panel'.scope = panel.scope
        /\ panel'.rows = rows /\ panel'.listed = panel.listed
        /\ panel'.over = panel.over /\ panel'.values = panel.values
        /\ panel'.saving = panel.saving
        /\ panel'.requests = (panel.requests \ {r}) \cup {next}
        /\ panel'.newest = panel.newest /\ panel'.shown = panel.shown
        /\ panel'.strayed = panel.strayed /\ panel'.acts = panel.acts
        BY <1>a, <2>1, <2>2, <2>5, <2>7 DEF Runtime!Step, IsRuntime
  <2> QED BY <2>4, <2>8, <2>9, RuntimeWaits DEF RuntimeIds
<1>8. CASE Runtime!Resolve
  <2>1. PICK r \in panel.requests :
           panel' = [Runtime!Step(r, [r EXCEPT !.phase = "answered",
                                         !.over = Runtime!Overrides(panel.rows, r.session)])
                        EXCEPT !.newest = r.at]
        BY <1>8 DEF Runtime!Resolve
  <2>2. PICK over : over = Runtime!Overrides(panel.rows, r.session)
        OBVIOUS
  <2>3. PICK next : next = [r EXCEPT !.phase = "answered", !.over = over]
        OBVIOUS
  <2>4. r.session \in Runtime!Sessions /\ r.at \in Nat
        BY <1>a DEF ProperRequest, RuntimeRequests
  <2>5. over \in RuntimeOverrides
        BY <2>2, <2>4, OverridesAreRows DEF RuntimeTypes
  <2>6. /\ ProperRequest(next) /\ next.ends = r.ends /\ next.at = r.at
        /\ next.asker = r.asker /\ next.kind = r.kind /\ next.session = r.session
        /\ next.over = over
        BY <1>a, <2>3, <2>5 DEF ProperRequest, RuntimeRequests
  <2>7. /\ IsRuntime(panel')
        /\ panel'.session = panel.session /\ panel'.scope = panel.scope
        /\ panel'.rows = panel.rows /\ panel'.listed = panel.listed
        /\ panel'.over = panel.over /\ panel'.values = panel.values
        /\ panel'.saving = panel.saving
        /\ panel'.requests = (panel.requests \ {r}) \cup {next}
        /\ panel'.newest = r.at /\ panel'.shown = panel.shown
        /\ panel'.strayed = panel.strayed /\ panel'.acts = panel.acts
        BY <1>a, <2>1, <2>2, <2>3 DEF Runtime!Step, IsRuntime
  <2>8. /\ RuntimeIds(panel')
        /\ \A s \in panel'.requests : ProperRequest(s)
        /\ \A s \in panel'.requests : s = next \/ (s \in panel.requests /\ s.at # r.at)
        /\ panel'.saving # "none" => \E s \in panel'.requests : s.ends
        /\ ~panel'.strayed =>
              /\ \A s \in panel'.requests : s.asker = panel'.session
              /\ panel'.listed => \/ panel'.shown.session \in {"none", panel'.session}
                                  \/ \E s \in panel'.requests : s.kind = "get"
        BY <2>4, <2>6, <2>7, RuntimeStepped
  <2>9. RuntimeTypes(panel')
        BY <2>7, <2>8 DEF RuntimeTypes
  <2>10. \A s \in panel'.requests : AnswerFits(panel', s.at, s.session, s.over)
        BY <2>2, <2>6, <2>7, <2>8 DEF AnswerFits
  <2>11. panel'.shown.at # panel'.newest
        BY <2>7 DEF RuntimeIds
  <2>12. RuntimeOrder(panel')
        BY <2>8, <2>10, <2>11 DEF RuntimeOrder, AnswerFits
  <2> QED BY <2>8, <2>9, <2>12
<1>9. CASE Runtime!Got
  <2>1. PICK r \in panel.requests :
           /\ r.phase = "answered"
           /\ panel' = [Runtime!Taken(panel, r) EXCEPT !.listed = TRUE]
        BY <1>9 DEF Runtime!Got
  <2>2. TRUE \in BOOLEAN
        OBVIOUS
  <2> QED BY <2>1, <2>2, RuntimeTaken
<1>10. CASE Runtime!Patched
  <2>1. PICK r \in panel.requests :
           /\ r.phase = "answered"
           /\ panel' = Runtime!Taken(panel, r)
        BY <1>10 DEF Runtime!Patched
  <2>2. panel' = [Runtime!Taken(panel, r) EXCEPT !.listed = panel.listed]
        BY <1>a, <2>1 DEF Runtime!Taken, IsRuntime
  <2>3. panel.listed \in BOOLEAN
        BY DEF RuntimeTypes
  <2> QED BY <2>1, <2>2, <2>3, RuntimeTaken
<1>11. CASE Runtime!GetFails
  <2>1. PICK r \in panel.requests :
           panel' = [panel EXCEPT !.requests = @ \ {r}, !.listed = FALSE,
                                  !.values = Runtime!Unset, !.newest = 0,
                                  !.saving = IF r.ends THEN "none" ELSE @]
        BY <1>11 DEF Runtime!GetFails
  <2>2. PICK saving : saving = IF r.ends THEN "none" ELSE panel.saving
        OBVIOUS
  <2>3. /\ IsRuntime(panel')
        /\ panel'.session = panel.session /\ panel'.scope = panel.scope
        /\ panel'.rows = panel.rows /\ panel'.listed = FALSE
        /\ panel'.over = panel.over /\ panel'.values = Runtime!Unset
        /\ panel'.saving = saving /\ panel'.requests = panel.requests \ {r}
        /\ panel'.newest = 0 /\ panel'.shown = panel.shown
        /\ panel'.strayed = panel.strayed /\ panel'.acts = panel.acts
        BY <1>a, <2>1, <2>2 DEF IsRuntime
  <2>4. Runtime!Unset \in [Runtime!Keys -> RuntimeValues \cup {"usual"}]
        BY DEF Runtime!Unset, RuntimeValues
  <2>5. panel'.listed \in BOOLEAN
        BY <2>3
  <2>6. RuntimeTypes(panel')
        BY <2>2, <2>3, <2>4, <2>5 DEF RuntimeTypes
  <2>7. RuntimeIds(panel')
        BY <2>3 DEF RuntimeIds
  <2>8. panel'.saving # "none" => \E s \in panel'.requests : s.ends
    <3>1. r.ends \in BOOLEAN
          BY <1>a DEF ProperRequest, RuntimeRequests
    <3> QED BY <2>2, <2>3, <3>1 DEF RuntimeOrder
  <2>9. \A s \in panel'.requests : s.at # panel'.newest
        BY <2>3 DEF RuntimeIds
  <2>10. ~panel'.strayed => \A s \in panel'.requests : s.asker = panel'.session
        BY <2>3 DEF RuntimeOrder
  <2>11. RuntimeOrder(panel')
        BY <2>3, <2>8, <2>9, <2>10 DEF RuntimeOrder, AnswerFits
  <2> QED BY <2>6, <2>7, <2>11
<1>12. CASE Runtime!PatchFails
  <2>1. PICK r \in panel.requests :
           panel' = Runtime!Step(r, Runtime!Get(r.at, r.asker, TRUE))
           /\ r.kind = "patch"
        BY <1>12 DEF Runtime!PatchFails
  <2>2. PICK next : next = Runtime!Get(r.at, r.asker, TRUE)
        OBVIOUS
  <2>3. r.at \in Nat /\ r.asker \in Runtime!Sessions /\ TRUE \in BOOLEAN
        BY <1>a DEF ProperRequest, RuntimeRequests
  <2>4. /\ ProperRequest(next) /\ next.ends /\ next.at = r.at
        /\ next.asker = r.asker /\ next.phase = "sent"
    <3>1. PICK ends \in BOOLEAN : ends = TRUE
          BY <2>3
    <3>2. next = Runtime!Get(r.at, r.asker, ends)
          BY <2>2, <3>1
    <3> QED BY <2>3, <3>1, <3>2, GetIsProper
  <2>5. /\ IsRuntime(panel')
        /\ panel'.session = panel.session /\ panel'.scope = panel.scope
        /\ panel'.rows = panel.rows /\ panel'.listed = panel.listed
        /\ panel'.over = panel.over /\ panel'.values = panel.values
        /\ panel'.saving = panel.saving
        /\ panel'.requests = (panel.requests \ {r}) \cup {next}
        /\ panel'.newest = panel.newest /\ panel'.shown = panel.shown
        /\ panel'.strayed = panel.strayed /\ panel'.acts = panel.acts
        BY <1>a, <2>1, <2>2 DEF Runtime!Step, IsRuntime
  <2>6. r.kind # "get" /\ next.phase # "answered"
        BY <2>1, <2>4
  <2>7. panel.rows \in [Runtime!Owners -> RuntimeRows]
        BY DEF RuntimeTypes
  <2> QED BY <2>4, <2>5, <2>6, <2>7, RuntimeWaits
<1> QED BY <1>1, <1>2, <1>3, <1>4, <1>5, <1>6, <1>7, <1>8, <1>9, <1>10, <1>11, <1>12
        DEF Runtime!Next

-----------------------------------------------------------------------------
(* The models of a project                                                 *)

ModelTexts == {"", "a", "env"}

IsFields(f) ==
    /\ f \in [Models!Fields -> ModelTexts]
    /\ \A field \in Models!Fields : f[field] \in Models!Texts(field)

IsRow(f) ==
    /\ f \in [Models!OfProject -> ModelTexts]
    /\ \A field \in Models!OfProject : f[field] \in Models!Texts(field)

IsUpdate(u) ==
    /\ u = [models |-> u.models, reset |-> u.reset, alive |-> u.alive]
    /\ IsRow(u.models) /\ u.reset \in BOOLEAN /\ u.alive \in BOOLEAN

IsModels(p) ==
    p = [lasting |-> p.lasting, mounted |-> p.mounted, record |-> p.record,
         plain |-> p.plain, row |-> p.row, project |-> p.project,
         form |-> p.form, auto |-> p.auto, same |-> p.same, chose |-> p.chose,
         info |-> p.info, asking |-> p.asking, saving |-> p.saving,
         testing |-> p.testing, updates |-> p.updates, wanted |-> p.wanted,
         acts |-> p.acts]

ModelTypes(p) ==
    /\ IsModels(p)
    /\ IsFields(p.record) /\ IsFields(p.form) /\ IsFields(p.wanted)
    /\ IsRow(p.row) /\ IsRow(p.project)
    /\ p.info \in ModelTexts
    /\ p.saving \in BOOLEAN /\ p.same \in BOOLEAN /\ p.chose \in BOOLEAN
    /\ \A u \in p.updates : IsUpdate(u)

\* The record of the browser has what was saved.  While a reset is under way
\* it is blank, and a form that shares the model without having been told so
\* found no other in the record.
ModelOrder(p) ==
    /\ p.saving <=> \E u \in p.updates : u.alive
    /\ \A u, v \in p.updates : u.alive /\ v.alive => u = v
    /\ \A u \in p.updates : u.alive /\ u.reset => p.record["plugin"] = ""
    /\ p.mounted /\ p.same /\ ~p.chose => p.record["plugin"] = ""
    /\ \A field \in Models!Fields :
          (p.wanted[field] # "" /\ (field = "pluginKey" => p.wanted["plugin"] # "")) =>
              p.record[field] = p.wanted[field]

ModelInv == ModelTypes(panel) /\ ModelOrder(panel)

LEMMA ModelProperties == ModelInv => Models!TypeOK /\ Models!SavedFieldsReturn
<1> SUFFICES ASSUME ModelInv PROVE Models!TypeOK /\ Models!SavedFieldsReturn
    OBVIOUS
<1>1. Models!TypeOK
      BY DEF ModelInv, ModelTypes, ModelOrder, IsFields, IsRow, ModelTexts, Models!TypeOK
<1>2. ASSUME NEW field \in Models!Fields,
             panel.wanted[field] # "", field = "pluginKey" => panel.wanted["plugin"] # ""
      PROVE  /\ Models!OnMount(panel, field) = panel.wanted[field]
             /\ Models!Sent(panel, field) = panel.wanted[field]
    <2>1. panel.record[field] = panel.wanted[field]
          BY <1>2 DEF ModelInv, ModelOrder
    <2>2. field \in Models!OfPlugin => panel.record["plugin"] # ""
          BY <1>2, <2>1 DEF ModelInv, ModelOrder, Models!OfPlugin, Models!Fields
    <2> QED BY <1>2, <2>1, <2>2 DEF Models!OnMount, Models!Sent
<1>3. Models!SavedFieldsReturn
      BY <1>2 DEF Models!SavedFieldsReturn
<1> QED BY <1>1, <1>3

LEMMA BlanksAreFields == IsFields(Models!Blank) /\ IsRow(Models!NoModels)
BY DEF IsFields, IsRow, Models!Blank, Models!NoModels, ModelTexts, Models!Texts

LEMMA ModelInit == Models!Init => ModelInv
<1> SUFFICES ASSUME Models!Init PROVE ModelInv
    OBVIOUS
<1>1. PICK lasting \in BOOLEAN :
         panel = [lasting |-> lasting, mounted |-> FALSE, record |-> Models!Blank,
                  plain |-> FALSE, row |-> Models!NoModels,
                  project |-> Models!NoModels, form |-> Models!Blank,
                  auto |-> TRUE, same |-> TRUE, chose |-> FALSE, info |-> "",
                  asking |-> FALSE, saving |-> FALSE, testing |-> FALSE,
                  updates |-> {}, wanted |-> Models!Blank, acts |-> 0]
      BY DEF Models!Init
<1>2. /\ IsModels(panel)
      /\ panel.mounted = FALSE /\ panel.record = Models!Blank
      /\ panel.row = Models!NoModels /\ panel.project = Models!NoModels
      /\ panel.form = Models!Blank /\ panel.same = TRUE /\ panel.chose = FALSE
      /\ panel.info = "" /\ panel.saving = FALSE /\ panel.updates = {}
      /\ panel.wanted = Models!Blank
      BY <1>1 DEF IsModels
<1>3. panel.saving \in BOOLEAN
      BY <1>2
<1>4. panel.same \in BOOLEAN /\ panel.chose \in BOOLEAN
      BY <1>2
<1>5. ModelTypes(panel)
      BY <1>2, <1>3, <1>4, BlanksAreFields DEF ModelTypes, ModelTexts
<1>6. ModelOrder(panel)
      BY <1>2 DEF ModelOrder, Models!Blank, Models!Fields
<1> QED BY <1>5, <1>6 DEF ModelInv

\* A step that writes neither the record nor a request.
LEMMA ModelKeeps ==
    ASSUME NEW p, ModelTypes(p), ModelOrder(p), NEW q, IsModels(q), IsFields(q.form),
           q.info \in ModelTexts, q.same \in BOOLEAN, q.chose \in BOOLEAN,
           q.record = p.record, q.row = p.row, q.project = p.project,
           q.saving = p.saving, q.updates = p.updates, q.wanted = p.wanted,
           q.mounted /\ q.same /\ ~q.chose => p.record["plugin"] = ""
    PROVE  ModelTypes(q) /\ ModelOrder(q)
<1>1. ModelTypes(q)
      BY DEF ModelTypes
<1>2. ModelOrder(q)
      BY DEF ModelOrder
<1> QED BY <1>1, <1>2

LEMMA ModelActed ==
    ASSUME NEW p, IsModels(p)
    PROVE  /\ IsModels(Models!Act(p))
           /\ Models!Act(p).mounted = p.mounted /\ Models!Act(p).record = p.record
           /\ Models!Act(p).row = p.row /\ Models!Act(p).project = p.project
           /\ Models!Act(p).form = p.form /\ Models!Act(p).same = p.same
           /\ Models!Act(p).chose = p.chose /\ Models!Act(p).info = p.info
           /\ Models!Act(p).saving = p.saving /\ Models!Act(p).updates = p.updates
           /\ Models!Act(p).wanted = p.wanted
<1>1. PICK n : n = p.acts + 1
      OBVIOUS
<1>2. PICK q : q = [p EXCEPT !.acts = n]
      OBVIOUS
<1>3. Models!Act(p) = q
      BY <1>1, <1>2 DEF Models!Act, IsModels
<1>4. /\ IsModels(q)
      /\ q.mounted = p.mounted /\ q.record = p.record /\ q.row = p.row
      /\ q.project = p.project /\ q.form = p.form /\ q.same = p.same /\ q.chose = p.chose
      /\ q.info = p.info /\ q.saving = p.saving /\ q.updates = p.updates
      /\ q.wanted = p.wanted
      BY <1>2 DEF IsModels
<1> QED BY <1>3, <1>4

LEMMA ModelFilled ==
    ASSUME NEW p, ModelTypes(p), ModelOrder(p)
    PROVE  ModelTypes(Models!Backfilled(p)) /\ ModelOrder(Models!Backfilled(p))
<1>1. PICK form : form = [p.form EXCEPT !["model"] = p.info]
      OBVIOUS
<1>2. IsFields(form)
      BY <1>1 DEF IsFields, ModelTypes, ModelTexts, Models!Texts, Models!Fields
<1>3. PICK q : q = [p EXCEPT !.form = form]
      OBVIOUS
<1>4. /\ IsModels(q)
      /\ q.mounted = p.mounted /\ q.record = p.record /\ q.row = p.row
      /\ q.project = p.project /\ q.form = form /\ q.same = p.same /\ q.chose = p.chose
      /\ q.info = p.info /\ q.saving = p.saving /\ q.updates = p.updates
      /\ q.wanted = p.wanted
      BY <1>3 DEF ModelTypes, IsModels
<1>5. p.mounted /\ p.same /\ ~p.chose => p.record["plugin"] = ""
      BY DEF ModelOrder
<1>6. p.info \in ModelTexts /\ p.same \in BOOLEAN /\ p.chose \in BOOLEAN
      BY DEF ModelTypes
<1>7. ModelTypes(q) /\ ModelOrder(q)
      BY <1>2, <1>4, <1>5, <1>6, ModelKeeps
<1> QED BY <1>1, <1>3, <1>7 DEF Models!Backfilled

\* The record is written as a whole, whether it is kept or taken out.
LEMMA ModelWritten ==
    ASSUME NEW p, IsModels(p), NEW record, NEW auto
    PROVE  /\ IsModels(Models!Written(p, record, auto))
           /\ Models!Written(p, record, auto).mounted = p.mounted
           /\ Models!Written(p, record, auto).record = record
           /\ Models!Written(p, record, auto).row = p.row
           /\ Models!Written(p, record, auto).project = p.project
           /\ Models!Written(p, record, auto).form = p.form
           /\ Models!Written(p, record, auto).same = p.same
           /\ Models!Written(p, record, auto).chose = p.chose
           /\ Models!Written(p, record, auto).info = p.info
           /\ Models!Written(p, record, auto).saving = p.saving
           /\ Models!Written(p, record, auto).updates = p.updates
           /\ Models!Written(p, record, auto).wanted = p.wanted
<1>1. PICK plain : plain = IF record = Models!Blank /\ ~auto THEN FALSE ELSE ~auto
      OBVIOUS
<1>2. PICK q : q = [p EXCEPT !.record = record, !.plain = plain]
      OBVIOUS
<1>3. Models!Written(p, record, auto) = q
      BY <1>1, <1>2 DEF Models!Written
<1>4. /\ IsModels(q)
      /\ q.mounted = p.mounted /\ q.record = record /\ q.row = p.row
      /\ q.project = p.project /\ q.form = p.form /\ q.same = p.same /\ q.chose = p.chose
      /\ q.info = p.info /\ q.saving = p.saving /\ q.updates = p.updates
      /\ q.wanted = p.wanted
      BY <1>2 DEF IsModels
<1> QED BY <1>3, <1>4

\* A save or a reset: the record is what was entered, and what is wanted from
\* now on is in it.
LEMMA ModelSaved ==
    ASSUME NEW p, ModelTypes(p), ModelOrder(p), ~p.saving, NEW q, IsModels(q),
           NEW u, IsUpdate(u), u.alive,
           IsFields(q.record), IsFields(q.form), IsFields(q.wanted),
           q.saving = TRUE,
           q.updates = p.updates \cup {u},
           q.mounted = p.mounted, q.row = p.row, q.project = p.project,
           q.same = p.same, q.chose = p.chose, q.info = p.info,
           u.reset \/ p.same => q.record["plugin"] = "",
           \A field \in Models!Fields :
              (q.wanted[field] # "" /\ (field = "pluginKey" => q.wanted["plugin"] # "")) =>
                  q.record[field] = q.wanted[field]
    PROVE  ModelTypes(q) /\ ModelOrder(q)
<1>3. \A v \in p.updates : ~v.alive
      BY DEF ModelOrder
<1>4. q.saving \in BOOLEAN
      OBVIOUS
<1>5. \A v \in q.updates : IsUpdate(v)
      BY DEF ModelTypes
<1>6. ModelTypes(q)
      BY <1>4, <1>5 DEF ModelTypes
<1>7. \A v \in q.updates : v.alive => v = u
      BY <1>3
<1>8. ModelOrder(q)
      BY <1>3, <1>7 DEF ModelOrder
<1> QED BY <1>6, <1>8

LEMMA EnteredAreFields ==
    ASSUME NEW p, ModelTypes(p)
    PROVE  /\ IsFields(Models!Entered(p))
           /\ p.same => Models!Entered(p)["plugin"] = "" /\ Models!Entered(p)["pluginKey"] = ""
           /\ ~p.same => /\ Models!Entered(p)["plugin"] = p.form["plugin"]
                         /\ Models!Entered(p)["pluginKey"] = p.form["pluginKey"]
           /\ Models!Entered(p)["image"] = p.form["image"]
           /\ p.form["model"] # "" => Models!Entered(p)["model"] = p.form["model"]
<1>1. PICK e : e = Models!Entered(p)
      OBVIOUS
<1>2. /\ e["plugin"] = IF p.same THEN "" ELSE p.form["plugin"]
      /\ e["pluginKey"] = IF p.same THEN "" ELSE p.form["pluginKey"]
      /\ e["image"] = p.form["image"]
      /\ e["model"] = IF p.form["model"] = "" THEN p.info ELSE p.form["model"]
      BY <1>1 DEF Models!Entered, Models!Fields, Models!OfPlugin
<1>3. e = [field \in Models!Fields |-> e[field]]
      BY <1>1 DEF Models!Entered
<1>4. \A field \in Models!Fields : e[field] \in Models!Texts(field) /\ e[field] \in ModelTexts
      BY <1>2 DEF Models!Fields, Models!Texts, ModelTypes, IsFields, ModelTexts
<1>5. IsFields(e)
      BY <1>3, <1>4 DEF IsFields
<1> QED BY <1>1, <1>2, <1>5

\* One edit of the form.
LEMMA ModelEdited ==
    ASSUME ModelInv, NEW field \in Models!Fields, NEW text \in Models!Texts(field),
           panel' = Models!Act([panel EXCEPT !.form[field] = text])
    PROVE  ModelTypes(panel') /\ ModelOrder(panel')
<1>1. PICK form : form = [panel.form EXCEPT ![field] = text]
      OBVIOUS
<1>2. IsFields(form)
    <2>1. IsFields(panel.form)
          BY DEF ModelInv, ModelTypes
    <2>2. text \in ModelTexts
          BY DEF Models!Texts, ModelTexts
    <2> QED BY <1>1, <2>1, <2>2 DEF IsFields
<1>3. PICK p : p = [panel EXCEPT !.form = form]
      OBVIOUS
<1>4. /\ IsModels(p)
      /\ p.mounted = panel.mounted /\ p.record = panel.record /\ p.row = panel.row
      /\ p.project = panel.project /\ p.form = form /\ p.same = panel.same
      /\ p.chose = panel.chose /\ p.info = panel.info /\ p.saving = panel.saving
      /\ p.updates = panel.updates /\ p.wanted = panel.wanted
      BY <1>3 DEF ModelInv, ModelTypes, IsModels
<1>5. panel' = Models!Act(p)
      BY <1>1, <1>3
<1>6. /\ IsModels(panel')
      /\ panel'.mounted = p.mounted /\ panel'.record = p.record /\ panel'.row = p.row
      /\ panel'.project = p.project /\ panel'.form = p.form /\ panel'.same = p.same
      /\ panel'.chose = p.chose /\ panel'.info = p.info /\ panel'.saving = p.saving
      /\ panel'.updates = p.updates /\ panel'.wanted = p.wanted
      BY <1>4, <1>5, ModelActed
<1>7. panel.mounted /\ panel.same /\ ~panel.chose => panel.record["plugin"] = ""
      BY DEF ModelInv, ModelOrder
<1>8. panel.info \in ModelTexts /\ panel.same \in BOOLEAN /\ panel.chose \in BOOLEAN
      BY DEF ModelInv, ModelTypes
<1> QED BY <1>2, <1>4, <1>6, <1>7, <1>8, ModelKeeps DEF ModelInv

LEMMA ModelStep == ModelInv /\ Models!Next => ModelInv'
<1> SUFFICES ASSUME ModelInv, Models!Next
             PROVE  ModelTypes(panel') /\ ModelOrder(panel')
    BY DEF ModelInv
<1>a. IsModels(panel) /\ ModelTypes(panel) /\ ModelOrder(panel)
      BY DEF ModelInv, ModelTypes
<1>b. /\ IsFields(panel.form) /\ IsFields(panel.record) /\ IsFields(panel.wanted)
      /\ IsRow(panel.row) /\ IsRow(panel.project) /\ panel.info \in ModelTexts
      /\ panel.same \in BOOLEAN /\ panel.chose \in BOOLEAN
      BY <1>a DEF ModelTypes
<1>c. panel.mounted /\ panel.same /\ ~panel.chose => panel.record["plugin"] = ""
      BY <1>a DEF ModelOrder
<1>d. /\ Models!OfProject \subseteq Models!Fields
      /\ "model" \in Models!Fields /\ "plugin" \in Models!Fields
      BY DEF Models!OfProject, Models!Fields
<1>1. CASE Models!OpenTab
  <2>1. PICK form : form = [field \in Models!Fields |-> Models!OnMount(panel, field)]
        OBVIOUS
  <2>2. PICK same \in BOOLEAN : same = (panel.record["plugin"] = "")
        OBVIOUS
  <2>3. PICK q : q = [panel EXCEPT !.mounted = TRUE, !.asking = TRUE, !.form = form]
        OBVIOUS
  <2>4. /\ IsModels(q)
        /\ q.mounted = TRUE /\ q.record = panel.record /\ q.row = panel.row
        /\ q.project = panel.project /\ q.form = form /\ q.same = panel.same
        /\ q.chose = panel.chose /\ q.info = panel.info /\ q.saving = panel.saving
        /\ q.updates = panel.updates /\ q.wanted = panel.wanted
        BY <1>a, <2>3 DEF IsModels
  <2>5. panel' = [q EXCEPT !.auto = ~panel.plain, !.same = same]
        BY <1>1, <1>a, <2>1, <2>2, <2>3 DEF Models!OpenTab, IsModels
  <2>6. /\ IsModels(panel')
        /\ panel'.mounted = TRUE /\ panel'.record = panel.record /\ panel'.row = panel.row
        /\ panel'.project = panel.project /\ panel'.form = form /\ panel'.same = same
        /\ panel'.chose = panel.chose /\ panel'.info = panel.info
        /\ panel'.saving = panel.saving /\ panel'.updates = panel.updates
        /\ panel'.wanted = panel.wanted
        BY <2>4, <2>5 DEF IsModels
  <2>7. IsFields(form)
    <3> SUFFICES ASSUME NEW field \in Models!Fields
                 PROVE  /\ Models!OnMount(panel, field) \in Models!Texts(field)
                        /\ Models!OnMount(panel, field) \in ModelTexts
        BY <2>1 DEF IsFields
    <3> QED BY <1>b DEF Models!OnMount, IsFields, IsRow
  <2> QED BY <1>a, <1>b, <2>2, <2>6, <2>7, ModelKeeps
<1>2. CASE Models!CloseTab
  <2>1. PICK updates : updates = {[u EXCEPT !.alive = FALSE] : u \in panel.updates}
        OBVIOUS
  <2>2. PICK q : q = [panel EXCEPT !.mounted = FALSE, !.form = Models!Blank, !.auto = TRUE,
                                   !.same = TRUE, !.chose = FALSE]
        OBVIOUS
  <2>3. /\ IsModels(q)
        /\ q.mounted = FALSE /\ q.record = panel.record /\ q.row = panel.row
        /\ q.project = panel.project /\ q.form = Models!Blank /\ q.same = TRUE
        /\ q.chose = FALSE /\ q.info = panel.info /\ q.saving = panel.saving
        /\ q.updates = panel.updates /\ q.wanted = panel.wanted
        BY <1>a, <2>2 DEF IsModels
  <2>4. panel' = [q EXCEPT !.info = "", !.asking = FALSE, !.saving = FALSE,
                           !.testing = FALSE, !.updates = updates]
        BY <1>2, <1>a, <2>1, <2>2 DEF Models!CloseTab, IsModels
  <2>5. /\ IsModels(panel')
        /\ panel'.mounted = FALSE /\ panel'.record = panel.record /\ panel'.row = panel.row
        /\ panel'.project = panel.project /\ panel'.form = Models!Blank
        /\ panel'.same = TRUE /\ panel'.chose = FALSE /\ panel'.info = ""
        /\ panel'.saving = FALSE /\ panel'.updates = updates /\ panel'.wanted = panel.wanted
        BY <2>3, <2>4 DEF IsModels
  <2>6. ASSUME NEW v \in updates
        PROVE  IsUpdate(v) /\ ~v.alive
    <3>1. PICK u \in panel.updates : v = [u EXCEPT !.alive = FALSE]
          BY <2>1
    <3>2. IsUpdate(u)
          BY <1>a DEF ModelTypes
    <3> QED BY <3>1, <3>2 DEF IsUpdate
  <2>7. panel'.same \in BOOLEAN /\ panel'.chose \in BOOLEAN
        BY <2>5
  <2>8. panel'.saving \in BOOLEAN
        BY <2>5
  <2>9. ModelTypes(panel')
        BY <1>b, <2>5, <2>6, <2>7, <2>8, BlanksAreFields DEF ModelTypes, ModelTexts
  <2>10. ModelOrder(panel')
        BY <1>a, <2>5, <2>6 DEF ModelOrder
  <2> QED BY <2>9, <2>10
<1>3. CASE Models!InfoAnswered
  <2>1. ASSUME NEW info \in ModelTexts,
               panel' = Models!Backfilled([panel EXCEPT !.asking = FALSE, !.info = info])
        PROVE  ModelTypes(panel') /\ ModelOrder(panel')
    <3>1. PICK p : p = [panel EXCEPT !.asking = FALSE, !.info = info]
          OBVIOUS
    <3>2. /\ IsModels(p)
          /\ p.mounted = panel.mounted /\ p.record = panel.record /\ p.row = panel.row
          /\ p.project = panel.project /\ p.form = panel.form /\ p.same = panel.same
          /\ p.chose = panel.chose /\ p.info = info /\ p.saving = panel.saving
          /\ p.updates = panel.updates /\ p.wanted = panel.wanted
          BY <1>a, <3>1 DEF IsModels
    <3>3. ModelTypes(p) /\ ModelOrder(p)
          BY <1>a, <1>b, <1>c, <3>2, ModelKeeps
    <3> QED BY <2>1, <3>1, <3>3, ModelFilled
  <2>2. ASSUME panel' = [panel EXCEPT !.asking = FALSE]
        PROVE  ModelTypes(panel') /\ ModelOrder(panel')
    <3>1. /\ IsModels(panel')
          /\ panel'.mounted = panel.mounted /\ panel'.record = panel.record
          /\ panel'.row = panel.row /\ panel'.project = panel.project
          /\ panel'.form = panel.form /\ panel'.same = panel.same
          /\ panel'.chose = panel.chose /\ panel'.info = panel.info
          /\ panel'.saving = panel.saving /\ panel'.updates = panel.updates
          /\ panel'.wanted = panel.wanted
          BY <1>a, <2>2 DEF IsModels
    <3> QED BY <1>a, <1>b, <1>c, <3>1, ModelKeeps
  <2>3. PICK info : info = IF panel.lasting /\ panel.row["model"] # "" THEN panel.row["model"]
                           ELSE "env"
        OBVIOUS
  <2>4. info \in ModelTexts
        BY <1>b, <2>3 DEF IsRow, Models!OfProject, ModelTexts
  <2>5. \/ panel' = Models!Backfilled([panel EXCEPT !.asking = FALSE, !.info = info])
        \/ panel' = [panel EXCEPT !.asking = FALSE]
        BY <1>3, <2>3 DEF Models!InfoAnswered
  <2> QED BY <2>1, <2>2, <2>4, <2>5
<1>4. CASE Models!EditModel
  <2>1. PICK field \in {"model"} : \E text \in Models!Texts(field) :
           panel' = Models!Act([panel EXCEPT !.form[field] = text])
        BY <1>4 DEF Models!EditModel, Models!Edits
  <2> QED BY <1>d, <2>1, ModelEdited
<1>5. CASE Models!EditPluginModel
  <2>1. PICK field \in Models!OfPlugin : \E text \in Models!Texts(field) :
           panel' = Models!Act([panel EXCEPT !.form[field] = text])
        BY <1>5 DEF Models!EditPluginModel, Models!Edits
  <2>2. field \in Models!Fields
        BY DEF Models!OfPlugin, Models!Fields
  <2> QED BY <2>1, <2>2, ModelEdited
<1>6. CASE Models!EditImageModel
  <2>1. PICK field \in {"image"} : \E text \in Models!Texts(field) :
           panel' = Models!Act([panel EXCEPT !.form[field] = text])
        BY <1>6 DEF Models!EditImageModel, Models!Edits
  <2>2. field \in Models!Fields
        BY DEF Models!Fields
  <2> QED BY <2>1, <2>2, ModelEdited
<1>7. CASE Models!HandlePresetClick
  <2>1. "a" \in Models!Texts("model")
        BY DEF Models!Texts
  <2> QED BY <1>7, <1>d, <2>1, ModelEdited DEF Models!HandlePresetClick
<1>8. CASE Models!ChoosePluginModel
  <2>1. PICK same \in BOOLEAN :
           panel' = Models!Act([panel EXCEPT !.same = same, !.chose = TRUE])
        BY <1>8 DEF Models!ChoosePluginModel
  <2>2. PICK p : p = [panel EXCEPT !.same = same, !.chose = TRUE]
        OBVIOUS
  <2>3. /\ IsModels(p)
        /\ p.mounted = panel.mounted /\ p.record = panel.record /\ p.row = panel.row
        /\ p.project = panel.project /\ p.form = panel.form /\ p.same = same
        /\ p.chose = TRUE /\ p.info = panel.info /\ p.saving = panel.saving
        /\ p.updates = panel.updates /\ p.wanted = panel.wanted
        BY <1>a, <2>2 DEF IsModels
  <2>4. /\ IsModels(panel')
        /\ panel'.mounted = p.mounted /\ panel'.record = p.record /\ panel'.row = p.row
        /\ panel'.project = p.project /\ panel'.form = p.form /\ panel'.same = p.same
        /\ panel'.chose = p.chose /\ panel'.info = p.info /\ panel'.saving = p.saving
        /\ panel'.updates = p.updates /\ panel'.wanted = p.wanted
        BY <2>1, <2>2, <2>3, ModelActed
  <2>5. panel'.chose \in BOOLEAN
        BY <2>3, <2>4
  <2> QED BY <1>a, <1>b, <2>3, <2>4, <2>5, ModelKeeps
<1>9. ASSUME NEW p, panel' = Models!Act(p),
             /\ IsModels(p)
             /\ p.mounted = panel.mounted /\ p.record = panel.record /\ p.row = panel.row
             /\ p.project = panel.project /\ p.form = panel.form /\ p.same = panel.same
             /\ p.chose = panel.chose /\ p.info = panel.info /\ p.saving = panel.saving
             /\ p.updates = panel.updates /\ p.wanted = panel.wanted
      PROVE  ModelTypes(panel') /\ ModelOrder(panel')
  <2>1. /\ IsModels(panel')
        /\ panel'.mounted = p.mounted /\ panel'.record = p.record /\ panel'.row = p.row
        /\ panel'.project = p.project /\ panel'.form = p.form /\ panel'.same = p.same
        /\ panel'.chose = p.chose /\ panel'.info = p.info /\ panel'.saving = p.saving
        /\ panel'.updates = p.updates /\ panel'.wanted = p.wanted
        BY <1>9, ModelActed
  <2> QED BY <1>a, <1>b, <1>c, <1>9, <2>1, ModelKeeps
<1>10. CASE Models!ToggleAutoSuffix
  <2>1. PICK auto : auto = ~panel.auto
        OBVIOUS
  <2>2. PICK p : p = [panel EXCEPT !.auto = auto]
        OBVIOUS
  <2>3. panel' = Models!Act(p)
        BY <1>10, <2>1, <2>2 DEF Models!ToggleAutoSuffix
  <2>4. /\ IsModels(p)
        /\ p.mounted = panel.mounted /\ p.record = panel.record /\ p.row = panel.row
        /\ p.project = panel.project /\ p.form = panel.form /\ p.same = panel.same
        /\ p.chose = panel.chose /\ p.info = panel.info /\ p.saving = panel.saving
        /\ p.updates = panel.updates /\ p.wanted = panel.wanted
        BY <1>a, <2>2 DEF IsModels
  <2> QED BY <1>9, <2>3, <2>4
<1>11. CASE Models!HandleTest
  <2>1. PICK p : p = [panel EXCEPT !.testing = TRUE]
        OBVIOUS
  <2>2. panel' = Models!Act(p)
        BY <1>11, <2>1 DEF Models!HandleTest
  <2>3. /\ IsModels(p)
        /\ p.mounted = panel.mounted /\ p.record = panel.record /\ p.row = panel.row
        /\ p.project = panel.project /\ p.form = panel.form /\ p.same = panel.same
        /\ p.chose = panel.chose /\ p.info = panel.info /\ p.saving = panel.saving
        /\ p.updates = panel.updates /\ p.wanted = panel.wanted
        BY <1>a, <2>1 DEF IsModels
  <2> QED BY <1>9, <2>2, <2>3
<1>12. CASE Models!TestAnswered
  <2>1. /\ IsModels(panel')
        /\ panel'.mounted = panel.mounted /\ panel'.record = panel.record
        /\ panel'.row = panel.row /\ panel'.project = panel.project
        /\ panel'.form = panel.form /\ panel'.same = panel.same
        /\ panel'.chose = panel.chose /\ panel'.info = panel.info
        /\ panel'.saving = panel.saving /\ panel'.updates = panel.updates
        /\ panel'.wanted = panel.wanted
        BY <1>a, <1>12 DEF Models!TestAnswered, IsModels
  <2> QED BY <1>a, <1>b, <1>c, <2>1, ModelKeeps
<1>13. CASE Models!HandleSave
  <2>1. PICK entered : entered = Models!Entered(panel)
        OBVIOUS
  <2>2. /\ IsFields(entered)
        /\ panel.same => entered["plugin"] = "" /\ entered["pluginKey"] = ""
        /\ ~panel.same => /\ entered["plugin"] = panel.form["plugin"]
                          /\ entered["pluginKey"] = panel.form["pluginKey"]
        /\ entered["image"] = panel.form["image"]
        /\ panel.form["model"] # "" => entered["model"] = panel.form["model"]
        BY <1>a, <2>1, EnteredAreFields
  <2>3. PICK wanted : wanted = [field \in Models!Fields |->
                                  IF field \in Models!OfPlugin /\ panel.same
                                  THEN IF panel.chose THEN "" ELSE panel.wanted[field]
                                  ELSE panel.form[field]]
        OBVIOUS
  <2>4. PICK models : models = [field \in Models!OfProject |-> entered[field]]
        OBVIOUS
  <2>5. PICK reset \in BOOLEAN : reset = FALSE /\ ~reset
        OBVIOUS
  <2>6. PICK form : form = [panel.form EXCEPT !["model"] = entered["model"]]
        OBVIOUS
  <2>7. PICK p : p = Models!Written(panel, entered, panel.auto)
        OBVIOUS
  <2>8. /\ IsModels(p)
        /\ p.mounted = panel.mounted /\ p.record = entered /\ p.row = panel.row
        /\ p.project = panel.project /\ p.form = panel.form /\ p.same = panel.same
        /\ p.chose = panel.chose /\ p.info = panel.info /\ p.saving = panel.saving
        /\ p.updates = panel.updates /\ p.wanted = panel.wanted
        BY <1>a, <2>7, ModelWritten
  <2>u. PICK u : u = [models |-> models, reset |-> reset, alive |-> TRUE]
        OBVIOUS
  <2>9. PICK q : q = Models!Updating(p, models, reset)
        OBVIOUS
  <2>10. /\ IsModels(q)
        /\ q.mounted = p.mounted /\ q.record = p.record /\ q.row = p.row
        /\ q.project = p.project /\ q.form = p.form /\ q.same = p.same /\ q.chose = p.chose
        /\ q.info = p.info /\ q.saving = TRUE /\ q.updates = p.updates \cup {u}
        /\ q.wanted = p.wanted
    <3>1. PICK o : o = Models!Act(p)
          OBVIOUS
    <3>2. /\ IsModels(o)
          /\ o.mounted = p.mounted /\ o.record = p.record /\ o.row = p.row
          /\ o.project = p.project /\ o.form = p.form /\ o.same = p.same /\ o.chose = p.chose
          /\ o.info = p.info /\ o.saving = p.saving /\ o.updates = p.updates
          /\ o.wanted = p.wanted
          BY <2>8, <3>1, ModelActed
    <3>3. q = [o EXCEPT !.saving = TRUE, !.updates = @ \cup {u}]
          BY <2>9, <2>u, <3>1 DEF Models!Updating
    <3> QED BY <3>2, <3>3 DEF IsModels
  <2>11. ~panel.saving
        BY <1>13 DEF Models!HandleSave
  <2>12. panel' = [q EXCEPT !.form["model"] = entered["model"], !.wanted = wanted]
        BY <1>13, <2>1, <2>3, <2>4, <2>5, <2>7, <2>9 DEF Models!HandleSave
  <2>13. /\ IsModels(panel')
        /\ panel'.mounted = panel.mounted /\ panel'.record = entered
        /\ panel'.row = panel.row /\ panel'.project = panel.project /\ panel'.form = form
        /\ panel'.same = panel.same /\ panel'.chose = panel.chose
        /\ panel'.info = panel.info /\ panel'.saving = TRUE
        /\ panel'.updates = panel.updates \cup {u} /\ panel'.wanted = wanted
        BY <2>6, <2>8, <2>10, <2>12 DEF IsModels
  <2>14. IsRow(models)
        BY <1>d, <2>2, <2>4 DEF IsRow, IsFields
  <2>v. IsUpdate(u) /\ u.alive /\ ~u.reset
        BY <2>5, <2>14, <2>u DEF IsUpdate
  <2>15. IsFields(form)
        BY <1>b, <1>d, <2>2, <2>6 DEF IsFields
  <2>m. panel.mounted
        BY <1>13 DEF Models!HandleSave, Models!Usable
  <2>16. IsFields(wanted)
        BY <1>b, <2>3 DEF IsFields, ModelTexts, Models!Texts
  <2>17. ASSUME NEW field \in Models!Fields, wanted[field] # "",
                field = "pluginKey" => wanted["plugin"] # ""
         PROVE  entered[field] = wanted[field]
    <3>1. CASE field \in Models!OfPlugin /\ panel.same
      <4>1. wanted["plugin"] = "" \/ wanted["plugin"] = panel.record["plugin"]
            BY <1>a, <2>3, <3>1 DEF ModelOrder, Models!Fields, Models!OfPlugin
      <4>2. ~panel.chose /\ panel.record["plugin"] = ""
            BY <1>c, <2>3, <2>17, <3>1, <2>m
      <4>3. wanted["plugin"] # ""
            BY <2>17, <3>1 DEF Models!OfPlugin
      <4> QED BY <4>1, <4>2, <4>3
    <3>2. CASE ~(field \in Models!OfPlugin /\ panel.same)
      <4>1. wanted[field] = panel.form[field]
            BY <2>3, <3>2
      <4> QED BY <2>2, <2>17, <3>2, <4>1 DEF Models!Fields, Models!OfPlugin
    <3> QED BY <3>1, <3>2
  <2> QED BY <1>a, <1>b, <2>2, <2>11, <2>13, <2>15, <2>16, <2>17, <2>v, ModelSaved
<1>14. CASE Models!HandleReset
  <2>a. PICK auto \in BOOLEAN, reset \in BOOLEAN : ~auto /\ auto = FALSE /\ reset = TRUE
        OBVIOUS
  <2>1. PICK p : p = Models!Written(panel, Models!Blank, auto)
        OBVIOUS
  <2>2. /\ IsModels(p)
        /\ p.mounted = panel.mounted /\ p.record = Models!Blank /\ p.row = panel.row
        /\ p.project = panel.project /\ p.form = panel.form /\ p.same = panel.same
        /\ p.chose = panel.chose /\ p.info = panel.info /\ p.saving = panel.saving
        /\ p.updates = panel.updates /\ p.wanted = panel.wanted
        BY <1>a, <2>1, ModelWritten
  <2>b. PICK u : u = [models |-> Models!NoModels, reset |-> reset, alive |-> TRUE]
        OBVIOUS
  <2>c. IsUpdate(u) /\ u.alive
        BY <2>b, BlanksAreFields DEF IsUpdate
  <2>3. PICK q : q = Models!Updating(p, Models!NoModels, reset)
        OBVIOUS
  <2>4. /\ IsModels(q)
        /\ q.mounted = p.mounted /\ q.record = p.record /\ q.row = p.row
        /\ q.project = p.project /\ q.form = p.form /\ q.same = p.same /\ q.chose = p.chose
        /\ q.info = p.info /\ q.saving = TRUE /\ q.updates = p.updates \cup {u}
        /\ q.wanted = p.wanted
    <3>1. PICK o : o = Models!Act(p)
          OBVIOUS
    <3>2. /\ IsModels(o)
          /\ o.mounted = p.mounted /\ o.record = p.record /\ o.row = p.row
          /\ o.project = p.project /\ o.form = p.form /\ o.same = p.same /\ o.chose = p.chose
          /\ o.info = p.info /\ o.saving = p.saving /\ o.updates = p.updates
          /\ o.wanted = p.wanted
          BY <2>2, <3>1, ModelActed
    <3>3. q = [o EXCEPT !.saving = TRUE, !.updates = @ \cup {u}]
          BY <2>3, <2>b, <3>1 DEF Models!Updating
    <3> QED BY <3>2, <3>3 DEF IsModels
  <2>5. panel' = [q EXCEPT !.wanted = Models!Blank]
        BY <1>14, <2>a, <2>1, <2>3 DEF Models!HandleReset
  <2>6. /\ IsModels(panel')
        /\ panel'.mounted = panel.mounted /\ panel'.record = Models!Blank
        /\ panel'.row = panel.row /\ panel'.project = panel.project
        /\ panel'.form = panel.form /\ panel'.same = panel.same
        /\ panel'.chose = panel.chose /\ panel'.info = panel.info /\ panel'.saving = TRUE
        /\ panel'.updates = panel.updates \cup {u} /\ panel'.wanted = Models!Blank
        BY <2>2, <2>4, <2>5 DEF IsModels
  <2>7. \A field \in Models!Fields : Models!Blank[field] = ""
        BY DEF Models!Blank
  <2>8. ~panel.saving
        BY <1>14 DEF Models!HandleReset
  <2> QED BY <1>a, <1>b, <1>d, <2>6, <2>7, <2>8, <2>c, BlanksAreFields, ModelSaved
<1>15. CASE Models!Updated
  <2>1. PICK u \in panel.updates :
           LET done == [panel EXCEPT !.updates = @ \ {u}, !.row = Models!Stored(u),
                                     !.project = Models!Stored(u)]
           IN  panel' =
                 IF ~u.alive THEN Models!Backfilled(done)
                 ELSE IF u.reset
                 THEN [done EXCEPT !.saving = FALSE, !.asking = TRUE, !.form = Models!Blank,
                                   !.auto = TRUE, !.same = TRUE]
                 ELSE Models!Backfilled([done EXCEPT !.saving = FALSE, !.asking = TRUE])
        BY <1>15 DEF Models!Updated
  <2>2. PICK row : row = Models!Stored(u)
        OBVIOUS
  <2>3. IsRow(row)
    <3>1. IsRow(u.models)
          BY <1>a DEF ModelTypes, IsUpdate
    <3> QED BY <1>b, <2>2, <3>1 DEF IsRow, Models!Stored
  <2>4. PICK p : p = [panel EXCEPT !.updates = @ \ {u}, !.row = row, !.project = row]
        OBVIOUS
  <2>5. /\ IsModels(p)
        /\ p.mounted = panel.mounted /\ p.record = panel.record /\ p.row = row
        /\ p.project = row /\ p.form = panel.form /\ p.same = panel.same
        /\ p.chose = panel.chose /\ p.info = panel.info /\ p.saving = panel.saving
        /\ p.updates = panel.updates \ {u} /\ p.wanted = panel.wanted
        BY <1>a, <2>4 DEF IsModels
  <2>6. panel' = IF ~u.alive THEN Models!Backfilled(p)
                 ELSE IF u.reset
                 THEN [p EXCEPT !.saving = FALSE, !.asking = TRUE, !.form = Models!Blank,
                                !.auto = TRUE, !.same = TRUE]
                 ELSE Models!Backfilled([p EXCEPT !.saving = FALSE, !.asking = TRUE])
        BY <2>1, <2>2, <2>4
  <2>7. ModelTypes(p)
        BY <1>a, <2>3, <2>5 DEF ModelTypes
  <2>8. CASE ~u.alive
    <3>1. p.saving <=> \E v \in p.updates : v.alive
          BY <1>a, <2>5, <2>8 DEF ModelOrder
    <3>2. ModelOrder(p)
          BY <1>a, <2>5, <3>1 DEF ModelOrder
    <3> QED BY <2>6, <2>7, <2>8, <3>2, ModelFilled
  <2>9. ASSUME u.alive
        PROVE  \A v \in p.updates : ~v.alive
        BY <1>a, <2>5, <2>9 DEF ModelOrder
  <2>10. CASE u.alive /\ u.reset
    <3>1. panel' = [p EXCEPT !.saving = FALSE, !.asking = TRUE, !.form = Models!Blank,
                             !.auto = TRUE, !.same = TRUE]
          BY <2>6, <2>10
    <3>2. /\ IsModels(panel')
          /\ panel'.mounted = p.mounted /\ panel'.record = p.record /\ panel'.row = p.row
          /\ panel'.project = p.project /\ panel'.form = Models!Blank /\ panel'.same = TRUE
          /\ panel'.chose = p.chose /\ panel'.info = p.info /\ panel'.saving = FALSE
          /\ panel'.updates = p.updates /\ panel'.wanted = p.wanted
          BY <2>5, <3>1 DEF IsModels
    <3>3. panel.record["plugin"] = ""
          BY <1>a, <2>10 DEF ModelOrder
    <3>4. panel'.saving \in BOOLEAN /\ panel'.same \in BOOLEAN
          BY <3>2
    <3>5. ModelTypes(panel')
          BY <2>7, <3>2, <3>4, BlanksAreFields DEF ModelTypes
    <3>6. ModelOrder(panel')
          BY <1>a, <2>5, <2>9, <2>10, <3>2, <3>3 DEF ModelOrder
    <3> QED BY <3>5, <3>6
  <2>11. CASE u.alive /\ ~u.reset
    <3>1. PICK q : q = [p EXCEPT !.saving = FALSE, !.asking = TRUE]
          OBVIOUS
    <3>2. /\ IsModels(q)
          /\ q.mounted = p.mounted /\ q.record = p.record /\ q.row = p.row
          /\ q.project = p.project /\ q.form = p.form /\ q.same = p.same /\ q.chose = p.chose
          /\ q.info = p.info /\ q.saving = FALSE /\ q.updates = p.updates
          /\ q.wanted = p.wanted
          BY <2>5, <3>1 DEF IsModels
    <3>3. q.saving \in BOOLEAN
          BY <3>2
    <3>4. ModelTypes(q)
          BY <2>7, <3>2, <3>3 DEF ModelTypes
    <3>5. ModelOrder(q)
          BY <1>a, <2>5, <2>9, <2>11, <3>2 DEF ModelOrder
    <3> QED BY <2>6, <2>11, <3>1, <3>4, <3>5, ModelFilled
  <2> QED BY <2>8, <2>10, <2>11
<1>16. CASE Models!UpdateFails
  <2>1. PICK u \in panel.updates :
           panel' = [panel EXCEPT !.updates = @ \ {u}, !.saving = @ /\ ~u.alive]
        BY <1>16 DEF Models!UpdateFails
  <2>2. PICK saving \in BOOLEAN : saving = (panel.saving /\ ~u.alive)
        OBVIOUS
  <2>3. /\ IsModels(panel')
        /\ panel'.mounted = panel.mounted /\ panel'.record = panel.record
        /\ panel'.row = panel.row /\ panel'.project = panel.project
        /\ panel'.form = panel.form /\ panel'.same = panel.same
        /\ panel'.chose = panel.chose /\ panel'.info = panel.info /\ panel'.saving = saving
        /\ panel'.updates = panel.updates \ {u} /\ panel'.wanted = panel.wanted
        BY <1>a, <2>1, <2>2 DEF IsModels
  <2>4. ModelTypes(panel')
        BY <1>a, <2>3 DEF ModelTypes
  <2>5. saving <=> \E v \in panel'.updates : v.alive
        BY <1>a, <2>2, <2>3 DEF ModelOrder
  <2>6. ModelOrder(panel')
        BY <1>a, <2>3, <2>5 DEF ModelOrder
  <2> QED BY <2>4, <2>6
<1> QED BY <1>1, <1>2, <1>3, <1>4, <1>5, <1>6, <1>7, <1>8, <1>10, <1>11, <1>12,
           <1>13, <1>14, <1>15, <1>16
        DEF Models!Next, Models!Form

-----------------------------------------------------------------------------
(* The panels together: the panel of a behaviour keeps its invariant.       *)

LEMMA CodexAlways == Spec => [](which = "book" => CodexInv)
<1>1. Init => (which = "book" => CodexInv)
      BY CodexInit DEF Init
<1>2. (which = "book" => CodexInv) /\ [Next]_vars => (which = "book" => CodexInv)'
  <2> SUFFICES ASSUME which = "book" => CodexInv, [Next]_vars, which' = "book" PROVE CodexInv'
      OBVIOUS
  <2>1. CASE Next
        BY <2>1, CodexStep DEF Next
  <2>2. CASE UNCHANGED vars
        BY <2>2 DEF vars, CodexInv, Book!TypeOK, Book!NewUntilSeen
  <2> QED BY <2>1, <2>2
<1> QED BY <1>1, <1>2, PTL DEF Spec

LEMMA BlockAlways == Spec => [](which = "blocks" => BlockInv)
<1>1. Init => (which = "blocks" => BlockInv)
      BY PanelsAssumption, BlockInit DEF Init
<1>2. (which = "blocks" => BlockInv) /\ [Next]_vars => (which = "blocks" => BlockInv)'
  <2> SUFFICES ASSUME which = "blocks" => BlockInv, [Next]_vars, which' = "blocks" PROVE BlockInv'
      OBVIOUS
  <2>1. CASE Next
        BY PanelsAssumption, <2>1, BlockStep DEF Next
  <2>2. CASE UNCHANGED vars
        BY <2>2 DEF vars, BlockInv, BlockShape, RendererFound, OpenUnanswered, SavedIsShown, DifferenceEdited, Blocks!TypeOK, Blocks!AnsweredOnce, Blocks!DraftSurvivesMounting, Blocks!SheetSendsEdits, Blocks!Differing
  <2> QED BY <2>1, <2>2
<1> QED BY <1>1, <1>2, PTL DEF Spec

LEMMA StoreAlways == Spec => [](which = "store" => StoreInv)
<1>1. Init => (which = "store" => StoreInv)
      BY PanelsAssumption, StoreInit DEF Init
<1>2. (which = "store" => StoreInv) /\ [Next]_vars => (which = "store" => StoreInv)'
  <2> SUFFICES ASSUME which = "store" => StoreInv, [Next]_vars, which' = "store" PROVE StoreInv'
      OBVIOUS
  <2>1. CASE Next
        BY PanelsAssumption, <2>1, StoreStep DEF Next
  <2>2. CASE UNCHANGED vars
        BY <2>2 DEF vars, StoreInv, Store!TypeOK
  <2> QED BY <2>1, <2>2
<1> QED BY <1>1, <1>2, PTL DEF Spec

LEMMA WizardAlways == Spec => [](which = "new" => WizardInv)
<1>1. Init => (which = "new" => WizardInv)
      BY WizardInit DEF Init
<1>2. (which = "new" => WizardInv) /\ [Next]_vars => (which = "new" => WizardInv)'
  <2> SUFFICES ASSUME which = "new" => WizardInv, [Next]_vars, which' = "new" PROVE WizardInv'
      OBVIOUS
  <2>1. CASE Next
        BY <2>1, WizardStep DEF Next
  <2>2. CASE UNCHANGED vars
        BY <2>2 DEF vars, WizardInv, New!TypeOK, New!CreatedAsShown
  <2> QED BY <2>1, <2>2
<1> QED BY <1>1, <1>2, PTL DEF Spec

LEMMA ModelAlways == Spec => [](which = "models" => ModelInv)
<1>1. Init => (which = "models" => ModelInv)
      BY ModelInit DEF Init
<1>2. (which = "models" => ModelInv) /\ [Next]_vars => (which = "models" => ModelInv)'
  <2> SUFFICES ASSUME which = "models" => ModelInv, [Next]_vars, which' = "models" PROVE ModelInv'
      OBVIOUS
  <2>1. CASE Next
        BY <2>1, ModelStep DEF Next
  <2>2. CASE UNCHANGED vars
        BY <2>2 DEF vars, ModelInv
  <2> QED BY <2>1, <2>2
<1> QED BY <1>1, <1>2, PTL DEF Spec

LEMMA RuntimeAlways == Spec => [](which = "runtime" => RuntimeInv)
<1>1. Init => (which = "runtime" => RuntimeInv)
      BY RuntimeInit DEF Init
<1>2. (which = "runtime" => RuntimeInv) /\ [Next]_vars => (which = "runtime" => RuntimeInv)'
  <2> SUFFICES ASSUME which = "runtime" => RuntimeInv, [Next]_vars, which' = "runtime" PROVE RuntimeInv'
      OBVIOUS
  <2>1. CASE Next
        BY <2>1, RuntimeStep DEF Next
  <2>2. CASE UNCHANGED vars
        BY <2>2 DEF vars, RuntimeInv
  <2> QED BY <2>1, <2>2
<1> QED BY <1>1, <1>2, PTL DEF Spec

LEMMA SwitchAlways == Spec => [](which = "switches" => SwitchInv)
<1>1. Init => (which = "switches" => SwitchInv)
      BY SwitchInit DEF Init
<1>2. (which = "switches" => SwitchInv) /\ [Next]_vars => (which = "switches" => SwitchInv)'
  <2> SUFFICES ASSUME which = "switches" => SwitchInv, [Next]_vars, which' = "switches" PROVE SwitchInv'
      OBVIOUS
  <2>1. CASE Next
        BY <2>1, SwitchStep DEF Next
  <2>2. CASE UNCHANGED vars
        BY <2>2 DEF vars, SwitchInv
  <2> QED BY <2>1, <2>2
<1> QED BY <1>1, <1>2, PTL DEF Spec

LEMMA NovelAlways == Spec => [](which = "story" => NovelInv)
<1>1. Init => (which = "story" => NovelInv)
      BY NovelInit DEF Init
<1>2. (which = "story" => NovelInv) /\ [Next]_vars => (which = "story" => NovelInv)'
  <2> SUFFICES ASSUME which = "story" => NovelInv, [Next]_vars, which' = "story" PROVE NovelInv'
      OBVIOUS
  <2>1. CASE Next
        BY <2>1, NovelStep DEF Next
  <2>2. CASE UNCHANGED vars
        BY <2>2 DEF vars, NovelInv
  <2> QED BY <2>1, <2>2
<1> QED BY <1>1, <1>2, PTL DEF Spec

\* However fetches of the codex, live entries, commits and the tab overlap, an
\* entry announced live stays new until the player has seen it, unless a fetch
\* has read the backend without it: before the entry was found, or after it was
\* announced and before the turn committed (gameDataStore.ts fetchCodexEntries,
\* addCodexEntry; chat_service.py process_message).
THEOREM NewEntriesStayNew == Spec => []NewUntilSeen
<1>1. (which = "book" => CodexInv) => NewUntilSeen
      BY DEF NewUntilSeen, CodexInv
<1> QED BY <1>1, CodexAlways, PTL

\* However often a block is drawn anew and whichever renderer is found for it,
\* a guide, a form or a sheet is answered once during a visit
\* (AutoGuideRenderer.tsx, FormRenderer.tsx, CharacterSheetRenderer.tsx).
THEOREM BlocksAnsweredOnce == Spec => []AnsweredOnce
<1>1. (which = "blocks" => BlockInv) => AnsweredOnce
      BY DEF AnsweredOnce, BlockInv
<1> QED BY <1>1, BlockAlways, PTL

\* Rebuilding the list of blocks keeps what the player has entered, and the
\* sheet of a character that exists sends nothing but what was edited, unless
\* its data came again; that of a new character sends all of its fields
\* (blockInteractionState.ts, CharacterSheetRenderer.tsx handleConfirm).
THEOREM DraftsSurvive == Spec => []DraftSurvivesMounting
<1>1. (which = "blocks" => BlockInv) => DraftSurvivesMounting
      BY DEF DraftSurvivesMounting, BlockInv
<1> QED BY <1>1, BlockAlways, PTL

\* A read of the browser finds what was shown and written, however many
\* detections overlap on either side, until one of them overrules the answer
\* of a later one that the backend lasts (settingsStorage.ts detectBackend,
\* idbSync.ts isPersistent).
THEOREM WritesAreRead == Spec => []ReadsFindWrites
<1>1. (which = "store" => StoreInv) => ReadsFindWrites
      BY DEF ReadsFindWrites, StoreInv, Store!ReadsFindWrites
<1> QED BY <1>1, StoreAlways, PTL

\* Late answers of templates, runs and streams never change what is created: a
\* project gets the document that was shown - or, made while its world was
\* being written, what had come of that world - and a novel that ended without
\* an error has all of its chapters (CreateProjectWizard.tsx, NovelPanel.tsx).
THEOREM GeneratedIsShown == Spec => []GeneratedAsShown
<1>1. (which = "new" => WizardInv) /\ (which = "story" => NovelInv) => GeneratedAsShown
      BY NovelProperties DEF GeneratedAsShown, WizardInv
<1> QED BY <1>1, WizardAlways, NovelAlways, PTL

\* The models form returns what was saved.  The other settings panels, at rest
\* and with the answer the backend gave last, show what is stored for the
\* session or project of that answer; unless requests were under way when the
\* open one was chosen, or a list failed, it is the open one
\* (ModelSettings.tsx, RuntimeSettingsPanel.tsx, PluginPanel.tsx).
THEOREM SettingsAreStored == Spec => []SettingsReturn
<1>1. (which = "models" => ModelInv) /\ (which = "runtime" => RuntimeInv)
         /\ (which = "switches" => SwitchInv) => SettingsReturn
      BY ModelProperties, RuntimeProperties, SwitchProperties DEF SettingsReturn
<1> QED BY <1>1, ModelAlways, RuntimeAlways, SwitchAlways, PTL

=============================================================================
