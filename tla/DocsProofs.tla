----------------------------- MODULE DocsProofs -----------------------------
(***************************************************************************)
(* Proofs about the page of a project: what is stored was made there, and  *)
(* the newest world document is not overtaken.  With the other panels this *)
(* gives the type correctness of the panels.                               *)
(***************************************************************************)
EXTENDS PanelProofs

IsDocs(p) ==
    p = [lasting |-> p.lasting, stored |-> p.stored, visits |-> p.visits,
         route |-> p.route, loading |-> p.loading, listing |-> p.listing,
         loads |-> p.loads, current |-> p.current, tab |-> p.tab,
         content |-> p.content, timer |-> p.timer, revision |-> p.revision,
         generating |-> p.generating, draft |-> p.draft,
         promptTimers |-> p.promptTimers, saves |-> p.saves, author |-> p.author,
         newest |-> p.newest, excused |-> p.excused]

DocRows == [doc : Docs!Texts, prompt : Docs!Texts]

Saves == [id : Docs!Projects, field : {"doc", "prompt"}, text : Docs!Texts,
          base : SUBSET DocRows, done : BOOLEAN]

Timers == [id : Docs!Projects, text : Docs!Texts, typed : BOOLEAN]

Generations == [id : Docs!Projects, text : Docs!Texts, alive : BOOLEAN]

Loads == [id : Docs!Projects, visit : Nat, row : SUBSET DocRows]

Currents == [id : Docs!Projects \cup {"none"}, row : DocRows]

DocTypes(p) ==
    /\ IsDocs(p)
    /\ p.route \in Docs!Projects \cup {"list"}
    /\ p.visits \in Nat /\ p.loads \subseteq Loads
    /\ p.current \in Currents /\ p.stored \in [Docs!Projects -> DocRows]
    /\ p.content \in Docs!Texts /\ p.draft \in Docs!Texts
    /\ p.timer \subseteq Timers /\ \A t, u \in p.timer : t = u
    /\ p.revision \subseteq [ready : BOOLEAN, text : Docs!Texts]
    /\ p.generating \subseteq Generations
    /\ p.promptTimers \subseteq [text : Docs!Texts, own : BOOLEAN]
    /\ p.saves \subseteq Saves /\ \A s \in p.saves : s.done => s.base # {}
    /\ p.author \in Seq(Docs!Projects) /\ Len(p.author) <= MaxTexts
    /\ p.newest \in [Docs!Projects -> Docs!Texts]
    /\ p.excused \subseteq {"replaced", "lost"}

\* A text waits, is revised or comes in under the eyes of the player only as
\* long as the editor is mounted.
DocMounted(p) ==
    /\ p.timer # {} => Docs!Editing(p, "world")
    /\ p.revision # {} => Docs!Editing(p, "world")
    /\ \A g \in p.generating : g.alive => Docs!Editing(p, "world")

\* A text was made in a project.
Home(p, id, text) == text # 0 => text \in DOMAIN p.author /\ p.author[text] = id

\* Wherever a world document is, it is one of its project.
DocHome(p) ==
    "replaced" \notin p.excused =>
        /\ \A id \in Docs!Projects : Home(p, id, p.stored[id].doc)
        /\ \A t \in p.timer : Home(p, t.id, t.text)
        /\ \A g \in p.generating : Home(p, g.id, g.text)
        /\ \A s \in p.saves :
              /\ s.field = "doc" => Home(p, s.id, s.text)
              /\ \A r \in s.base : Home(p, s.id, r.doc)
        /\ \A l \in p.loads : \A r \in l.row : Home(p, l.id, r.doc)
        /\ p.current.id # "none" => Home(p, p.current.id, p.current.row.doc)

\* What the mounted editor has is of the project that is shown.
DocHere(p) ==
    "replaced" \notin p.excused =>
        /\ \A t \in p.timer : t.id = p.current.id
        /\ \A g \in p.generating : g.alive => g.id = p.current.id
        /\ \A r \in p.revision : r.ready => Home(p, p.current.id, r.text)

\* One save is under way at a time, and it merges into what is stored; an
\* older text is being saved only while the newest one waits.
DocNewest(p) ==
    p.excused = {} =>
        /\ \A s, u \in p.saves : s = u
        /\ \A s \in p.saves : s.base \subseteq {p.stored[s.id]}
        /\ p.current.id # "none" =>
              \/ p.current.row = p.stored[p.current.id]
              \/ \E s \in p.saves : s.done /\ s.id = p.current.id
        /\ \A t \in p.timer : t.text = p.newest[t.id]
        /\ \A s \in p.saves :
              ~s.done /\ s.field = "doc" =>
                  s.text = p.newest[s.id] \/ \E t \in p.timer : t.id = s.id
        /\ \A id \in Docs!Projects :
              \/ p.stored[id].doc = p.newest[id]
              \/ \E t \in p.timer : t.id = id
              \/ \E s \in p.saves :
                    ~s.done /\ s.field = "doc" /\ s.id = id /\ s.text = p.newest[id]

DocOK(p) == DocTypes(p) /\ DocMounted(p) /\ DocHome(p) /\ DocHere(p) /\ DocNewest(p)

DocInv == DocOK(panel)

LEMMA DocInit == MaxTexts \in Nat /\ Docs!Init => DocInv
<1> SUFFICES ASSUME MaxTexts \in Nat, Docs!Init PROVE DocOK(panel)
    BY DEF DocInv
<1>1. /\ IsDocs(panel)
      /\ panel.route = "list" /\ panel.loads = {} /\ panel.visits = 0
      /\ panel.stored = [id \in Docs!Projects |-> Docs!EmptyRow]
      /\ panel.current = [id |-> "none", row |-> Docs!EmptyRow]
      /\ panel.content = 0 /\ panel.timer = {} /\ panel.revision = {} /\ panel.generating = {}
      /\ panel.draft = 0 /\ panel.promptTimers = {} /\ panel.saves = {} /\ panel.author = <<>>
      /\ panel.newest = [id \in Docs!Projects |-> 0] /\ panel.excused = {}
      BY DEF Docs!Init, IsDocs
<1>2. 0 \in Docs!Texts
      BY DEF Docs!Texts
<1>3. Docs!EmptyRow \in DocRows /\ Docs!EmptyRow.doc = 0
      BY <1>2 DEF Docs!EmptyRow, DocRows
<1>4. <<>> \in Seq(Docs!Projects) /\ Len(<<>>) <= MaxTexts
      OBVIOUS
<1>5. DocTypes(panel)
      BY <1>1, <1>2, <1>3, <1>4 DEF DocTypes, Currents
<1>6. DocMounted(panel) /\ DocHere(panel)
      BY <1>1 DEF DocMounted, DocHere
<1>7. DocHome(panel)
      BY <1>1, <1>3 DEF DocHome, Home
<1>8. DocNewest(panel)
      BY <1>1, <1>3 DEF DocNewest
<1> QED BY <1>5, <1>6, <1>7, <1>8 DEF DocOK

-----------------------------------------------------------------------------
(* Saving                                                                  *)

\* A save that begins is noted, and merges into the row that is shown or into
\* what is stored; two saves under way together are excused.
Begun(p, o, id, field, text, base) ==
    /\ base = {} \/ (p.current.id = id /\ base = {p.current.row})
    /\ IsDocs(o)
    /\ o.lasting = p.lasting /\ o.stored = p.stored /\ o.visits = p.visits
    /\ o.route = p.route /\ o.loading = p.loading /\ o.listing = p.listing
    /\ o.loads = p.loads /\ o.current = p.current /\ o.tab = p.tab
    /\ o.content = p.content /\ o.timer = p.timer /\ o.revision = p.revision
    /\ o.generating = p.generating /\ o.draft = p.draft
    /\ o.promptTimers = p.promptTimers /\ o.author = p.author
    /\ o.newest = p.newest
    /\ o.saves = p.saves \cup {[id |-> id, field |-> field, text |-> text,
                                base |-> base, done |-> FALSE]}
    /\ o.excused = p.excused \/ o.excused = p.excused \cup {"lost"}
    /\ o.excused = {} => p.excused = {} /\ p.saves = {}

LEMMA SaveBegunFields ==
    ASSUME NEW p, IsDocs(p), NEW id, NEW field, NEW text
    PROVE  \E base : Begun(p, Docs!SaveBegun(p, id, field, text), id, field, text, base)
<1>1. PICK base : base = IF p.current.id = id /\ ~p.lasting THEN {p.current.row} ELSE {}
      OBVIOUS
<1>2. PICK excused : excused = IF p.excused # {} \/ p.saves = {} THEN p.excused
                               ELSE p.excused \cup {"lost"}
      OBVIOUS
<1>3. PICK saves : saves = p.saves \cup {[id |-> id, field |-> field, text |-> text,
                                          base |-> base, done |-> FALSE]}
      OBVIOUS
<1>4. Docs!SaveBegun(p, id, field, text) = [p EXCEPT !.saves = saves, !.excused = excused]
      BY <1>1, <1>2, <1>3 DEF Docs!SaveBegun
<1>5. PICK o : o = [p EXCEPT !.saves = saves, !.excused = excused]
      OBVIOUS
<1>6. /\ IsDocs(o)
      /\ o.lasting = p.lasting /\ o.stored = p.stored /\ o.visits = p.visits
      /\ o.route = p.route /\ o.loading = p.loading /\ o.listing = p.listing
      /\ o.loads = p.loads /\ o.current = p.current /\ o.tab = p.tab
      /\ o.content = p.content /\ o.timer = p.timer /\ o.revision = p.revision
      /\ o.generating = p.generating /\ o.draft = p.draft
      /\ o.promptTimers = p.promptTimers /\ o.author = p.author
      /\ o.newest = p.newest /\ o.saves = saves /\ o.excused = excused
      BY <1>5 DEF IsDocs
<1>7. \/ base = {}
      \/ p.current.id = id /\ base = {p.current.row}
      BY <1>1
<1>8. /\ o.excused = p.excused \/ o.excused = p.excused \cup {"lost"}
      /\ o.excused = {} => p.excused = {} /\ p.saves = {}
      BY <1>2, <1>6
<1>9. Docs!SaveBegun(p, id, field, text) = o
      BY <1>4, <1>5
<1>10. Begun(p, o, id, field, text, base)
      BY <1>3, <1>6, <1>7, <1>8 DEF Begun
<1> QED BY <1>9, <1>10

\* A save that begins disturbs neither the types nor where documents are.
LEMMA SaveBegunKeeps ==
    ASSUME NEW p, DocTypes(p), DocMounted(p), DocHome(p), DocHere(p),
           NEW id \in Docs!Projects, NEW field \in {"doc", "prompt"}, NEW text \in Docs!Texts,
           "replaced" \notin p.excused /\ field = "doc" => Home(p, id, text)
    PROVE  LET o == Docs!SaveBegun(p, id, field, text)
           IN  DocTypes(o) /\ DocMounted(o) /\ DocHome(o) /\ DocHere(o)
<1>1. IsDocs(p)
      BY DEF DocTypes
<1>2. PICK o : o = Docs!SaveBegun(p, id, field, text)
      OBVIOUS
<1>a. PICK base : Begun(p, o, id, field, text, base)
      BY <1>1, <1>2, SaveBegunFields
<1>3. /\ base = {} \/ (p.current.id = id /\ base = {p.current.row})
      /\ IsDocs(o)
      /\ o.stored = p.stored /\ o.visits = p.visits /\ o.route = p.route
      /\ o.loading = p.loading
      /\ o.loads = p.loads /\ o.current = p.current /\ o.tab = p.tab
      /\ o.content = p.content /\ o.timer = p.timer /\ o.revision = p.revision
      /\ o.generating = p.generating /\ o.draft = p.draft
      /\ o.promptTimers = p.promptTimers /\ o.author = p.author
      /\ o.newest = p.newest
      /\ o.saves = p.saves \cup {[id |-> id, field |-> field, text |-> text,
                                  base |-> base, done |-> FALSE]}
      /\ o.excused = p.excused \/ o.excused = p.excused \cup {"lost"}
      BY <1>a DEF Begun
<1>4. base \subseteq DocRows
      BY <1>3 DEF DocTypes, Currents
<1>5. PICK save : save = [id |-> id, field |-> field, text |-> text, base |-> base, done |-> FALSE]
      OBVIOUS
<1>6. /\ save \in Saves /\ ~save.done /\ save.id = id /\ save.field = field
      /\ save.text = text /\ save.base = base /\ o.saves = p.saves \cup {save}
      BY <1>3, <1>4, <1>5 DEF Saves
<1>7. DocTypes(o)
      BY <1>3, <1>6 DEF DocTypes
<1>8. DocMounted(o)
      BY <1>3 DEF DocMounted, Docs!Editing
<1>9. DocHere(o)
      BY <1>3 DEF DocHere, Home
<1>10. DocHome(o)
  <2> SUFFICES ASSUME "replaced" \notin o.excused PROVE DocHome(o)
      BY DEF DocHome
  <2>1. "replaced" \notin p.excused
        BY <1>3
  <2>2. \A i, t : Home(o, i, t) <=> Home(p, i, t)
        BY <1>3 DEF Home
  <2>3. ASSUME NEW r \in base PROVE Home(p, id, r.doc)
    <3>1. p.current.id = id /\ r = p.current.row
          BY <1>3, <2>3
    <3>2. id # "none"
          BY DEF Docs!Projects
    <3> QED BY <2>1, <3>1, <3>2 DEF DocHome
  <2> QED BY <1>3, <1>6, <2>1, <2>2, <2>3 DEF DocHome
<1> QED BY <1>2, <1>7, <1>8, <1>9, <1>10

Unqueued(p) == [p EXCEPT !.timer = {}]

LEMMA UnqueuedFields ==
    ASSUME NEW p, IsDocs(p)
    PROVE  /\ IsDocs(Unqueued(p)) /\ Unqueued(p).timer = {}
           /\ Unqueued(p).lasting = p.lasting /\ Unqueued(p).stored = p.stored
           /\ Unqueued(p).visits = p.visits /\ Unqueued(p).route = p.route
           /\ Unqueued(p).loading = p.loading /\ Unqueued(p).listing = p.listing
           /\ Unqueued(p).loads = p.loads /\ Unqueued(p).current = p.current
           /\ Unqueued(p).tab = p.tab /\ Unqueued(p).content = p.content
           /\ Unqueued(p).revision = p.revision /\ Unqueued(p).generating = p.generating
           /\ Unqueued(p).draft = p.draft /\ Unqueued(p).promptTimers = p.promptTimers
           /\ Unqueued(p).saves = p.saves /\ Unqueued(p).author = p.author
           /\ Unqueued(p).newest = p.newest /\ Unqueued(p).excused = p.excused
BY DEF IsDocs, Unqueued

\* The text that waits is saved; when nothing is excused nothing else is.
LEMMA TimerSaved ==
    ASSUME NEW p, DocOK(p), NEW t \in p.timer, NEW id \in Docs!Projects,
           "replaced" \notin p.excused => id = t.id
    PROVE  DocOK(Docs!SaveBegun(Unqueued(p), id, "doc", t.text))
<1>a. /\ DocTypes(p) /\ DocMounted(p) /\ DocHome(p) /\ DocHere(p) /\ DocNewest(p)
      /\ IsDocs(p) /\ t \in Timers
      BY DEF DocOK, DocTypes
<1>1. PICK q : q = Unqueued(p)
      OBVIOUS
<1>2. /\ IsDocs(q) /\ q.timer = {}
      /\ q.lasting = p.lasting /\ q.stored = p.stored /\ q.visits = p.visits
      /\ q.route = p.route /\ q.loading = p.loading /\ q.listing = p.listing
      /\ q.loads = p.loads /\ q.current = p.current /\ q.tab = p.tab
      /\ q.content = p.content /\ q.revision = p.revision
      /\ q.generating = p.generating /\ q.draft = p.draft
      /\ q.promptTimers = p.promptTimers /\ q.saves = p.saves /\ q.author = p.author
      /\ q.newest = p.newest /\ q.excused = p.excused
      BY <1>a, <1>1, UnqueuedFields
<1>3. DocTypes(q)
      BY <1>a, <1>2 DEF DocTypes
<1>4. DocMounted(q)
      BY <1>a, <1>2 DEF DocMounted, Docs!Editing
<1>5. DocHome(q) /\ DocHere(q)
      BY <1>a, <1>2 DEF DocHome, DocHere, Home
<1>6. /\ t.text \in Docs!Texts
      /\ "replaced" \notin q.excused => Home(q, id, t.text)
      BY <1>a, <1>2 DEF Timers, DocHome, Home
<1>7. PICK o : o = Docs!SaveBegun(q, id, "doc", t.text)
      OBVIOUS
<1>8. "doc" \in {"doc", "prompt"}
      OBVIOUS
<1>9. DocTypes(o) /\ DocMounted(o) /\ DocHome(o) /\ DocHere(o)
      BY <1>3, <1>4, <1>5, <1>6, <1>7, <1>8, SaveBegunKeeps
<1>10. DocNewest(o)
  <2> SUFFICES ASSUME o.excused = {} PROVE DocNewest(o)
      BY DEF DocNewest
  <2>1. PICK base : Begun(q, o, id, "doc", t.text, base)
        BY <1>2, <1>7, SaveBegunFields
  <2>2. PICK save : save = [id |-> id, field |-> "doc", text |-> t.text,
                            base |-> base, done |-> FALSE]
        OBVIOUS
  <2>3. /\ base = {} \/ (p.current.id = id /\ base = {p.current.row})
        /\ o.stored = p.stored /\ o.current = p.current /\ o.newest = p.newest
        /\ o.timer = {} /\ o.saves = {save} /\ p.excused = {} /\ p.saves = {}
        BY <1>2, <2>1, <2>2 DEF Begun
  <2>4. /\ ~save.done /\ save.id = id /\ save.field = "doc"
        /\ save.text = t.text /\ save.base = base
        BY <2>2
  <2>5. id = t.id /\ id # "none" /\ t.text = p.newest[id]
        BY <1>a, <2>3 DEF DocNewest, Docs!Projects
  <2>6. \A u \in p.timer : u = t
        BY <1>a DEF DocTypes
  <2>7. /\ p.current.id # "none" => p.current.row = p.stored[p.current.id]
        /\ \A i \in Docs!Projects : p.stored[i].doc = p.newest[i] \/ i = id
        BY <1>a, <2>3, <2>5, <2>6 DEF DocNewest
  <2>8. save.base \subseteq {o.stored[save.id]}
        BY <2>3, <2>4, <2>5, <2>7
  <2> QED BY <2>3, <2>4, <2>5, <2>7, <2>8 DEF DocNewest
<1> QED BY <1>1, <1>7, <1>9, <1>10 DEF DocOK

\* The prompt is saved to the project that is shown: what is stored with it is
\* the document of the row that is shown, the stored one.
LEMMA PromptSaved ==
    ASSUME NEW p, DocOK(p), p.current.id \in Docs!Projects, NEW text \in Docs!Texts
    PROVE  DocOK(Docs!SaveBegun(p, p.current.id, "prompt", text))
<1>a. /\ DocTypes(p) /\ DocMounted(p) /\ DocHome(p) /\ DocHere(p) /\ DocNewest(p)
      /\ IsDocs(p)
      BY DEF DocOK, DocTypes
<1>1. PICK o : o = Docs!SaveBegun(p, p.current.id, "prompt", text)
      OBVIOUS
<1>2. "prompt" \in {"doc", "prompt"} /\ "prompt" # "doc"
      OBVIOUS
<1>3. DocTypes(o) /\ DocMounted(o) /\ DocHome(o) /\ DocHere(o)
      BY <1>a, <1>1, <1>2, SaveBegunKeeps
<1>4. DocNewest(o)
  <2> SUFFICES ASSUME o.excused = {} PROVE DocNewest(o)
      BY DEF DocNewest
  <2>1. PICK base : Begun(p, o, p.current.id, "prompt", text, base)
        BY <1>a, <1>1, SaveBegunFields
  <2>2. PICK save : save = [id |-> p.current.id, field |-> "prompt", text |-> text,
                            base |-> base, done |-> FALSE]
        OBVIOUS
  <2>3. /\ base = {} \/ base = {p.current.row}
        /\ o.stored = p.stored /\ o.current = p.current /\ o.newest = p.newest
        /\ o.timer = p.timer /\ o.saves = {save} /\ p.excused = {} /\ p.saves = {}
        BY <2>1, <2>2 DEF Begun
  <2>4. ~save.done /\ save.id = p.current.id /\ save.field = "prompt" /\ save.base = base
        BY <2>2
  <2>5. p.current.id # "none"
        BY DEF Docs!Projects
  <2>6. /\ p.current.row = p.stored[p.current.id]
        /\ \A t \in p.timer : t.text = p.newest[t.id]
        /\ \A i \in Docs!Projects :
              p.stored[i].doc = p.newest[i] \/ \E t \in p.timer : t.id = i
        BY <1>a, <2>3, <2>5 DEF DocNewest
  <2>7. save.base \subseteq {o.stored[save.id]}
        BY <2>3, <2>4, <2>6
  <2> QED BY <2>3, <2>4, <2>6, <2>7 DEF DocNewest
<1> QED BY <1>1, <1>3, <1>4 DEF DocOK

\* Leaving the input saves what was typed.
LEMMA BlurredKeeps ==
    ASSUME NEW p, DocOK(p)
    PROVE  DocOK(Docs!Blurred(p))
<1>1. CASE ~\E t \in p.timer : t.typed
      BY <1>1 DEF Docs!Blurred
<1>2. CASE \E t \in p.timer : t.typed
  <2>1. PICK t : t = CHOOSE u \in p.timer : TRUE
        OBVIOUS
  <2>2. t \in p.timer
        BY <1>2, <2>1
  <2>3. Docs!Blurred(p) = Docs!SaveBegun(Unqueued(p), p.current.id, "doc", t.text)
        BY <1>2, <2>1 DEF Docs!Blurred, Unqueued
  <2>4. p.current.id \in Docs!Projects
        BY <2>2 DEF DocOK, DocTypes, DocMounted, Docs!Editing, Currents
  <2>5. "replaced" \notin p.excused => p.current.id = t.id
        BY <2>2 DEF DocOK, DocHere
  <2> QED BY <2>2, <2>3, <2>4, <2>5, TimerSaved
<1> QED BY <1>1, <1>2

-----------------------------------------------------------------------------
(* Writing                                                                 *)

\* A text that is made belongs to its project, and so do the others still.
LEMMA WrittenKeeps ==
    ASSUME NEW p, DocOK(p), NEW id \in Docs!Projects, Len(p.author) + 1 <= MaxTexts
    PROVE  /\ DocOK(Docs!Written(p, id))
           /\ Len(p.author) + 1 \in Docs!Texts
           /\ Home(Docs!Written(p, id), id, Len(p.author) + 1)
           /\ Docs!Written(p, id).current = p.current
           /\ Docs!Written(p, id).timer = p.timer
           /\ Docs!Written(p, id).excused = p.excused
           /\ Docs!Editing(Docs!Written(p, id), "world") <=> Docs!Editing(p, "world")
           /\ Docs!Editing(Docs!Written(p, id), "prompt") <=> Docs!Editing(p, "prompt")
<1>a. DocTypes(p) /\ DocMounted(p) /\ DocHome(p) /\ DocHere(p) /\ DocNewest(p) /\ IsDocs(p)
      BY DEF DocOK, DocTypes
<1>1. PICK o : o = Docs!Written(p, id)
      OBVIOUS
<1>2. /\ IsDocs(o) /\ o.author = Append(p.author, id)
      /\ o.lasting = p.lasting /\ o.stored = p.stored /\ o.visits = p.visits
      /\ o.route = p.route /\ o.loading = p.loading /\ o.listing = p.listing
      /\ o.loads = p.loads /\ o.current = p.current /\ o.tab = p.tab
      /\ o.content = p.content /\ o.timer = p.timer /\ o.revision = p.revision
      /\ o.generating = p.generating /\ o.draft = p.draft
      /\ o.promptTimers = p.promptTimers /\ o.saves = p.saves
      /\ o.newest = p.newest /\ o.excused = p.excused
      BY <1>a, <1>1 DEF Docs!Written, IsDocs
<1>3. p.author \in Seq(Docs!Projects) /\ Len(p.author) \in Nat
      BY <1>a DEF DocTypes
<1>4. /\ o.author \in Seq(Docs!Projects) /\ Len(o.author) = Len(p.author) + 1
      /\ Len(p.author) + 1 \in DOMAIN o.author /\ o.author[Len(p.author) + 1] = id
      /\ \A n \in DOMAIN p.author : n \in DOMAIN o.author /\ o.author[n] = p.author[n]
      BY <1>2, <1>3
<1>5. Len(p.author) + 1 \in Docs!Texts
      BY <1>3, PanelsAssumption DEF Docs!Texts
<1>6. \A i, t : Home(p, i, t) => Home(o, i, t)
      BY <1>4 DEF Home
<1>7. DocTypes(o)
      BY <1>a, <1>2, <1>4 DEF DocTypes
<1>8. DocMounted(o)
      BY <1>a, <1>2 DEF DocMounted, Docs!Editing
<1>9. DocHome(o) /\ DocHere(o)
      BY <1>a, <1>2, <1>6 DEF DocHome, DocHere
<1>10. DocNewest(o)
      BY <1>a, <1>2 DEF DocNewest
<1>11. /\ Docs!Editing(o, "world") <=> Docs!Editing(p, "world")
       /\ Docs!Editing(o, "prompt") <=> Docs!Editing(p, "prompt")
      BY <1>2 DEF Docs!Editing
<1>12. Home(o, id, Len(p.author) + 1)
      BY <1>4 DEF Home
<1> QED BY <1>1, <1>2, <1>5, <1>7, <1>8, <1>9, <1>10, <1>11, <1>12 DEF DocOK

\* A text of the project that is shown takes the place of the one that waits.
LEMMA QueuedKeeps ==
    ASSUME NEW p, DocOK(p), Docs!Editing(p, "world"),
           NEW text \in Docs!Texts, NEW typed \in BOOLEAN,
           "replaced" \notin p.excused => Home(p, p.current.id, text)
    PROVE  DocOK(Docs!Queued(p, text, typed))
<1>a. DocTypes(p) /\ DocMounted(p) /\ DocHome(p) /\ DocHere(p) /\ DocNewest(p) /\ IsDocs(p)
      BY DEF DocOK, DocTypes
<1>b. p.current.id \in Docs!Projects
      BY <1>a DEF DocTypes, Currents, Docs!Editing
<1>1. PICK o : o = Docs!Queued(p, text, typed)
      OBVIOUS
<1>2. PICK newest : newest = [p.newest EXCEPT ![p.current.id] = text]
      OBVIOUS
<1>3. PICK t : t = [id |-> p.current.id, text |-> text, typed |-> typed]
      OBVIOUS
<1>4. o = [p EXCEPT !.content = text, !.newest = newest, !.timer = {t}]
      BY <1>1, <1>2, <1>3 DEF Docs!Queued
<1>5. /\ IsDocs(o) /\ o.content = text /\ o.newest = newest /\ o.timer = {t}
      /\ o.lasting = p.lasting /\ o.stored = p.stored /\ o.visits = p.visits
      /\ o.route = p.route /\ o.loading = p.loading /\ o.listing = p.listing
      /\ o.loads = p.loads /\ o.current = p.current /\ o.tab = p.tab
      /\ o.revision = p.revision /\ o.generating = p.generating /\ o.draft = p.draft
      /\ o.promptTimers = p.promptTimers /\ o.saves = p.saves /\ o.author = p.author
      /\ o.excused = p.excused
      BY <1>a, <1>4 DEF IsDocs
<1>6. t \in Timers /\ t.id = p.current.id /\ t.text = text
      BY <1>b, <1>3 DEF Timers
<1>7. /\ newest \in [Docs!Projects -> Docs!Texts]
      /\ newest[p.current.id] = text
      /\ \A id \in Docs!Projects \ {p.current.id} : newest[id] = p.newest[id]
      BY <1>a, <1>b, <1>2 DEF DocTypes
<1>8. DocTypes(o)
      BY <1>a, <1>5, <1>6, <1>7 DEF DocTypes
<1>9. DocMounted(o)
      BY <1>a, <1>5 DEF DocMounted, Docs!Editing
<1>10. \A i, n : Home(o, i, n) <=> Home(p, i, n)
      BY <1>5 DEF Home
<1>11. DocHome(o) /\ DocHere(o)
      BY <1>a, <1>5, <1>6, <1>10 DEF DocHome, DocHere
<1>12. DocNewest(o)
  <2> SUFFICES ASSUME o.excused = {} PROVE DocNewest(o)
      BY DEF DocNewest
  <2>1. p.excused = {} /\ \A u \in p.timer : u.id = p.current.id
        BY <1>a, <1>5 DEF DocHere
  <2>2. \A s \in p.saves : s.id \in Docs!Projects
        BY <1>a DEF DocTypes, Saves
  <2>3. ASSUME NEW s \in p.saves, ~s.done, s.field = "doc"
        PROVE  s.text = newest[s.id] \/ t.id = s.id
        BY <1>a, <1>6, <1>7, <2>1, <2>2, <2>3 DEF DocNewest
  <2>4. ASSUME NEW id \in Docs!Projects
        PROVE  \/ p.stored[id].doc = newest[id]
               \/ t.id = id
               \/ \E s \in p.saves :
                     ~s.done /\ s.field = "doc" /\ s.id = id /\ s.text = newest[id]
        BY <1>a, <1>6, <1>7, <2>1, <2>4 DEF DocNewest
  <2> QED BY <1>a, <1>5, <1>6, <1>7, <2>1, <2>3, <2>4 DEF DocNewest
<1> QED BY <1>1, <1>8, <1>9, <1>11, <1>12 DEF DocOK

-----------------------------------------------------------------------------
(* Mounting                                                                *)

\* The prompt's editor has a draft and timers of its own.
LEMMA PromptRenderedKeeps ==
    ASSUME NEW p, NEW q, DocOK(q)
    PROVE  DocOK(Docs!PromptRendered(p, q))
<1>a. DocTypes(q) /\ DocMounted(q) /\ DocHome(q) /\ DocHere(q) /\ DocNewest(q) /\ IsDocs(q)
      BY DEF DocOK, DocTypes
<1>1. PICK off : off = {[t EXCEPT !.own = FALSE] : t \in q.promptTimers}
      OBVIOUS
<1>2. PICK o : o = Docs!PromptRendered(p, q)
      OBVIOUS
<1>3. \/ o = [q EXCEPT !.draft = q.current.row.prompt]
      \/ o = [q EXCEPT !.draft = 0, !.promptTimers = off]
      \/ o = q
      BY <1>1, <1>2 DEF Docs!PromptRendered
<1>4. /\ IsDocs(o)
      /\ o.lasting = q.lasting /\ o.stored = q.stored /\ o.visits = q.visits
      /\ o.route = q.route /\ o.loading = q.loading /\ o.listing = q.listing
      /\ o.loads = q.loads /\ o.current = q.current /\ o.tab = q.tab
      /\ o.content = q.content /\ o.timer = q.timer /\ o.revision = q.revision
      /\ o.generating = q.generating /\ o.saves = q.saves /\ o.author = q.author
      /\ o.newest = q.newest /\ o.excused = q.excused
      /\ o.draft \in {q.current.row.prompt, 0, q.draft}
      /\ o.promptTimers \in {off, q.promptTimers}
      BY <1>a, <1>3 DEF IsDocs
<1>5. off \subseteq [text : Docs!Texts, own : BOOLEAN]
      BY <1>a, <1>1 DEF DocTypes
<1>6. 0 \in Docs!Texts /\ q.current.row.prompt \in Docs!Texts
      BY <1>a, PanelsAssumption DEF Docs!Texts, DocTypes, Currents, DocRows
<1>7. DocTypes(o)
      BY <1>a, <1>4, <1>5, <1>6 DEF DocTypes
<1>8. DocMounted(o)
      BY <1>a, <1>4 DEF DocMounted, Docs!Editing
<1>9. DocHome(o) /\ DocHere(o)
      BY <1>a, <1>4 DEF DocHome, DocHere, Home
<1>10. DocNewest(o)
      BY <1>a, <1>4 DEF DocNewest
<1> QED BY <1>2, <1>7, <1>8, <1>9, <1>10 DEF DocOK

\* The editor of the world document is mounted, unmounted, given another
\* project or left alone: what it had is gone, excused when it waited, or is
\* still of the project that is shown.
LEMMA WorldRenderedKeeps ==
    ASSUME NEW p, DocTypes(p), DocMounted(p), DocHere(p),
           NEW q, DocTypes(q), DocHome(q), DocNewest(q),
           q.timer = p.timer, q.revision = p.revision, q.generating = p.generating,
           q.excused = p.excused \/ q.excused = p.excused \cup {"lost"},
           q.author = p.author
    PROVE  DocOK(Docs!WorldRendered(p, q))
<1>a. IsDocs(q)
      BY DEF DocTypes
<1>b. q.current.row.doc \in Docs!Texts /\ 0 \in Docs!Texts
      BY PanelsAssumption DEF DocTypes, Currents, DocRows, Docs!Texts
<1>1. PICK o : o = Docs!WorldRendered(p, q)
      OBVIOUS
<1>2. CASE ~Docs!Editing(p, "world") /\ Docs!Editing(q, "world")
  <2>1. o = [q EXCEPT !.content = q.current.row.doc, !.timer = {}]
        BY <1>1, <1>2 DEF Docs!WorldRendered, Docs!WorldShown
  <2>2. /\ IsDocs(o) /\ o.content = q.current.row.doc /\ o.timer = {}
        /\ o.lasting = q.lasting /\ o.stored = q.stored /\ o.visits = q.visits
        /\ o.route = q.route /\ o.loading = q.loading /\ o.listing = q.listing
        /\ o.loads = q.loads /\ o.current = q.current /\ o.tab = q.tab
        /\ o.revision = q.revision /\ o.generating = q.generating /\ o.draft = q.draft
        /\ o.promptTimers = q.promptTimers /\ o.saves = q.saves /\ o.author = q.author
        /\ o.newest = q.newest /\ o.excused = q.excused
        BY <1>a, <2>1 DEF IsDocs
  <2>3. q.timer = {} /\ q.revision = {} /\ \A g \in q.generating : ~g.alive
        BY <1>2 DEF DocMounted
  <2>4. DocTypes(o)
        BY <1>b, <2>2 DEF DocTypes
  <2>5. DocMounted(o) /\ DocHere(o)
        BY <2>2, <2>3 DEF DocMounted, DocHere
  <2>6. DocHome(o)
        BY <2>2 DEF DocHome, Home
  <2>7. DocNewest(o)
        BY <2>2, <2>3 DEF DocNewest
  <2> QED BY <1>1, <2>4, <2>5, <2>6, <2>7 DEF DocOK
<1>3. CASE Docs!Editing(p, "world") /\ ~Docs!Editing(q, "world")
  <2>1. PICK generating : generating = {[g EXCEPT !.alive = FALSE] : g \in q.generating}
        OBVIOUS
  <2>2. PICK excused : excused = IF q.timer = {} THEN q.excused ELSE q.excused \cup {"lost"}
        OBVIOUS
  <2>3. o = [q EXCEPT !.content = 0, !.timer = {}, !.revision = {},
                      !.generating = generating, !.excused = excused]
        BY <1>1, <1>3, <2>1, <2>2 DEF Docs!WorldRendered, Docs!WorldLeft
  <2>4. /\ IsDocs(o) /\ o.content = 0 /\ o.timer = {} /\ o.revision = {}
        /\ o.generating = generating /\ o.excused = excused
        /\ o.lasting = q.lasting /\ o.stored = q.stored /\ o.visits = q.visits
        /\ o.route = q.route /\ o.loading = q.loading /\ o.listing = q.listing
        /\ o.loads = q.loads /\ o.current = q.current /\ o.tab = q.tab
        /\ o.draft = q.draft /\ o.promptTimers = q.promptTimers /\ o.saves = q.saves
        /\ o.author = q.author /\ o.newest = q.newest
        BY <1>a, <2>3 DEF IsDocs
  <2>5. ASSUME NEW g \in generating
        PROVE  g \in Generations /\ ~g.alive
               /\ \E h \in q.generating : g.id = h.id /\ g.text = h.text
    <3>1. PICK h \in q.generating : g = [h EXCEPT !.alive = FALSE]
          BY <2>1, <2>5
    <3>2. h \in Generations
          BY DEF DocTypes
    <3> QED BY <3>1, <3>2 DEF Generations
  <2>6. /\ excused \subseteq {"replaced", "lost"}
        /\ excused = {} => q.excused = {} /\ q.timer = {}
        /\ "replaced" \in q.excused => "replaced" \in excused
        BY <2>2 DEF DocTypes
  <2>7. DocTypes(o)
        BY <1>b, <2>4, <2>5, <2>6 DEF DocTypes
  <2>8. DocMounted(o) /\ DocHere(o)
        BY <2>4, <2>5 DEF DocMounted, DocHere
  <2>9. \A i, n : Home(o, i, n) <=> Home(q, i, n)
        BY <2>4 DEF Home
  <2>10. DocHome(o)
        BY <2>4, <2>5, <2>6, <2>9 DEF DocHome
  <2>11. DocNewest(o)
        BY <2>4, <2>6 DEF DocNewest
  <2> QED BY <1>1, <2>7, <2>8, <2>10, <2>11 DEF DocOK
<1>4. CASE /\ Docs!Editing(p, "world") /\ Docs!Editing(q, "world")
           /\ p.current.id # q.current.id
  <2>1. o = [Docs!WorldShown(q) EXCEPT !.excused = {"replaced", "lost"}]
        BY <1>1, <1>4 DEF Docs!WorldRendered
  <2>2. /\ IsDocs(o) /\ o.content = q.current.row.doc /\ o.timer = {}
        /\ o.lasting = q.lasting /\ o.stored = q.stored /\ o.visits = q.visits
        /\ o.route = q.route /\ o.loading = q.loading /\ o.listing = q.listing
        /\ o.loads = q.loads /\ o.current = q.current /\ o.tab = q.tab
        /\ o.revision = q.revision /\ o.generating = q.generating /\ o.draft = q.draft
        /\ o.promptTimers = q.promptTimers /\ o.saves = q.saves /\ o.author = q.author
        /\ o.newest = q.newest /\ o.excused = {"replaced", "lost"}
        BY <1>a, <2>1 DEF IsDocs, Docs!WorldShown
  <2>3. DocTypes(o)
        BY <1>b, <2>2 DEF DocTypes
  <2>4. DocMounted(o)
        BY <1>4, <2>2 DEF DocMounted, Docs!Editing
  <2>5. DocHome(o) /\ DocHere(o) /\ DocNewest(o)
        BY <2>2 DEF DocHome, DocHere, DocNewest
  <2> QED BY <1>1, <2>3, <2>4, <2>5 DEF DocOK
<1>5. CASE /\ Docs!Editing(p, "world") <=> Docs!Editing(q, "world")
           /\ Docs!Editing(p, "world") => p.current.id = q.current.id
  <2>1. o = q
        BY <1>1, <1>5 DEF Docs!WorldRendered
  <2>2. DocMounted(q)
        BY <1>5 DEF DocMounted
  <2>3. DocHere(q)
    <3>1. CASE Docs!Editing(p, "world")
          BY <1>5, <3>1 DEF DocHere, Home
    <3>2. CASE ~Docs!Editing(p, "world")
          BY <3>2 DEF DocMounted, DocHere
    <3> QED BY <3>1, <3>2
  <2> QED BY <1>1, <2>1, <2>2, <2>3 DEF DocOK
<1> QED BY <1>2, <1>3, <1>4, <1>5

LEMMA RenderedKeeps ==
    ASSUME NEW p, DocTypes(p), DocMounted(p), DocHere(p),
           NEW q, DocTypes(q), DocHome(q), DocNewest(q),
           q.timer = p.timer, q.revision = p.revision, q.generating = p.generating,
           q.excused = p.excused \/ q.excused = p.excused \cup {"lost"},
           q.author = p.author
    PROVE  DocOK(Docs!Rendered(p, q))
BY WorldRenderedKeeps, PromptRenderedKeeps DEF Docs!Rendered

-----------------------------------------------------------------------------
(* The steps                                                               *)

LEMMA EditingKnown ==
    ASSUME NEW p, DocTypes(p), NEW tab, Docs!Editing(p, tab)
    PROVE  p.current.id \in Docs!Projects
BY DEF DocTypes, Currents, Docs!Editing

\* An answer is stored: of two texts it is the newer one, or the newest waits.
LEMMA SaveStoresKeeps == DocInv /\ Docs!SaveStores => DocInv'
<1> SUFFICES ASSUME DocOK(panel), Docs!SaveStores PROVE DocOK(panel')
    BY DEF DocInv
<1>a. /\ DocTypes(panel) /\ DocMounted(panel) /\ DocHome(panel) /\ DocHere(panel)
      /\ DocNewest(panel) /\ IsDocs(panel)
      BY DEF DocOK, DocTypes
<1>1. PICK save \in panel.saves :
         /\ ~save.done
         /\ panel' = [panel EXCEPT !.stored[save.id] = Docs!Merged(save),
                                   !.saves = (@ \ {save}) \cup
                                      {[save EXCEPT !.base = {Docs!Merged(save)}, !.done = TRUE]}]
      BY DEF Docs!SaveStores
<1>2. PICK row : row = Docs!Merged(save)
      OBVIOUS
<1>3. PICK kept : kept = [save EXCEPT !.base = {row}, !.done = TRUE]
      OBVIOUS
<1>4. PICK stored : stored = [panel.stored EXCEPT ![save.id] = row]
      OBVIOUS
<1>5. PICK saves : saves = (panel.saves \ {save}) \cup {kept}
      OBVIOUS
<1>6. panel' = [panel EXCEPT !.stored = stored, !.saves = saves]
      BY <1>1, <1>2, <1>3, <1>4, <1>5
<1>7. /\ IsDocs(panel') /\ panel'.lasting = panel.lasting /\ panel'.stored = stored
      /\ panel'.visits = panel.visits /\ panel'.route = panel.route
      /\ panel'.loading = panel.loading /\ panel'.listing = panel.listing
      /\ panel'.loads = panel.loads /\ panel'.current = panel.current
      /\ panel'.tab = panel.tab /\ panel'.content = panel.content
      /\ panel'.timer = panel.timer /\ panel'.revision = panel.revision
      /\ panel'.generating = panel.generating /\ panel'.draft = panel.draft
      /\ panel'.promptTimers = panel.promptTimers /\ panel'.saves = saves
      /\ panel'.author = panel.author /\ panel'.newest = panel.newest
      /\ panel'.excused = panel.excused
      BY <1>a, <1>6 DEF IsDocs
<1>8. save \in Saves
      BY <1>a DEF DocTypes
<1>9. PICK base : /\ base \in DocRows
                  /\ base = panel.stored[save.id] \/ base \in save.base
                  /\ \/ row = [base EXCEPT ![save.field] = save.text]
                     \/ row = base /\ save.field = "prompt"
  <2>1. PICK base : base = IF save.base = {} THEN panel.stored[save.id]
                           ELSE CHOOSE r \in save.base : TRUE
        OBVIOUS
  <2>2. base = panel.stored[save.id] \/ base \in save.base
        BY <2>1
  <2>3. base \in DocRows
        BY <1>a, <1>8, <2>2 DEF DocTypes, Saves
  <2>4. \/ row = [base EXCEPT ![save.field] = save.text]
        \/ row = base /\ save.field = "prompt"
        BY <1>2, <2>1 DEF Docs!Merged
  <2> QED BY <2>2, <2>3, <2>4
<1>10. /\ row \in DocRows
       /\ save.field = "prompt" => row.doc = base.doc
       /\ save.field = "doc" => row.doc = save.text
  <2>1. save.field \in {"doc", "prompt"} /\ save.text \in Docs!Texts
        BY <1>8 DEF Saves
  <2>2. CASE save.field = "doc"
        BY <1>9, <2>1, <2>2 DEF DocRows
  <2>3. CASE save.field = "prompt"
        BY <1>9, <2>1, <2>3 DEF DocRows
  <2> QED BY <2>1, <2>2, <2>3
<1>11. /\ kept \in Saves /\ kept.done /\ kept.base = {row} /\ kept.id = save.id
       /\ kept.field = save.field /\ kept.text = save.text
      BY <1>3, <1>8, <1>10 DEF Saves
<1>12. /\ stored \in [Docs!Projects -> DocRows] /\ save.id \in Docs!Projects
       /\ stored[save.id] = row
       /\ \A id \in Docs!Projects \ {save.id} : stored[id] = panel.stored[id]
      BY <1>a, <1>4, <1>8, <1>10 DEF DocTypes, Saves
<1>13. \A s \in saves : s = kept \/ s \in panel.saves \ {save}
      BY <1>5
<1>14. DocTypes(panel')
      BY <1>a, <1>7, <1>11, <1>12, <1>13 DEF DocTypes
<1>15. DocMounted(panel')
      BY <1>a, <1>7 DEF DocMounted, Docs!Editing
<1>16. \A i, n : Home(panel', i, n) <=> Home(panel, i, n)
      BY <1>7 DEF Home
<1>17. DocHere(panel')
      BY <1>a, <1>7, <1>16 DEF DocHere
<1>18. DocHome(panel')
  <2> SUFFICES ASSUME "replaced" \notin panel.excused PROVE DocHome(panel')
      BY <1>7 DEF DocHome
  <2>1. Home(panel, save.id, base.doc)
        BY <1>a, <1>9, <1>12 DEF DocHome
  <2>2. save.field = "doc" => Home(panel, save.id, save.text)
        BY <1>a DEF DocHome
  <2>3. Home(panel, save.id, row.doc)
        BY <1>8, <1>10, <2>1, <2>2 DEF Saves
  <2>4. \A id \in Docs!Projects : Home(panel, id, stored[id].doc)
        BY <1>a, <1>12, <2>3 DEF DocHome
  <2>5. ASSUME NEW s \in saves
        PROVE  /\ s.field = "doc" => Home(panel, s.id, s.text)
               /\ \A r \in s.base : Home(panel, s.id, r.doc)
        BY <1>a, <1>11, <1>13, <2>2, <2>3 DEF DocHome
  <2> QED BY <1>a, <1>7, <1>16, <2>4, <2>5 DEF DocHome
<1>19. DocNewest(panel')
  <2> SUFFICES ASSUME panel.excused = {} PROVE DocNewest(panel')
      BY <1>7 DEF DocNewest
  <2>1. saves = {kept} /\ panel.saves = {save}
        BY <1>a, <1>5 DEF DocNewest
  <2>2. base = panel.stored[save.id]
        BY <1>a, <1>9 DEF DocNewest
  <2>3. panel.current.id # "none" =>
           panel.current.row = stored[panel.current.id] \/ save.id = panel.current.id
        BY <1>a, <1>1, <1>12, <2>1 DEF DocNewest, DocTypes, Currents
  <2>4. \A t \in panel.timer : t.text = panel.newest[t.id]
        BY <1>a DEF DocNewest
  <2>5. ASSUME NEW id \in Docs!Projects
        PROVE  stored[id].doc = panel.newest[id] \/ \E t \in panel.timer : t.id = id
    <3>1. CASE id # save.id
          BY <1>a, <1>12, <2>1, <3>1 DEF DocNewest
    <3>2. CASE id = save.id /\ save.field = "doc"
          BY <1>a, <1>1, <1>10, <1>12, <3>2 DEF DocNewest
    <3>3. CASE id = save.id /\ save.field = "prompt"
          BY <1>a, <1>10, <1>12, <2>1, <2>2, <3>3 DEF DocNewest
    <3> QED BY <1>8, <3>1, <3>2, <3>3 DEF Saves
  <2> QED BY <1>7, <1>11, <1>12, <2>1, <2>3, <2>4, <2>5 DEF DocNewest
<1> QED BY <1>14, <1>15, <1>17, <1>18, <1>19 DEF DocOK

\* The row that comes back is the stored one.
LEMMA SaveReturnsKeeps == DocInv /\ Docs!SaveReturns => DocInv'
<1> SUFFICES ASSUME DocOK(panel), Docs!SaveReturns PROVE DocOK(panel')
    BY DEF DocInv
<1>a. /\ DocTypes(panel) /\ DocMounted(panel) /\ DocHome(panel) /\ DocHere(panel)
      /\ DocNewest(panel) /\ IsDocs(panel)
      BY DEF DocOK, DocTypes
<1>1. PICK save \in panel.saves :
         /\ save.done
         /\ panel' = [panel EXCEPT !.saves = @ \ {save},
                                   !.current.row = IF panel.current.id = save.id
                                                   THEN CHOOSE r \in save.base : TRUE ELSE @]
      BY DEF Docs!SaveReturns
<1>2. PICK row : row = IF panel.current.id = save.id THEN CHOOSE r \in save.base : TRUE
                       ELSE panel.current.row
      OBVIOUS
<1>3. PICK current : current = [panel.current EXCEPT !.row = row]
      OBVIOUS
<1>4. PICK saves : saves = panel.saves \ {save}
      OBVIOUS
<1>5. panel' = [panel EXCEPT !.saves = saves, !.current = current]
      BY <1>1, <1>2, <1>3, <1>4
<1>6. /\ IsDocs(panel') /\ panel'.lasting = panel.lasting
      /\ panel'.stored = panel.stored /\ panel'.visits = panel.visits
      /\ panel'.route = panel.route /\ panel'.loading = panel.loading
      /\ panel'.listing = panel.listing /\ panel'.loads = panel.loads
      /\ panel'.current = current /\ panel'.tab = panel.tab
      /\ panel'.content = panel.content /\ panel'.timer = panel.timer
      /\ panel'.revision = panel.revision /\ panel'.generating = panel.generating
      /\ panel'.draft = panel.draft /\ panel'.promptTimers = panel.promptTimers
      /\ panel'.saves = saves /\ panel'.author = panel.author
      /\ panel'.newest = panel.newest /\ panel'.excused = panel.excused
      BY <1>a, <1>5 DEF IsDocs
<1>7. save \in Saves /\ save.base # {} /\ panel.current \in Currents
      BY <1>a, <1>1 DEF DocTypes
<1>8. \/ row \in save.base /\ panel.current.id = save.id
      \/ row = panel.current.row /\ panel.current.id # save.id
      BY <1>2, <1>7
<1>9. row \in DocRows
      BY <1>7, <1>8 DEF Saves, Currents
<1>10. current \in Currents /\ current.id = panel.current.id /\ current.row = row
      BY <1>3, <1>7, <1>9 DEF Currents
<1>11. DocTypes(panel')
      BY <1>a, <1>4, <1>6, <1>10 DEF DocTypes
<1>12. DocMounted(panel')
      BY <1>a, <1>6, <1>10 DEF DocMounted, Docs!Editing
<1>13. \A i, n : Home(panel', i, n) <=> Home(panel, i, n)
      BY <1>6 DEF Home
<1>14. DocHere(panel')
      BY <1>a, <1>6, <1>10, <1>13 DEF DocHere
<1>15. DocHome(panel')
      BY <1>a, <1>4, <1>6, <1>8, <1>10, <1>13 DEF DocHome
<1>16. DocNewest(panel')
  <2> SUFFICES ASSUME panel.excused = {} PROVE DocNewest(panel')
      BY <1>6 DEF DocNewest
  <2>1. saves = {} /\ panel.saves = {save} /\ save.base \subseteq {panel.stored[save.id]}
        BY <1>a, <1>4 DEF DocNewest
  <2>2. current.id # "none" => current.row = panel.stored[current.id]
        BY <1>a, <1>8, <1>10, <2>1 DEF DocNewest
  <2>3. \A t \in panel.timer : t.text = panel.newest[t.id]
        BY <1>a DEF DocNewest
  <2>4. \A id \in Docs!Projects :
           panel.stored[id].doc = panel.newest[id] \/ \E t \in panel.timer : t.id = id
        BY <1>a, <1>1, <2>1 DEF DocNewest
  <2> QED BY <1>6, <2>1, <2>2, <2>3, <2>4 DEF DocNewest
<1> QED BY <1>11, <1>12, <1>14, <1>15, <1>16 DEF DocOK

LEMMA SaveFailsKeeps == DocInv /\ Docs!SaveFails => DocInv'
<1> SUFFICES ASSUME DocOK(panel), Docs!SaveFails PROVE DocOK(panel')
    BY DEF DocInv
<1>a. /\ DocTypes(panel) /\ DocMounted(panel) /\ DocHome(panel) /\ DocHere(panel)
      /\ DocNewest(panel) /\ IsDocs(panel)
      BY DEF DocOK, DocTypes
<1>1. PICK save \in panel.saves :
         panel' = [panel EXCEPT !.saves = @ \ {save}, !.excused = @ \cup {"lost"}]
      BY DEF Docs!SaveFails
<1>2. /\ IsDocs(panel') /\ panel'.lasting = panel.lasting
      /\ panel'.stored = panel.stored /\ panel'.visits = panel.visits
      /\ panel'.route = panel.route /\ panel'.loading = panel.loading
      /\ panel'.listing = panel.listing /\ panel'.loads = panel.loads
      /\ panel'.current = panel.current /\ panel'.tab = panel.tab
      /\ panel'.content = panel.content /\ panel'.timer = panel.timer
      /\ panel'.revision = panel.revision /\ panel'.generating = panel.generating
      /\ panel'.draft = panel.draft /\ panel'.promptTimers = panel.promptTimers
      /\ panel'.saves = panel.saves \ {save} /\ panel'.author = panel.author
      /\ panel'.newest = panel.newest /\ panel'.excused = panel.excused \cup {"lost"}
      BY <1>a, <1>1 DEF IsDocs
<1>3. DocTypes(panel')
      BY <1>a, <1>2 DEF DocTypes
<1>4. DocMounted(panel')
      BY <1>a, <1>2 DEF DocMounted, Docs!Editing
<1>5. DocHome(panel') /\ DocHere(panel')
      BY <1>a, <1>2 DEF DocHome, DocHere, Home
<1>6. DocNewest(panel')
      BY <1>2 DEF DocNewest
<1> QED BY <1>3, <1>4, <1>5, <1>6 DEF DocOK

\* Coming and going mounts and unmounts editors and changes nothing else.
LEMMA PageKeeps ==
    ASSUME NEW p, DocOK(p), NEW q, IsDocs(q),
           q.route \in Docs!Projects \cup {"list"}, q.visits \in Nat, q.loads \subseteq Loads,
           \A l \in q.loads : l.row = {} \/ l \in p.loads,
           q.lasting = p.lasting, q.stored = p.stored, q.current = p.current,
           q.content = p.content, q.timer = p.timer, q.revision = p.revision,
           q.generating = p.generating, q.draft = p.draft,
           q.promptTimers = p.promptTimers, q.saves = p.saves, q.author = p.author,
           q.newest = p.newest, q.excused = p.excused
    PROVE  DocOK(Docs!Rendered(p, q))
<1>a. DocTypes(p) /\ DocMounted(p) /\ DocHome(p) /\ DocHere(p) /\ DocNewest(p)
      BY DEF DocOK
<1>1. DocTypes(q)
      BY <1>a DEF DocTypes
<1>2. DocHome(q)
  <2> SUFFICES ASSUME "replaced" \notin q.excused PROVE DocHome(q)
      BY DEF DocHome
  <2>1. \A i, n : Home(q, i, n) <=> Home(p, i, n)
        BY DEF Home
  <2>2. ASSUME NEW l \in q.loads, NEW r \in l.row PROVE Home(p, l.id, r.doc)
        BY <1>a, <2>2 DEF DocHome
  <2> QED BY <1>a, <2>1, <2>2 DEF DocHome
<1>3. DocNewest(q)
      BY <1>a DEF DocNewest
<1> QED BY <1>a, <1>1, <1>2, <1>3, RenderedKeeps

LEMMA BlurredEditing ==
    ASSUME NEW p, DocTypes(p), Docs!Editing(p, "world")
    PROVE  /\ Docs!Editing(Docs!Blurred(p), "world")
           /\ Docs!Blurred(p).current = p.current /\ Docs!Blurred(p).author = p.author
<1>1. CASE ~\E t \in p.timer : t.typed
      BY <1>1 DEF Docs!Blurred
<1>2. CASE \E t \in p.timer : t.typed
  <2>1. PICK t : t = CHOOSE u \in p.timer : TRUE
        OBVIOUS
  <2>2. Docs!Blurred(p) = Docs!SaveBegun(Unqueued(p), p.current.id, "doc", t.text)
        BY <1>2, <2>1 DEF Docs!Blurred, Unqueued
  <2>3. PICK q : q = Unqueued(p)
        OBVIOUS
  <2>4. /\ IsDocs(q) /\ q.route = p.route /\ q.loading = p.loading /\ q.current = p.current
        /\ q.tab = p.tab /\ q.author = p.author
        BY <2>3, UnqueuedFields DEF DocTypes
  <2>5. PICK o : o = Docs!SaveBegun(q, p.current.id, "doc", t.text)
        OBVIOUS
  <2>6. PICK base : Begun(q, o, p.current.id, "doc", t.text, base)
        BY <2>4, <2>5, SaveBegunFields
  <2>7. /\ o.route = p.route /\ o.loading = p.loading /\ o.current = p.current
        /\ o.tab = p.tab /\ o.author = p.author
        BY <2>4, <2>6 DEF Begun
  <2>8. Docs!Editing(o, "world")
        BY <2>7 DEF Docs!Editing
  <2> QED BY <2>2, <2>3, <2>5, <2>7, <2>8
<1> QED BY <1>1, <1>2

LEMMA WriteQueued ==
    ASSUME NEW p, DocOK(p), Docs!Editing(p, "world"), Len(p.author) + 1 <= MaxTexts,
           NEW typed \in BOOLEAN
    PROVE  DocOK(Docs!Queued(Docs!Written(p, p.current.id), Len(p.author) + 1, typed))
<1>1. p.current.id \in Docs!Projects
      BY EditingKnown DEF DocOK
<1>2. PICK o : o = Docs!Written(p, p.current.id)
      OBVIOUS
<1>3. /\ DocOK(o) /\ Len(p.author) + 1 \in Docs!Texts
      /\ Home(o, o.current.id, Len(p.author) + 1) /\ Docs!Editing(o, "world")
      BY <1>1, <1>2, WrittenKeeps
<1> QED BY <1>2, <1>3, QueuedKeeps

\* A revision is one of the text that is shown.
LEMMA RevisionKeeps ==
    ASSUME NEW p, DocOK(p), Docs!Editing(p, "world"),
           NEW r \in [ready : BOOLEAN, text : Docs!Texts],
           r.ready => Home(p, p.current.id, r.text)
    PROVE  DocOK([p EXCEPT !.revision = {r}])
<1>a. DocTypes(p) /\ DocMounted(p) /\ DocHome(p) /\ DocHere(p) /\ DocNewest(p) /\ IsDocs(p)
      BY DEF DocOK, DocTypes
<1>1. PICK o : o = [p EXCEPT !.revision = {r}]
      OBVIOUS
<1>2. /\ IsDocs(o) /\ o.lasting = p.lasting /\ o.stored = p.stored
      /\ o.visits = p.visits /\ o.route = p.route /\ o.loading = p.loading
      /\ o.listing = p.listing /\ o.loads = p.loads /\ o.current = p.current
      /\ o.tab = p.tab /\ o.content = p.content /\ o.timer = p.timer /\ o.revision = {r}
      /\ o.generating = p.generating /\ o.draft = p.draft
      /\ o.promptTimers = p.promptTimers /\ o.saves = p.saves /\ o.author = p.author
      /\ o.newest = p.newest /\ o.excused = p.excused
      BY <1>a, <1>1 DEF IsDocs
<1>3. DocTypes(o)
      BY <1>a, <1>2 DEF DocTypes
<1>4. DocMounted(o)
      BY <1>a, <1>2 DEF DocMounted, Docs!Editing
<1>5. DocHome(o) /\ DocHere(o)
      BY <1>a, <1>2 DEF DocHome, DocHere, Home
<1>6. DocNewest(o)
      BY <1>a, <1>2 DEF DocNewest
<1> QED BY <1>1, <1>3, <1>4, <1>5, <1>6 DEF DocOK

\* A revision is given up.
LEMMA RevisionEnds ==
    ASSUME NEW p, DocOK(p)
    PROVE  DocOK([p EXCEPT !.revision = {}])
<1>a. DocTypes(p) /\ DocMounted(p) /\ DocHome(p) /\ DocHere(p) /\ DocNewest(p) /\ IsDocs(p)
      BY DEF DocOK, DocTypes
<1>1. PICK o : o = [p EXCEPT !.revision = {}]
      OBVIOUS
<1>2. /\ IsDocs(o) /\ o.lasting = p.lasting /\ o.stored = p.stored
      /\ o.visits = p.visits /\ o.route = p.route /\ o.loading = p.loading
      /\ o.listing = p.listing /\ o.loads = p.loads /\ o.current = p.current
      /\ o.tab = p.tab /\ o.content = p.content /\ o.timer = p.timer /\ o.revision = {}
      /\ o.generating = p.generating /\ o.draft = p.draft
      /\ o.promptTimers = p.promptTimers /\ o.saves = p.saves /\ o.author = p.author
      /\ o.newest = p.newest /\ o.excused = p.excused
      BY <1>a, <1>1 DEF IsDocs
<1>3. DocTypes(o)
      BY <1>a, <1>2 DEF DocTypes
<1>4. DocMounted(o)
      BY <1>a, <1>2 DEF DocMounted, Docs!Editing
<1>5. DocHome(o) /\ DocHere(o)
      BY <1>a, <1>2 DEF DocHome, DocHere, Home
<1>6. DocNewest(o)
      BY <1>a, <1>2 DEF DocNewest
<1> QED BY <1>1, <1>3, <1>4, <1>5, <1>6 DEF DocOK

\* A generation is asked for the project that is shown.
LEMMA GenerationKeeps ==
    ASSUME NEW p, DocOK(p), Docs!Editing(p, "world"),
           NEW g \in Generations, g.id = p.current.id, Home(p, g.id, g.text)
    PROVE  DocOK([p EXCEPT !.generating = {g}])
<1>a. DocTypes(p) /\ DocMounted(p) /\ DocHome(p) /\ DocHere(p) /\ DocNewest(p) /\ IsDocs(p)
      BY DEF DocOK, DocTypes
<1>1. PICK o : o = [p EXCEPT !.generating = {g}]
      OBVIOUS
<1>2. /\ IsDocs(o) /\ o.lasting = p.lasting /\ o.stored = p.stored
      /\ o.visits = p.visits /\ o.route = p.route /\ o.loading = p.loading
      /\ o.listing = p.listing /\ o.loads = p.loads /\ o.current = p.current
      /\ o.tab = p.tab /\ o.content = p.content /\ o.timer = p.timer
      /\ o.revision = p.revision /\ o.generating = {g} /\ o.draft = p.draft
      /\ o.promptTimers = p.promptTimers /\ o.saves = p.saves /\ o.author = p.author
      /\ o.newest = p.newest /\ o.excused = p.excused
      BY <1>a, <1>1 DEF IsDocs
<1>3. DocTypes(o)
      BY <1>a, <1>2 DEF DocTypes
<1>4. DocMounted(o)
      BY <1>a, <1>2 DEF DocMounted, Docs!Editing
<1>5. DocHome(o) /\ DocHere(o)
      BY <1>a, <1>2 DEF DocHome, DocHere, Home
<1>6. DocNewest(o)
      BY <1>a, <1>2 DEF DocNewest
<1> QED BY <1>1, <1>3, <1>4, <1>5, <1>6 DEF DocOK

\* A generation is given up.
LEMMA GenerationEnds ==
    ASSUME NEW p, DocOK(p)
    PROVE  DocOK([p EXCEPT !.generating = {}])
<1>a. DocTypes(p) /\ DocMounted(p) /\ DocHome(p) /\ DocHere(p) /\ DocNewest(p) /\ IsDocs(p)
      BY DEF DocOK, DocTypes
<1>1. PICK o : o = [p EXCEPT !.generating = {}]
      OBVIOUS
<1>2. /\ IsDocs(o) /\ o.lasting = p.lasting /\ o.stored = p.stored
      /\ o.visits = p.visits /\ o.route = p.route /\ o.loading = p.loading
      /\ o.listing = p.listing /\ o.loads = p.loads /\ o.current = p.current
      /\ o.tab = p.tab /\ o.content = p.content /\ o.timer = p.timer
      /\ o.revision = p.revision /\ o.generating = {} /\ o.draft = p.draft
      /\ o.promptTimers = p.promptTimers /\ o.saves = p.saves /\ o.author = p.author
      /\ o.newest = p.newest /\ o.excused = p.excused
      BY <1>a, <1>1 DEF IsDocs
<1>3. DocTypes(o)
      BY <1>a, <1>2 DEF DocTypes
<1>4. DocMounted(o)
      BY <1>a, <1>2 DEF DocMounted, Docs!Editing
<1>5. DocHome(o) /\ DocHere(o)
      BY <1>a, <1>2 DEF DocHome, DocHere, Home
<1>6. DocNewest(o)
      BY <1>a, <1>2 DEF DocNewest
<1> QED BY <1>1, <1>3, <1>4, <1>5, <1>6 DEF DocOK

\* A document that is finished under the eyes of the player waits like one that
\* was typed.
LEMMA GeneratedKeeps ==
    ASSUME NEW p, DocOK(p), Docs!Editing(p, "world"), NEW id \in Docs!Projects,
           NEW text \in Docs!Texts,
           "replaced" \notin p.excused => id = p.current.id /\ Home(p, id, text)
    PROVE  DocOK([p EXCEPT !.generating = {}, !.content = text, !.newest[id] = text,
                           !.timer = {[id |-> id, text |-> text, typed |-> FALSE]}])
<1>a. DocTypes(p) /\ DocMounted(p) /\ DocHome(p) /\ DocHere(p) /\ DocNewest(p) /\ IsDocs(p)
      BY DEF DocOK, DocTypes
<1>1. PICK newest : newest = [p.newest EXCEPT ![id] = text]
      OBVIOUS
<1>2. PICK t : t = [id |-> id, text |-> text, typed |-> FALSE]
      OBVIOUS
<1>3. PICK o : o = [p EXCEPT !.generating = {}, !.content = text, !.newest[id] = text,
                             !.timer = {[id |-> id, text |-> text, typed |-> FALSE]}]
      OBVIOUS
<1>4. o = [p EXCEPT !.generating = {}, !.content = text, !.newest = newest, !.timer = {t}]
      BY <1>1, <1>2, <1>3
<1>5. /\ IsDocs(o) /\ o.lasting = p.lasting /\ o.stored = p.stored
      /\ o.visits = p.visits /\ o.route = p.route /\ o.loading = p.loading
      /\ o.listing = p.listing /\ o.loads = p.loads /\ o.current = p.current
      /\ o.tab = p.tab /\ o.content = text /\ o.timer = {t} /\ o.revision = p.revision
      /\ o.generating = {} /\ o.draft = p.draft /\ o.promptTimers = p.promptTimers
      /\ o.saves = p.saves /\ o.author = p.author /\ o.newest = newest
      /\ o.excused = p.excused
      BY <1>a, <1>4 DEF IsDocs
<1>6. t \in Timers /\ t.id = id /\ t.text = text
      BY <1>2 DEF Timers
<1>7. /\ newest \in [Docs!Projects -> Docs!Texts] /\ newest[id] = text
      /\ \A i \in Docs!Projects \ {id} : newest[i] = p.newest[i]
      BY <1>a, <1>1 DEF DocTypes
<1>8. DocTypes(o)
      BY <1>a, <1>5, <1>6, <1>7 DEF DocTypes
<1>9. DocMounted(o)
      BY <1>a, <1>5 DEF DocMounted, Docs!Editing
<1>10. \A i, n : Home(o, i, n) <=> Home(p, i, n)
      BY <1>5 DEF Home
<1>11. DocHome(o) /\ DocHere(o)
      BY <1>a, <1>5, <1>6, <1>10 DEF DocHome, DocHere
<1>12. DocNewest(o)
  <2> SUFFICES ASSUME o.excused = {} PROVE DocNewest(o)
      BY DEF DocNewest
  <2>1. p.excused = {} /\ id = p.current.id /\ \A u \in p.timer : u.id = id
        BY <1>a, <1>5 DEF DocHere
  <2>2. \A s \in p.saves : s.id \in Docs!Projects
        BY <1>a DEF DocTypes, Saves
  <2>3. ASSUME NEW s \in p.saves, ~s.done, s.field = "doc"
        PROVE  s.text = newest[s.id] \/ t.id = s.id
        BY <1>a, <1>6, <1>7, <2>1, <2>2, <2>3 DEF DocNewest
  <2>4. ASSUME NEW i \in Docs!Projects
        PROVE  \/ p.stored[i].doc = newest[i]
               \/ t.id = i
               \/ \E s \in p.saves :
                     ~s.done /\ s.field = "doc" /\ s.id = i /\ s.text = newest[i]
        BY <1>a, <1>6, <1>7, <2>1, <2>4 DEF DocNewest
  <2> QED BY <1>a, <1>5, <1>6, <1>7, <2>1, <2>3, <2>4 DEF DocNewest
<1> QED BY <1>3, <1>8, <1>9, <1>11, <1>12 DEF DocOK

\* The prompt waits in timers of its own.
LEMMA PromptQueuedKeeps ==
    ASSUME NEW p, DocOK(p), NEW text \in Docs!Texts
    PROVE  DocOK(Docs!PromptQueued(p, text))
<1>a. DocTypes(p) /\ DocMounted(p) /\ DocHome(p) /\ DocHere(p) /\ DocNewest(p) /\ IsDocs(p)
      BY DEF DocOK, DocTypes
<1>0. PICK own : own = [text |-> text, own |-> TRUE]
      OBVIOUS
<1>1. PICK timers : timers = {t \in p.promptTimers : ~t.own} \cup {own}
      OBVIOUS
<1>2. PICK o : o = Docs!PromptQueued(p, text)
      OBVIOUS
<1>3. o = [p EXCEPT !.draft = text, !.promptTimers = timers]
      BY <1>0, <1>1, <1>2 DEF Docs!PromptQueued
<1>4. /\ IsDocs(o) /\ o.lasting = p.lasting /\ o.stored = p.stored
      /\ o.visits = p.visits /\ o.route = p.route /\ o.loading = p.loading
      /\ o.listing = p.listing /\ o.loads = p.loads /\ o.current = p.current
      /\ o.tab = p.tab /\ o.content = p.content /\ o.timer = p.timer
      /\ o.revision = p.revision /\ o.generating = p.generating /\ o.draft = text
      /\ o.promptTimers = timers /\ o.saves = p.saves /\ o.author = p.author
      /\ o.newest = p.newest /\ o.excused = p.excused
      BY <1>a, <1>3 DEF IsDocs
<1>b. own \in [text : Docs!Texts, own : BOOLEAN]
      BY <1>0
<1>5. timers \subseteq [text : Docs!Texts, own : BOOLEAN]
      BY <1>a, <1>b, <1>1 DEF DocTypes
<1>6. DocTypes(o)
      BY <1>a, <1>4, <1>5 DEF DocTypes
<1>7. DocMounted(o)
      BY <1>a, <1>4 DEF DocMounted, Docs!Editing
<1>8. DocHome(o) /\ DocHere(o)
      BY <1>a, <1>4 DEF DocHome, DocHere, Home
<1>9. DocNewest(o)
      BY <1>a, <1>4 DEF DocNewest
<1> QED BY <1>2, <1>6, <1>7, <1>8, <1>9 DEF DocOK

LEMMA DocStep == DocInv /\ Docs!Next => DocInv'
<1> SUFFICES ASSUME DocOK(panel), Docs!Next PROVE DocOK(panel')
    BY DEF DocInv
<1>a. /\ DocTypes(panel) /\ DocMounted(panel) /\ DocHome(panel) /\ DocHere(panel)
      /\ DocNewest(panel) /\ IsDocs(panel)
      BY DEF DocOK, DocTypes
<1>1. CASE Docs!Enter
  <2>1. PICK id \in Docs!Projects :
           panel' = Docs!Rendered(panel, [panel EXCEPT !.visits = @ + 1, !.route = id,
                                             !.tab = "world", !.loading = TRUE,
                                             !.loads = @ \cup {[id |-> id, visit |-> panel.visits,
                                                               row |-> {}]}])
        BY <1>1 DEF Docs!Enter
  <2>2. PICK load : load = [id |-> id, visit |-> panel.visits, row |-> {}]
        OBVIOUS
  <2>3. PICK q : q = [panel EXCEPT !.visits = @ + 1, !.route = id, !.tab = "world",
                                   !.loading = TRUE, !.loads = @ \cup {load}]
        OBVIOUS
  <2>4. /\ IsDocs(q) /\ q.lasting = panel.lasting /\ q.stored = panel.stored
        /\ q.visits = panel.visits + 1
        /\ q.route = id /\ q.loading = TRUE /\ q.listing = panel.listing
        /\ q.loads = panel.loads \cup {load} /\ q.current = panel.current
        /\ q.tab = "world" /\ q.content = panel.content /\ q.timer = panel.timer
        /\ q.revision = panel.revision /\ q.generating = panel.generating
        /\ q.draft = panel.draft /\ q.promptTimers = panel.promptTimers
        /\ q.saves = panel.saves /\ q.author = panel.author /\ q.newest = panel.newest
        /\ q.excused = panel.excused
        BY <1>a, <2>3 DEF IsDocs
  <2>5. load \in Loads /\ load.row = {}
        BY <1>a, <2>2 DEF DocTypes, Loads
  <2>6. /\ q.route \in Docs!Projects \cup {"list"} /\ q.visits \in Nat
        /\ q.loads \subseteq Loads
        BY <1>a, <2>4, <2>5 DEF DocTypes
  <2>7. \A l \in q.loads : l.row = {} \/ l \in panel.loads
        BY <2>4, <2>5
  <2>8. panel' = Docs!Rendered(panel, q)
        BY <2>1, <2>2, <2>3
  <2> QED BY <2>4, <2>6, <2>7, <2>8, PageKeeps
<1>2. CASE Docs!Leave
  <2>1. PICK q : q = [panel EXCEPT !.route = "list", !.loading = TRUE, !.listing = TRUE]
        OBVIOUS
  <2>2. /\ IsDocs(q) /\ q.lasting = panel.lasting /\ q.stored = panel.stored
        /\ q.visits = panel.visits /\ q.route = "list" /\ q.loading = TRUE
        /\ q.listing = TRUE /\ q.loads = panel.loads /\ q.current = panel.current
        /\ q.tab = panel.tab /\ q.content = panel.content /\ q.timer = panel.timer
        /\ q.revision = panel.revision /\ q.generating = panel.generating
        /\ q.draft = panel.draft /\ q.promptTimers = panel.promptTimers
        /\ q.saves = panel.saves /\ q.author = panel.author /\ q.newest = panel.newest
        /\ q.excused = panel.excused
        BY <1>a, <2>1 DEF IsDocs
  <2>3. panel' = Docs!Rendered(panel, q)
        BY <1>2, <2>1 DEF Docs!Leave
  <2>4. /\ q.route \in Docs!Projects \cup {"list"} /\ q.visits \in Nat
        /\ q.loads \subseteq Loads
        BY <1>a, <2>2 DEF DocTypes
  <2> QED BY <2>2, <2>3, <2>4, PageKeeps
<1>3. CASE Docs!ListAnswered
  <2>1. PICK q : q = [panel EXCEPT !.listing = FALSE, !.loading = FALSE]
        OBVIOUS
  <2>2. /\ IsDocs(q) /\ q.lasting = panel.lasting /\ q.stored = panel.stored
        /\ q.visits = panel.visits /\ q.route = panel.route /\ q.loading = FALSE
        /\ q.listing = FALSE /\ q.loads = panel.loads /\ q.current = panel.current
        /\ q.tab = panel.tab /\ q.content = panel.content /\ q.timer = panel.timer
        /\ q.revision = panel.revision /\ q.generating = panel.generating
        /\ q.draft = panel.draft /\ q.promptTimers = panel.promptTimers
        /\ q.saves = panel.saves /\ q.author = panel.author /\ q.newest = panel.newest
        /\ q.excused = panel.excused
        BY <1>a, <2>1 DEF IsDocs
  <2>3. panel' = Docs!Rendered(panel, q)
        BY <1>3, <2>1 DEF Docs!ListAnswered
  <2>4. /\ q.route \in Docs!Projects \cup {"list"} /\ q.visits \in Nat
        /\ q.loads \subseteq Loads
        BY <1>a, <2>2 DEF DocTypes
  <2> QED BY <2>2, <2>3, <2>4, PageKeeps
<1>4. CASE Docs!Loaded
  <2>0. PICK load \in panel.loads :
           \E r \in load.row :
               panel' = Docs!Rendered(panel, [panel EXCEPT !.loads = @ \ {load}, !.loading = FALSE,
                                                 !.current = [id |-> load.id, row |-> r],
                                                 !.excused = IF r = panel.stored[load.id] THEN @
                                                             ELSE @ \cup {"lost"}])
        BY <1>4 DEF Docs!Loaded
  <2>1. PICK row \in load.row :
           panel' = Docs!Rendered(panel, [panel EXCEPT !.loads = @ \ {load}, !.loading = FALSE,
                                             !.current = [id |-> load.id, row |-> row],
                                             !.excused = IF row = panel.stored[load.id] THEN @
                                                         ELSE @ \cup {"lost"}])
        BY <2>0
  <2>2. PICK current : current = [id |-> load.id, row |-> row]
        OBVIOUS
  <2>a. PICK excused : excused = IF row = panel.stored[load.id] THEN panel.excused
                                 ELSE panel.excused \cup {"lost"}
        OBVIOUS
  <2>3. PICK q : q = [panel EXCEPT !.loads = @ \ {load}, !.loading = FALSE,
                                   !.current = current, !.excused = excused]
        OBVIOUS
  <2>4. /\ IsDocs(q) /\ q.lasting = panel.lasting /\ q.stored = panel.stored
        /\ q.visits = panel.visits /\ q.route = panel.route /\ q.loading = FALSE
        /\ q.listing = panel.listing /\ q.loads = panel.loads \ {load}
        /\ q.current = current /\ q.tab = panel.tab /\ q.content = panel.content
        /\ q.timer = panel.timer /\ q.revision = panel.revision
        /\ q.generating = panel.generating /\ q.draft = panel.draft
        /\ q.promptTimers = panel.promptTimers /\ q.saves = panel.saves
        /\ q.author = panel.author /\ q.newest = panel.newest
        /\ q.excused = excused
        BY <1>a, <2>3 DEF IsDocs
  <2>5. panel' = Docs!Rendered(panel, q)
        BY <2>1, <2>2, <2>a, <2>3
  <2>6. load.id \in Docs!Projects /\ row \in DocRows
        BY <1>a DEF DocTypes, Loads
  <2>7. current \in Currents /\ current.id = load.id /\ current.row = row
        BY <2>2, <2>6 DEF Currents
  <2>b. /\ excused = panel.excused \/ excused = panel.excused \cup {"lost"}
        /\ excused = {} => panel.excused = {} /\ row = panel.stored[load.id]
        BY <2>a
  <2>8. DocTypes(q)
        BY <1>a, <2>4, <2>7, <2>b DEF DocTypes
  <2>9. DocHome(q)
    <3> SUFFICES ASSUME "replaced" \notin excused PROVE DocHome(q)
        BY <2>4 DEF DocHome
    <3>1. "replaced" \notin panel.excused
          BY <2>b
    <3>2. \A i, n : Home(q, i, n) <=> Home(panel, i, n)
          BY <2>4 DEF Home
    <3>3. Home(panel, load.id, row.doc)
          BY <1>a, <3>1 DEF DocHome
    <3> QED BY <1>a, <2>4, <2>7, <3>1, <3>2, <3>3 DEF DocHome
  <2>10. DocNewest(q)
        BY <1>a, <2>4, <2>7, <2>b DEF DocNewest
  <2> QED BY <1>a, <2>4, <2>5, <2>8, <2>9, <2>10, <2>b, RenderedKeeps
<1>5. CASE Docs!LoadFails
  <2>1. PICK load \in panel.loads :
           panel' = Docs!Rendered(panel, [panel EXCEPT !.loads = @ \ {load}, !.loading = FALSE])
        BY <1>5 DEF Docs!LoadFails
  <2>2. PICK q : q = [panel EXCEPT !.loads = @ \ {load}, !.loading = FALSE]
        OBVIOUS
  <2>3. /\ IsDocs(q) /\ q.lasting = panel.lasting /\ q.stored = panel.stored
        /\ q.visits = panel.visits /\ q.route = panel.route /\ q.loading = FALSE
        /\ q.listing = panel.listing /\ q.loads = panel.loads \ {load}
        /\ q.current = panel.current /\ q.tab = panel.tab /\ q.content = panel.content
        /\ q.timer = panel.timer /\ q.revision = panel.revision
        /\ q.generating = panel.generating /\ q.draft = panel.draft
        /\ q.promptTimers = panel.promptTimers /\ q.saves = panel.saves
        /\ q.author = panel.author /\ q.newest = panel.newest
        /\ q.excused = panel.excused
        BY <1>a, <2>2 DEF IsDocs
  <2>4. /\ q.route \in Docs!Projects \cup {"list"} /\ q.visits \in Nat
        /\ q.loads \subseteq Loads
        BY <1>a, <2>3 DEF DocTypes
  <2> QED BY <2>1, <2>2, <2>3, <2>4, PageKeeps
<1>6. CASE Docs!SwitchTab
  <2>1. PICK tab : panel' = Docs!Rendered(panel, [panel EXCEPT !.tab = tab])
        BY <1>6 DEF Docs!SwitchTab
  <2>2. PICK q : q = [panel EXCEPT !.tab = tab]
        OBVIOUS
  <2>3. /\ IsDocs(q) /\ q.lasting = panel.lasting /\ q.stored = panel.stored
        /\ q.visits = panel.visits /\ q.route = panel.route /\ q.loading = panel.loading
        /\ q.listing = panel.listing /\ q.loads = panel.loads
        /\ q.current = panel.current /\ q.tab = tab /\ q.content = panel.content
        /\ q.timer = panel.timer /\ q.revision = panel.revision
        /\ q.generating = panel.generating /\ q.draft = panel.draft
        /\ q.promptTimers = panel.promptTimers /\ q.saves = panel.saves
        /\ q.author = panel.author /\ q.newest = panel.newest
        /\ q.excused = panel.excused
        BY <1>a, <2>2 DEF IsDocs
  <2>4. /\ q.route \in Docs!Projects \cup {"list"} /\ q.visits \in Nat
        /\ q.loads \subseteq Loads
        BY <1>a, <2>3 DEF DocTypes
  <2> QED BY <2>1, <2>2, <2>3, <2>4, PageKeeps
<1>7. CASE Docs!TypeDoc
  <2>1. /\ Len(panel.author) + 1 <= MaxTexts /\ Docs!Editing(panel, "world")
        /\ panel' = Docs!Queued(Docs!Written(panel, panel.current.id), Len(panel.author) + 1, TRUE)
        BY <1>7 DEF Docs!TypeDoc, Docs!Room, Docs!NextText
  <2> QED BY <1>a, <2>1, WriteQueued
<1>8. CASE Docs!UpdateMeta
  <2>1. /\ Len(panel.author) + 1 <= MaxTexts /\ Docs!Editing(panel, "world")
        /\ panel' = Docs!Queued(Docs!Written(panel, panel.current.id), Len(panel.author) + 1, FALSE)
        BY <1>8 DEF Docs!UpdateMeta, Docs!Room, Docs!NextText
  <2> QED BY <1>a, <2>1, WriteQueued
<1>9. CASE Docs!UseSkeleton
  <2>1. /\ Len(panel.author) + 1 <= MaxTexts /\ Docs!Editing(panel, "world")
        /\ panel' = Docs!Queued(Docs!Written(panel, panel.current.id), Len(panel.author) + 1, FALSE)
        BY <1>9 DEF Docs!UseSkeleton, Docs!Room, Docs!NextText
  <2> QED BY <1>a, <2>1, WriteQueued
<1>10. CASE Docs!TimerFires
  <2>1. PICK t \in panel.timer :
           panel' = Docs!SaveBegun([panel EXCEPT !.timer = @ \ {t}], t.id, "doc", t.text)
        BY <1>10 DEF Docs!TimerFires
  <2>2. panel.timer \ {t} = {} /\ t.id \in Docs!Projects
        BY <1>a DEF DocTypes, Timers
  <2>3. panel' = Docs!SaveBegun(Unqueued(panel), t.id, "doc", t.text)
        BY <2>1, <2>2 DEF Unqueued
  <2> QED BY <2>2, <2>3, TimerSaved
<1>11. CASE Docs!HandleBlur
  <2>1. panel' = Docs!Blurred(panel)
        BY <1>11 DEF Docs!HandleBlur
  <2> QED BY <2>1, BlurredKeeps
<1>12. CASE Docs!HandleRevise
  <2>1. /\ Docs!Editing(panel, "world")
        /\ panel' = [Docs!Blurred(panel) EXCEPT !.revision = {[ready |-> FALSE, text |-> 0]}]
        BY <1>12 DEF Docs!HandleRevise
  <2>2. PICK p : p = Docs!Blurred(panel)
        OBVIOUS
  <2>3. DocOK(p)
        BY <2>2, BlurredKeeps
  <2>4. Docs!Editing(p, "world")
        BY <1>a, <2>1, <2>2, BlurredEditing
  <2>5. PICK r : r = [ready |-> FALSE, text |-> 0]
        OBVIOUS
  <2>6. panel' = [p EXCEPT !.revision = {r}]
        BY <2>1, <2>2, <2>5
  <2>7. r \in [ready : BOOLEAN, text : Docs!Texts] /\ ~r.ready
        BY <2>5, PanelsAssumption DEF Docs!Texts
  <2> QED BY <2>3, <2>4, <2>6, <2>7, RevisionKeeps
<1>13. CASE Docs!Revised
  <2>1. /\ Len(panel.author) + 1 <= MaxTexts
        /\ panel.revision # {}
        /\ panel' = Docs!Written([panel EXCEPT !.revision = {[ready |-> TRUE,
                                                               text |-> Len(panel.author) + 1]}],
                                 panel.current.id)
        BY <1>13 DEF Docs!Revised, Docs!Room, Docs!NextText
  <2>2. Docs!Editing(panel, "world") /\ panel.current.id \in Docs!Projects
        BY <1>a, <2>1, EditingKnown DEF DocMounted
  <2>3. PICK r : r = [ready |-> TRUE, text |-> Len(panel.author) + 1]
        OBVIOUS
  <2>4. PICK o : o = Docs!Written(panel, panel.current.id)
        OBVIOUS
  <2>5. /\ DocOK(o) /\ Docs!Editing(o, "world") /\ Len(panel.author) + 1 \in Docs!Texts
        /\ Home(o, o.current.id, Len(panel.author) + 1)
        BY <2>1, <2>2, <2>4, WrittenKeeps
  <2>6. panel' = [o EXCEPT !.revision = {r}]
        BY <1>a, <2>1, <2>3, <2>4 DEF Docs!Written, IsDocs
  <2>7. r \in [ready : BOOLEAN, text : Docs!Texts] /\ r.text = Len(panel.author) + 1
        BY <2>3, <2>5
  <2> QED BY <2>5, <2>6, <2>7, RevisionKeeps
<1>14. CASE Docs!ReviseFails
  <2>1. panel' = [panel EXCEPT !.revision = {}]
        BY <1>14 DEF Docs!ReviseFails
  <2> QED BY <2>1, RevisionEnds
<1>15. CASE Docs!HandleAccept
  <2>1. PICK r \in panel.revision :
           r.ready /\ panel' = [Docs!Queued(panel, r.text, FALSE) EXCEPT !.revision = {}]
        BY <1>15 DEF Docs!HandleAccept
  <2>2. Docs!Editing(panel, "world") /\ r.text \in Docs!Texts
        BY <1>a DEF DocMounted, DocTypes
  <2>3. "replaced" \notin panel.excused => Home(panel, panel.current.id, r.text)
        BY <1>a, <2>1 DEF DocHere
  <2>4. FALSE \in BOOLEAN
        OBVIOUS
  <2>5. DocOK(Docs!Queued(panel, r.text, FALSE))
        BY <2>2, <2>3, <2>4, QueuedKeeps
  <2> QED BY <2>1, <2>5, RevisionEnds
<1>16. CASE Docs!HandleReject
  <2>1. panel' = [panel EXCEPT !.revision = {}]
        BY <1>16 DEF Docs!HandleReject
  <2> QED BY <2>1, RevisionEnds
<1>17. CASE Docs!HandleGenerate
  <2>1. /\ Len(panel.author) + 1 <= MaxTexts /\ Docs!Editing(panel, "world")
        /\ panel' = Docs!Written([Docs!Blurred(panel) EXCEPT
                                     !.generating = {[id |-> panel.current.id,
                                                      text |-> Len(panel.author) + 1, alive |-> TRUE]}],
                                 panel.current.id)
        BY <1>17 DEF Docs!HandleGenerate, Docs!Room, Docs!NextText
  <2>2. PICK p : p = Docs!Blurred(panel)
        OBVIOUS
  <2>3. DocOK(p) /\ IsDocs(p)
        BY <2>2, BlurredKeeps DEF DocOK, DocTypes
  <2>4. /\ Docs!Editing(p, "world") /\ p.current = panel.current
        /\ p.author = panel.author
        BY <1>a, <2>1, <2>2, BlurredEditing
  <2>5. p.current.id \in Docs!Projects
        BY <2>3, <2>4, EditingKnown DEF DocOK
  <2>6. PICK g : g = [id |-> p.current.id, text |-> Len(p.author) + 1, alive |-> TRUE]
        OBVIOUS
  <2>7. PICK o : o = Docs!Written(p, p.current.id)
        OBVIOUS
  <2>8. /\ DocOK(o) /\ Docs!Editing(o, "world") /\ Len(p.author) + 1 \in Docs!Texts
        /\ o.current = p.current /\ Home(o, o.current.id, Len(p.author) + 1)
        BY <2>1, <2>3, <2>4, <2>5, <2>7, WrittenKeeps
  <2>9. panel' = [o EXCEPT !.generating = {g}]
        BY <2>1, <2>2, <2>3, <2>4, <2>6, <2>7 DEF Docs!Written, IsDocs
  <2>10. g \in Generations /\ g.id = o.current.id /\ g.text = Len(p.author) + 1
        BY <2>5, <2>6, <2>8 DEF Generations
  <2> QED BY <2>8, <2>9, <2>10, GenerationKeeps
<1>18. CASE Docs!Chunk
  <2>1. PICK g \in panel.generating : panel' = [panel EXCEPT !.content = g.text]
        BY <1>18 DEF Docs!Chunk
  <2>2. g.text \in Docs!Texts
        BY <1>a DEF DocTypes, Generations
  <2>3. /\ IsDocs(panel') /\ panel'.lasting = panel.lasting
        /\ panel'.stored = panel.stored /\ panel'.visits = panel.visits
        /\ panel'.route = panel.route /\ panel'.loading = panel.loading
        /\ panel'.listing = panel.listing /\ panel'.loads = panel.loads
        /\ panel'.current = panel.current /\ panel'.tab = panel.tab
        /\ panel'.content = g.text /\ panel'.timer = panel.timer
        /\ panel'.revision = panel.revision /\ panel'.generating = panel.generating
        /\ panel'.draft = panel.draft /\ panel'.promptTimers = panel.promptTimers
        /\ panel'.saves = panel.saves /\ panel'.author = panel.author
        /\ panel'.newest = panel.newest /\ panel'.excused = panel.excused
        BY <1>a, <2>1 DEF IsDocs
  <2>4. DocTypes(panel')
        BY <1>a, <2>2, <2>3 DEF DocTypes
  <2>5. DocMounted(panel')
        BY <1>a, <2>3 DEF DocMounted, Docs!Editing
  <2>6. DocHome(panel') /\ DocHere(panel')
        BY <1>a, <2>3 DEF DocHome, DocHere, Home
  <2>7. DocNewest(panel')
        BY <1>a, <2>3 DEF DocNewest
  <2> QED BY <2>4, <2>5, <2>6, <2>7 DEF DocOK
<1>19. CASE Docs!Generated
  <2>1. PICK g \in panel.generating :
           panel' =
             IF g.alive
             THEN [panel EXCEPT !.generating = {}, !.content = g.text, !.newest[g.id] = g.text,
                                !.timer = {[id |-> g.id, text |-> g.text, typed |-> FALSE]}]
             ELSE Docs!SaveBegun([panel EXCEPT !.generating = {}, !.newest[g.id] = g.text,
                                               !.excused = @ \cup {"lost"}], g.id, "doc", g.text)
        BY <1>19 DEF Docs!Generated
  <2>2. g \in Generations /\ g.id \in Docs!Projects /\ g.text \in Docs!Texts
        BY <1>a DEF DocTypes, Generations
  <2>3. "replaced" \notin panel.excused => Home(panel, g.id, g.text)
        BY <1>a DEF DocHome
  <2>4. CASE g.alive
    <3>1. panel' = [panel EXCEPT !.generating = {}, !.content = g.text, !.newest[g.id] = g.text,
                                 !.timer = {[id |-> g.id, text |-> g.text, typed |-> FALSE]}]
          BY <2>1, <2>4
    <3>2. Docs!Editing(panel, "world")
          BY <1>a, <2>4 DEF DocMounted
    <3>3. "replaced" \notin panel.excused => g.id = panel.current.id
          BY <1>a, <2>4 DEF DocHere
    <3> QED BY <2>2, <2>3, <3>1, <3>2, <3>3, GeneratedKeeps
  <2>5. CASE ~g.alive
    <3>1. PICK newest : newest = [panel.newest EXCEPT ![g.id] = g.text]
          OBVIOUS
    <3>2. PICK q : q = [panel EXCEPT !.generating = {}, !.newest = newest,
                                     !.excused = @ \cup {"lost"}]
          OBVIOUS
    <3>3. panel' = Docs!SaveBegun(q, g.id, "doc", g.text)
          BY <2>1, <2>5, <3>1, <3>2
    <3>4. /\ IsDocs(q) /\ q.lasting = panel.lasting /\ q.stored = panel.stored
          /\ q.visits = panel.visits /\ q.route = panel.route
          /\ q.loading = panel.loading /\ q.listing = panel.listing
          /\ q.loads = panel.loads /\ q.current = panel.current /\ q.tab = panel.tab
          /\ q.content = panel.content /\ q.timer = panel.timer
          /\ q.revision = panel.revision /\ q.generating = {} /\ q.draft = panel.draft
          /\ q.promptTimers = panel.promptTimers /\ q.saves = panel.saves
          /\ q.author = panel.author /\ q.newest = newest
          /\ q.excused = panel.excused \cup {"lost"}
          BY <1>a, <3>2 DEF IsDocs
    <3>5. newest \in [Docs!Projects -> Docs!Texts]
          BY <1>a, <2>2, <3>1 DEF DocTypes
    <3>6. DocTypes(q)
          BY <1>a, <3>4, <3>5 DEF DocTypes
    <3>7. DocMounted(q)
          BY <1>a, <3>4 DEF DocMounted, Docs!Editing
    <3>8. DocHome(q) /\ DocHere(q)
          BY <1>a, <3>4 DEF DocHome, DocHere, Home
    <3>9. "replaced" \notin q.excused => Home(q, g.id, g.text)
          BY <2>3, <3>4 DEF Home
    <3>10. "doc" \in {"doc", "prompt"}
          OBVIOUS
    <3>11. DocTypes(panel') /\ DocMounted(panel') /\ DocHome(panel') /\ DocHere(panel')
          BY <2>2, <3>3, <3>6, <3>7, <3>8, <3>9, <3>10, SaveBegunKeeps
    <3>12. PICK base : Begun(q, panel', g.id, "doc", g.text, base)
          BY <3>3, <3>4, SaveBegunFields
    <3>13. panel'.excused # {}
          BY <3>4, <3>12 DEF Begun
    <3>14. DocNewest(panel')
          BY <3>13 DEF DocNewest
    <3> QED BY <3>11, <3>14 DEF DocOK
  <2> QED BY <2>4, <2>5
<1>20. CASE Docs!GenerateFails
  <2>1. panel' = [panel EXCEPT !.generating = {}]
        BY <1>20 DEF Docs!GenerateFails
  <2> QED BY <2>1, GenerationEnds
<1>21. CASE Docs!TypePrompt
  <2>1. /\ Len(panel.author) + 1 <= MaxTexts /\ Docs!Editing(panel, "prompt")
        /\ panel' = Docs!PromptQueued(Docs!Written(panel, panel.current.id), Len(panel.author) + 1)
        BY <1>21 DEF Docs!TypePrompt, Docs!Room, Docs!NextText
  <2>2. panel.current.id \in Docs!Projects
        BY <1>a, <2>1, EditingKnown
  <2>3. DocOK(Docs!Written(panel, panel.current.id)) /\ Len(panel.author) + 1 \in Docs!Texts
        BY <2>1, <2>2, WrittenKeeps
  <2> QED BY <2>1, <2>3, PromptQueuedKeeps
<1>22. CASE Docs!ResetPrompt
  <2>1. panel' = Docs!PromptQueued(panel, 0)
        BY <1>22 DEF Docs!ResetPrompt
  <2>2. 0 \in Docs!Texts
        BY PanelsAssumption DEF Docs!Texts
  <2> QED BY <2>1, <2>2, PromptQueuedKeeps
<1>23. CASE Docs!PromptTimerFires
  <2>1. PICK t \in panel.promptTimers :
           LET p == [panel EXCEPT !.promptTimers = @ \ {t}]
           IN  panel' = IF p.current.id = "none" THEN p
                        ELSE Docs!SaveBegun(p, p.current.id, "prompt", t.text)
        BY <1>23 DEF Docs!PromptTimerFires
  <2>2. PICK q : q = [panel EXCEPT !.promptTimers = @ \ {t}]
        OBVIOUS
  <2>3. /\ IsDocs(q) /\ q.lasting = panel.lasting /\ q.stored = panel.stored
        /\ q.visits = panel.visits /\ q.route = panel.route /\ q.loading = panel.loading
        /\ q.listing = panel.listing /\ q.loads = panel.loads
        /\ q.current = panel.current /\ q.tab = panel.tab /\ q.content = panel.content
        /\ q.timer = panel.timer /\ q.revision = panel.revision
        /\ q.generating = panel.generating /\ q.draft = panel.draft
        /\ q.promptTimers = panel.promptTimers \ {t} /\ q.saves = panel.saves
        /\ q.author = panel.author /\ q.newest = panel.newest
        /\ q.excused = panel.excused
        BY <1>a, <2>2 DEF IsDocs
  <2>4. DocTypes(q) /\ t.text \in Docs!Texts
        BY <1>a, <2>3 DEF DocTypes
  <2>5. DocMounted(q)
        BY <1>a, <2>3 DEF DocMounted, Docs!Editing
  <2>6. DocHome(q) /\ DocHere(q)
        BY <1>a, <2>3 DEF DocHome, DocHere, Home
  <2>7. DocNewest(q)
        BY <1>a, <2>3 DEF DocNewest
  <2>8. DocOK(q)
        BY <2>4, <2>5, <2>6, <2>7 DEF DocOK
  <2>9. CASE q.current.id = "none"
        BY <2>1, <2>2, <2>8, <2>9
  <2>10. CASE q.current.id # "none"
    <3>1. q.current.id \in Docs!Projects
          BY <2>4, <2>10 DEF DocTypes, Currents
    <3>2. panel' = Docs!SaveBegun(q, q.current.id, "prompt", t.text)
          BY <2>1, <2>2, <2>10
    <3> QED BY <2>4, <2>8, <3>1, <3>2, PromptSaved
  <2> QED BY <2>9, <2>10
<1>24. CASE Docs!SaveStores
      BY <1>24, SaveStoresKeeps DEF DocInv
<1>25. CASE Docs!SaveReturns
      BY <1>25, SaveReturnsKeeps DEF DocInv
<1>26. CASE Docs!SaveFails
      BY <1>26, SaveFailsKeeps DEF DocInv
<1>27. CASE Docs!LoadRead
  <2>1. PICK load \in panel.loads :
           panel' = [panel EXCEPT !.loads = (@ \ {load}) \cup
                                      {[load EXCEPT !.row = {panel.stored[load.id]}]}]
        BY <1>27 DEF Docs!LoadRead
  <2>2. PICK read : read = [load EXCEPT !.row = {panel.stored[load.id]}]
        OBVIOUS
  <2>3. PICK loads : loads = (panel.loads \ {load}) \cup {read}
        OBVIOUS
  <2>4. /\ load \in Loads /\ load.id \in Docs!Projects
        /\ panel.stored[load.id] \in DocRows
        BY <1>a DEF DocTypes, Loads
  <2>5. /\ read \in Loads /\ read.id = load.id
        /\ read.row = {panel.stored[load.id]}
        BY <2>2, <2>4 DEF Loads
  <2>6. panel' = [panel EXCEPT !.loads = loads]
        BY <2>1, <2>2, <2>3
  <2>7. /\ IsDocs(panel') /\ panel'.lasting = panel.lasting
        /\ panel'.stored = panel.stored /\ panel'.visits = panel.visits
        /\ panel'.route = panel.route /\ panel'.loading = panel.loading
        /\ panel'.listing = panel.listing /\ panel'.loads = loads
        /\ panel'.current = panel.current /\ panel'.tab = panel.tab
        /\ panel'.content = panel.content /\ panel'.timer = panel.timer
        /\ panel'.revision = panel.revision /\ panel'.generating = panel.generating
        /\ panel'.draft = panel.draft /\ panel'.promptTimers = panel.promptTimers
        /\ panel'.saves = panel.saves /\ panel'.author = panel.author
        /\ panel'.newest = panel.newest /\ panel'.excused = panel.excused
        BY <1>a, <2>6 DEF IsDocs
  <2>8. DocTypes(panel')
        BY <1>a, <2>3, <2>5, <2>7 DEF DocTypes
  <2>9. DocMounted(panel')
        BY <1>a, <2>7 DEF DocMounted, Docs!Editing
  <2>10. \A i, n : Home(panel', i, n) <=> Home(panel, i, n)
        BY <2>7 DEF Home
  <2>11. DocHere(panel')
        BY <1>a, <2>7, <2>10 DEF DocHere
  <2>12. DocHome(panel')
    <3> SUFFICES ASSUME "replaced" \notin panel.excused PROVE DocHome(panel')
        BY <2>7 DEF DocHome
    <3>1. \A l \in loads : \A r \in l.row : Home(panel, l.id, r.doc)
          BY <1>a, <2>3, <2>4, <2>5 DEF DocHome
    <3> QED BY <1>a, <2>7, <2>10, <3>1 DEF DocHome
  <2>13. DocNewest(panel')
        BY <1>a, <2>7 DEF DocNewest
  <2> QED BY <2>8, <2>9, <2>11, <2>12, <2>13 DEF DocOK
<1> QED BY <1>1, <1>2, <1>3, <1>4, <1>5, <1>6, <1>7, <1>8, <1>9, <1>10, <1>11, <1>12,
           <1>13, <1>14, <1>15, <1>16, <1>17, <1>18, <1>19, <1>20, <1>21, <1>22, <1>23,
           <1>24, <1>25, <1>26, <1>27
        DEF Docs!Next, Docs!Player, Docs!Answers

LEMMA DocProperties ==
    DocInv => /\ Docs!TypeOK /\ Docs!DocStaysHome
              /\ Docs!NewestDocKept /\ Docs!CurrentIsStored
<1> SUFFICES ASSUME DocOK(panel)
             PROVE  /\ Docs!TypeOK /\ Docs!DocStaysHome
                    /\ Docs!NewestDocKept /\ Docs!CurrentIsStored
    BY DEF DocInv
<1>a. DocTypes(panel) /\ DocHome(panel) /\ DocNewest(panel)
      BY DEF DocOK
<1>1. Docs!TypeOK
      BY <1>a DEF Docs!TypeOK, DocTypes, Currents, Saves, DocRows
<1>2. Docs!DocStaysHome
      BY <1>a DEF Docs!DocStaysHome, DocHome, Home
<1>3. Docs!NewestDocKept
      BY <1>a DEF Docs!NewestDocKept, DocNewest
<1>4. Docs!CurrentIsStored
      BY <1>a DEF Docs!CurrentIsStored, DocNewest
<1> QED BY <1>1, <1>2, <1>3, <1>4

LEMMA DocAlways == Spec => [](which = "docs" => DocInv)
<1>1. Init => (which = "docs" => DocInv)
      BY PanelsAssumption, DocInit DEF Init
<1>2. (which = "docs" => DocInv) /\ [Next]_vars => (which = "docs" => DocInv)'
  <2> SUFFICES ASSUME which = "docs" => DocInv, [Next]_vars, which' = "docs" PROVE DocInv'
      OBVIOUS
  <2>1. CASE Next
        BY <2>1, DocStep DEF Next
  <2>2. CASE UNCHANGED vars
        BY <2>2 DEF vars, DocInv
  <2> QED BY <2>1, <2>2
<1> QED BY <1>1, <1>2, PTL DEF Spec

\* Whichever timers, answers and generations come late, a world document is
\* stored in its own project, unless the project was replaced under a mounted
\* editor (MarkdownEditor.tsx debouncedSave, handleGenerate, handleAccept).
THEOREM DocsStayHome == Spec => []DocStaysHome
<1>1. (which = "docs" => DocInv) => DocStaysHome
      BY DocProperties DEF DocStaysHome
<1> QED BY <1>1, DocAlways, PTL

\* Until a text is lost in one of the ways ProjectDocs names - its editor taken
\* away with the focus in it, a row read before a save shown after it, the
\* project replaced, saves that overlap or fail, a generation without its
\* editor - the newest world document of a project is stored, on its way or
\* waiting, and when nothing is on its way the store's copy of the project is
\* the stored one (projectStore.ts updateWorldDoc, updateProject, selectProject).
THEOREM NewestDocsAreKept == Spec => []NewestDocKept
<1>1. (which = "docs" => DocInv) => NewestDocKept
      BY DocProperties DEF NewestDocKept
<1> QED BY <1>1, DocAlways, PTL

\* None of the panels leaves its state space: in particular the renderer of a
\* block has a draft for each of its fields, and of the wizards a player has
\* opened one at most is still there to be told of its project.
THEOREM PanelsTypeCorrect == Spec => []PanelsTypeOK
<1>1. (which = "blocks" => BlockInv) => (which = "blocks" => Blocks!TypeOK)
      BY DEF BlockInv
<1>2. (which = "store" => StoreInv) => (which = "store" => Store!TypeOK)
      BY DEF StoreInv
<1>3. (which = "docs" => DocInv) => (which = "docs" => Docs!TypeOK)
      BY DocProperties
<1>4. (which = "new" => WizardInv) => (which = "new" => New!TypeOK)
      BY DEF WizardInv
<1>5. (which = "models" => ModelInv) => (which = "models" => Models!TypeOK)
      BY ModelProperties
<1>6. (which = "runtime" => RuntimeInv) => (which = "runtime" => Runtime!TypeOK)
      BY RuntimeProperties
<1>7. (which = "switches" => SwitchInv) => (which = "switches" => Switches!TypeOK)
      BY SwitchProperties
<1>8. (which = "book" => CodexInv) => (which = "book" => Book!TypeOK)
      BY DEF CodexInv
<1>9. (which = "story" => NovelInv) => (which = "story" => Story!TypeOK)
      BY NovelProperties
<1>10. /\ (which = "blocks" => Blocks!TypeOK) /\ (which = "store" => Store!TypeOK)
       /\ (which = "docs" => Docs!TypeOK) /\ (which = "new" => New!TypeOK)
       /\ (which = "models" => Models!TypeOK) /\ (which = "runtime" => Runtime!TypeOK)
       /\ (which = "switches" => Switches!TypeOK) /\ (which = "book" => Book!TypeOK)
       /\ (which = "story" => Story!TypeOK)
       => PanelsTypeOK
      BY DEF PanelsTypeOK
<1> QED BY <1>1, <1>2, <1>3, <1>4, <1>5, <1>6, <1>7, <1>8, <1>9, <1>10,
           BlockAlways, StoreAlways, DocAlways, WizardAlways, ModelAlways,
           RuntimeAlways, SwitchAlways, CodexAlways, NovelAlways, PTL

=============================================================================
