-------------------------- MODULE SessionViewProofs --------------------------
(***************************************************************************)
(* Proofs about SessionView, for every set of sessions, with a web socket  *)
(* and with HTTP, and for every value of the bounds.                       *)
(***************************************************************************)
EXTENDS SessionView, TLAPS

-----------------------------------------------------------------------------
(* Types                                                                   *)

Somewhere == Sessions \cup {NoSession}

\* What TypeOK leaves out: a restore under way is of a session and has one as
\* its target.
RestoringType ==
    /\ restoring \in [step : Steps, session : Somewhere, fork : BOOLEAN, target : Somewhere]
    /\ restoring.step = "idle" <=> restoring = NotRestoring
    /\ restoring.step # "idle" =>
          restoring.session \in Sessions /\ restoring.target \in Sessions

Types ==
    /\ current \in Somewhere /\ effective \in Somewhere /\ active \in Somewhere
    /\ listed \in SUBSET Sessions /\ existing \in SUBSET Sessions
    /\ playing \in SUBSET Sessions
    /\ shown \in [Slots -> SUBSET Sessions]
    /\ asked \in SUBSET Requests
    /\ busy \in BOOLEAN /\ modal \in BOOLEAN /\ strayed \in BOOLEAN
    /\ RestoringType
    /\ actions \in 0..MaxActions /\ failures \in 0..MaxFailures

\* Where a store comes from: the sessions of each slot.
Stored == [Slots -> SUBSET Sessions]

LEMMA SlotNames ==
    Slots = {"state", "events", "scenes", "messages", "images", "notifications",
             "tokens", "versions"}
BY DEF Slots, GameData

LEMMA ClearedStores ==
    ASSUME NEW stored \in Stored, NEW slots
    PROVE  /\ Cleared(stored, slots) \in Stored
           /\ \A slot \in Slots : Cleared(stored, slots)[slot] =
                                  IF slot \in slots THEN {} ELSE stored[slot]
BY DEF Stored, Cleared

LEMMA HoldingStores ==
    ASSUME NEW stored \in Stored, NEW slot \in Slots, NEW session \in Sessions
    PROVE  /\ Holding(stored, slot, session) \in Stored
           /\ \A other \in Slots : Holding(stored, slot, session)[other] =
                                  IF other = slot THEN {session} ELSE stored[other]
BY DEF Stored, Holding

LEMMA AddedStores ==
    ASSUME NEW stored \in Stored, NEW slot \in Slots, NEW more \in SUBSET Sessions
    PROVE  /\ [stored EXCEPT ![slot] = @ \cup more] \in Stored
           /\ \A other \in Slots :
                 [stored EXCEPT ![slot] = @ \cup more][other] =
                    IF other = slot THEN stored[other] \cup more ELSE stored[other]
BY DEF Stored

LEMMA NotifiedStores ==
    ASSUME NEW stored \in Stored
    PROVE  /\ WithNotifications(stored) \in Stored
           /\ \A slot \in Slots \ {"notifications"} :
                 WithNotifications(stored)[slot] = stored[slot]
           /\ WithNotifications(stored)["notifications"] =
                 IF active = current /\ current # NoSession
                 THEN stored["notifications"] \cup stored["messages"]
                 ELSE stored["notifications"]
<1>1. "notifications" \in Slots /\ "messages" \in Slots
  BY SlotNames
<1>2. stored["messages"] \in SUBSET Sessions
  BY <1>1 DEF Stored
<1>3. CASE active = current /\ current # NoSession
  <2>1. WithNotifications(stored) = [stored EXCEPT !["notifications"] = @ \cup stored["messages"]]
    BY <1>3 DEF WithNotifications
  <2>2. [stored EXCEPT !["notifications"] = @ \cup stored["messages"]] \in Stored
    BY <1>1, <1>2, AddedStores
  <2> QED BY <1>1, <1>3, <2>1, <2>2 DEF Stored
<1>4. CASE ~(active = current /\ current # NoSession)
  BY <1>4 DEF WithNotifications
<1> QED BY <1>3, <1>4

LEMMA TurnStores ==
    ASSUME NEW stored \in Stored, NEW session \in Sessions
    PROVE  /\ AfterTurn(stored, session) \in Stored
           /\ \A slot \in Slots :
                 AfterTurn(stored, session)[slot] \in
                    {stored[slot], stored[slot] \cup {session}}
           /\ AfterTurn(stored, session)["versions"] = stored["versions"]
           /\ AfterTurn(stored, session)["notifications"] =
                 IF active = session THEN stored["notifications"] \cup {session}
                 ELSE stored["notifications"]
<1> DEFINE t == AfterTurn(stored, session)
<1>1. \A slot \in Slots : stored[slot] \in SUBSET Sessions
  BY DEF Stored
<1>2. ASSUME NEW slot \in {"messages", "state", "events", "scenes", "tokens"}
      PROVE  t[slot] = stored[slot] \cup {session}
  BY SlotNames DEF AfterTurn
<1>3. t["notifications"] = IF active = session THEN stored["notifications"] \cup {session}
                           ELSE stored["notifications"]
  BY SlotNames DEF AfterTurn
<1>4. t["images"] = stored["images"] /\ t["versions"] = stored["versions"]
  BY SlotNames DEF AfterTurn
<1>5. t = [slot \in Slots |-> t[slot]]
  BY DEF AfterTurn
<1> HIDE DEF t
<1>6. \A slot \in Slots : t[slot] \in {stored[slot], stored[slot] \cup {session}}
  BY <1>2, <1>3, <1>4, SlotNames
<1>7. \A slot \in Slots : t[slot] \in SUBSET Sessions
  BY <1>1, <1>6
<1>8. t \in Stored
  BY <1>5, <1>7 DEF Stored
<1> QED BY <1>3, <1>4, <1>6, <1>8 DEF t

LEMMA BoundTypes ==
    /\ MaxActions \in Nat /\ MaxAhead \in Nat /\ MaxFailures \in Nat
    /\ MaxAhead <= MaxActions
    /\ Initial \in SUBSET Sessions /\ NoSession \notin Sessions
BY SessionViewAssumption DEF SessionViewAssumption

LEMMA RequestType ==
    ASSUME NEW session \in Sessions,
           NEW what \in Slots \cup {"turn", "create", "delete", "archive", "lookup"}
    PROVE  /\ Request(what, session) \in Requests
           /\ Request(what, session).what = what
           /\ Request(what, session).session = session
BY DEF Request, Requests

LEMMA LoadedRequests ==
    ASSUME NEW session \in Somewhere, NEW begun \in BOOLEAN
    PROVE  /\ Loaded(session, begun) \in SUBSET Requests
           /\ \A r \in Loaded(session, begun) : r.session = session /\ r.what \in Slots
           /\ session # NoSession => Request("versions", session) \in Loaded(session, begun)
<1>1. CASE session = NoSession
  BY <1>1 DEF Loaded
<1>2. CASE session # NoSession
  <2>1. session \in Sessions
    BY <1>2 DEF Somewhere
  <2>2. \A r \in Loaded(session, begun) :
            \E slot \in {"state", "images", "scenes", "events", "versions"} :
                r = Request(slot, session)
    BY <1>2 DEF Loaded, HydrationRequests
  <2>3. \A r \in Loaded(session, begun) :
            r \in Requests /\ r.session = session /\ r.what \in Slots
    BY <2>1, <2>2, RequestType, SlotNames
  <2> QED BY <1>2, <2>3 DEF Loaded
<1> QED BY <1>1, <1>2

LEMMA TypesTypeOK == Types => TypeOK
<1> SUFFICES ASSUME Types PROVE TypeOK
  OBVIOUS
<1>1. {busy, modal, strayed} \subseteq BOOLEAN
  BY Zenon DEF Types
<1>2. restoring.step \in Steps
  BY DEF Types, RestoringType
<1> QED BY <1>1, <1>2 DEF Types, TypeOK, Somewhere

LEMMA InitTypes == Init => Types
<1> SUFFICES ASSUME Init PROVE Types
  OBVIOUS
<1>1. RestoringType
  BY DEF Init, RestoringType, NotRestoring, Steps, Somewhere
<1>2. shown \in [Slots -> SUBSET Sessions]
  BY DEF Init
<1>3. listed \in SUBSET Sessions /\ existing \in SUBSET Sessions /\ playing \in SUBSET Sessions
  BY BoundTypes DEF Init
<1>4. asked \in SUBSET Requests
  BY DEF Init
<1>5. actions \in 0..MaxActions /\ failures \in 0..MaxFailures
  BY BoundTypes DEF Init
<1> QED BY <1>1, <1>2, <1>3, <1>4, <1>5 DEF Init, Types, Somewhere

\* The player's acts: how far the bounds let them go.
LEMMA ActsTypes ==
    ASSUME Types, Acts
    PROVE  actions' \in 0..MaxActions /\ strayed = FALSE
BY BoundTypes DEF Types, Acts

LEMMA StrayType ==
    ASSUME Stray
    PROVE  strayed' \in BOOLEAN
BY Zenon DEF Stray

LEMMA PlayerTypes ==
    ASSUME Types, Player
    PROVE  Types'
<1> USE DEF stores
<1>1. CASE Switch
  <2>1. PICK s \in listed \ {current} :
            current' = s /\ asked' = asked \cup {Request("messages", s)}
    BY <1>1 DEF Switch
  <2>2. s \in Sessions
    BY <2>1 DEF Types
  <2>3. asked' \in SUBSET Requests /\ current' \in Somewhere
    BY <2>1, <2>2, RequestType, SlotNames DEF Types, Somewhere
  <2>4. shown' \in [Slots -> SUBSET Sessions]
    BY <1>1, ClearedStores DEF Types, Switch, ResetForSession, Stored
  <2>5. strayed' \in BOOLEAN
    BY <1>1, Zenon DEF Switch
  <2>6. actions' \in 0..MaxActions
    BY <1>1, ActsTypes DEF Switch, Changes
  <2>7. UNCHANGED <<effective, listed, existing, playing, active, busy, modal,
                    restoring, failures>>
    BY <1>1 DEF Switch
  <2> QED BY <2>3, <2>4, <2>5, <2>6, <2>7 DEF Types, RestoringType
<1>2. CASE New \/ Delete
  <2>1. PICK s \in Sessions, what \in {"create", "delete"} :
            asked' = asked \cup {Request(what, s)}
    BY <1>2 DEF Types, New, Delete
  <2>2. asked' \in SUBSET Requests
    BY <2>1, RequestType DEF Types
  <2>3. strayed' \in BOOLEAN /\ actions' \in 0..MaxActions
    BY <1>2, StrayType, ActsTypes DEF New, Delete, Changes
  <2>4. UNCHANGED <<current, effective, listed, existing, playing, stores, busy,
                    modal, restoring, failures>>
    BY <1>2 DEF New, Delete
  <2> QED BY <2>2, <2>3, <2>4 DEF Types, RestoringType
<1>3. CASE Command
  <2>1. effective \in Sessions /\ asked' = asked \cup {Request("turn", effective)}
    BY <1>3 DEF Types, Command, Somewhere
  <2>2. asked' \in SUBSET Requests
    BY <2>1, RequestType DEF Types
  <2>3. strayed' \in BOOLEAN
    BY <1>3, Zenon DEF Command
  <2>4. actions' \in 0..MaxActions
    BY <1>3, ActsTypes DEF Command
  <2>5. UNCHANGED <<current, effective, listed, existing, playing, stores, busy,
                    modal, restoring, failures>>
    BY <1>3 DEF Command
  <2> QED BY <2>2, <2>3, <2>4, <2>5 DEF Types, RestoringType
<1>4. CASE ArchiveNow \/ OpenRestore
  <2>1. current \in Sessions
    BY <1>4 DEF Types, ArchiveNow, OpenRestore, Somewhere
  <2>2. \/ asked' = asked
        \/ asked' = asked \cup {Request("archive", current)}
        \/ asked' = asked \cup {Request("lookup", current)}
    BY <1>4 DEF ArchiveNow, OpenRestore
  <2>3. asked' \in SUBSET Requests
    BY <2>1, <2>2, RequestType DEF Types
  <2>4. strayed' \in BOOLEAN /\ actions' \in 0..MaxActions
    BY <1>4, StrayType, ActsTypes DEF ArchiveNow, OpenRestore, Changes
  <2>5. busy' \in BOOLEAN /\ modal' \in BOOLEAN
    BY <1>4 DEF Types, ArchiveNow, OpenRestore
  <2>6. UNCHANGED <<current, effective, listed, existing, playing, stores,
                    restoring, failures>>
    BY <1>4 DEF ArchiveNow, OpenRestore
  <2> QED BY <2>3, <2>4, <2>5, <2>6 DEF Types, RestoringType
<1>5. CASE CloseModal
  BY <1>5 DEF Types, RestoringType, CloseModal
<1>6. CASE Restore
  <2>1. PICK fork \in BOOLEAN :
            restoring' = [step |-> "restore", session |-> current, fork |-> fork,
                          target |-> current]
    <3>1. (IF Sessions = existing THEN {FALSE} ELSE BOOLEAN) \subseteq BOOLEAN
      OBVIOUS
    <3> QED BY <1>6, <3>1 DEF Restore
  <2>2. current \in Sessions
    BY <1>6 DEF Types, Restore, Somewhere
  <2>3. RestoringType'
    BY <2>1, <2>2 DEF RestoringType, Steps, NotRestoring, Somewhere
  <2>4. strayed' \in BOOLEAN /\ actions' \in 0..MaxActions
    BY <1>6, StrayType, ActsTypes DEF Restore
  <2>5. busy' \in BOOLEAN /\ modal' \in BOOLEAN
    BY <1>6 DEF Restore
  <2>6. UNCHANGED <<current, effective, listed, existing, playing, stores, asked,
                    failures>>
    BY <1>6 DEF Restore
  <2> QED BY <2>3, <2>4, <2>5, <2>6 DEF Types
<1> QED BY <1>1, <1>2, <1>3, <1>4, <1>5, <1>6 DEF Player

\* RunEffects, and the page that selects a session.
LEMMA EffectsTypes ==
    ASSUME Types, RunEffects \/ AutoSelect
    PROVE  Types'
<1> USE DEF stores
<1>1. CASE RunEffects
  <2>1. effective' \in Somewhere /\ active' \in Somewhere
    BY <1>1 DEF Types, RunEffects
  <2>2. shown' \in [Slots -> SUBSET Sessions]
    BY <1>1, ClearedStores DEF Types, RunEffects, Stored
  <2>3. asked' \in SUBSET Requests
    BY <1>1, LoadedRequests DEF Types, RunEffects
  <2>4. UNCHANGED <<current, listed, existing, playing, busy, modal, restoring,
                    strayed, actions, failures>>
    BY <1>1 DEF RunEffects
  <2> QED BY <2>1, <2>2, <2>3, <2>4 DEF Types, RestoringType
<1>2. CASE AutoSelect
  <2>1. PICK s \in listed : current' = s /\ asked' = asked \cup {Request("messages", s)}
    BY <1>2 DEF AutoSelect
  <2>2. s \in Sessions
    BY <2>1 DEF Types
  <2>3. current' \in Somewhere /\ asked' \in SUBSET Requests
    BY <2>1, <2>2, RequestType, SlotNames DEF Types, Somewhere
  <2>4. UNCHANGED <<effective, listed, existing, playing, stores, busy, modal,
                    restoring, strayed, actions, failures>>
    BY <1>2 DEF AutoSelect
  <2> QED BY <2>3, <2>4 DEF Types, RestoringType
<1> QED BY <1>1, <1>2

LEMMA AskedType ==
    ASSUME Types, NEW r \in asked
    PROVE  /\ r \in Requests /\ r.session \in Sessions
           /\ r.what \in Slots \cup {"turn", "create", "delete", "archive", "lookup"}
           /\ r = Request(r.what, r.session)
BY DEF Types, Requests, Request

LEMMA FailureType ==
    ASSUME Types, failures < MaxFailures
    PROVE  failures + 1 \in 0..MaxFailures
BY BoundTypes DEF Types

LEMMA AnswersTypes ==
    ASSUME Types, Answers
    PROVE  Types'
<1> USE DEF stores
<1>1. CASE LoadAnswered
  <2>1. PICK r \in asked :
            /\ r.what \in Slots /\ asked' = asked \ {r}
            /\ shown' = LET loaded == Holding(shown, r.what, r.session)
                        IN  IF r.what = "messages" THEN WithNotifications(loaded)
                            ELSE loaded
    BY <1>1 DEF LoadAnswered, Take
  <2>2. shown' \in Stored
    BY <2>1, AskedType, HoldingStores, NotifiedStores DEF Types, Stored
  <2>3. UNCHANGED <<current, effective, listed, existing, playing, active, busy,
                    modal, restoring, strayed, actions, failures>>
    BY <1>1 DEF LoadAnswered
  <2> QED BY <2>1, <2>2, <2>3 DEF Types, Stored, RestoringType
<1>2. CASE LoadFails
  <2>1. PICK r \in asked :
            /\ asked' = asked \ {r}
            /\ shown' = IF r.what = "versions" THEN Cleared(shown, {"versions"}) ELSE shown
    BY <1>2 DEF LoadFails, Take
  <2>2. shown' \in Stored
    BY <2>1, ClearedStores DEF Types, Stored
  <2>3. failures' \in 0..MaxFailures
    BY <1>2, FailureType DEF LoadFails
  <2>4. UNCHANGED <<current, effective, listed, existing, playing, active, busy,
                    modal, restoring, strayed, actions>>
    BY <1>2 DEF LoadFails
  <2> QED BY <2>1, <2>2, <2>3, <2>4 DEF Types, Stored, RestoringType
<1>3. CASE TurnAnswered
  <2>1. PICK r \in asked :
            /\ playing' = playing \cup {r.session}
            /\ asked' = (asked \ {r})
                        \cup IF r.session \in playing THEN {}
                             ELSE {Request(slot, r.session) : slot \in GameData}
            /\ shown' = WithNotifications(AfterTurn(shown, r.session))
    BY <1>3 DEF TurnAnswered
  <2>2. r.session \in Sessions
    BY AskedType
  <2>3. shown' \in Stored
    BY <2>1, <2>2, TurnStores, NotifiedStores DEF Types, Stored
  <2>4. {Request(slot, r.session) : slot \in GameData} \in SUBSET Requests
    BY <2>2, RequestType DEF Slots
  <2>5. UNCHANGED <<current, effective, listed, existing, active, busy, modal,
                    restoring, strayed, actions, failures>>
    BY <1>3 DEF TurnAnswered
  <2> QED BY <2>1, <2>2, <2>3, <2>4, <2>5 DEF Types, Stored, RestoringType
<1>4. CASE CreateAnswered
  <2>1. PICK r \in asked :
            /\ asked' = asked \ {r}
            /\ existing' = existing \cup {r.session}
            /\ listed' = listed \cup {r.session}
            /\ current' = r.session
    BY <1>4 DEF CreateAnswered, Take
  <2>2. r.session \in Sessions
    BY AskedType
  <2>3. shown' \in Stored
    BY <1>4, ClearedStores DEF CreateAnswered, ResetForSession, Types, Stored
  <2>4. UNCHANGED <<effective, playing, active, busy, modal, restoring, strayed,
                    actions, failures>>
    BY <1>4 DEF CreateAnswered
  <2> QED BY <2>1, <2>2, <2>3, <2>4 DEF Types, Stored, Somewhere, RestoringType
<1>5. CASE DeleteAnswered
  <2>1. PICK r \in asked :
            /\ asked' = asked \ {r}
            /\ existing' = existing \ {r.session}
            /\ listed' = listed \ {r.session}
            /\ current' \in {current, NoSession}
            /\ shown' \in {ResetForSession(shown), Cleared(shown, {"tokens"})}
    BY <1>5 DEF DeleteAnswered, Take
  <2>2. shown' \in Stored
    BY <2>1, ClearedStores DEF ResetForSession, Types, Stored
  <2>3. UNCHANGED <<effective, playing, active, busy, modal, restoring, strayed,
                    actions, failures>>
    BY <1>5 DEF DeleteAnswered
  <2> QED BY <2>1, <2>2, <2>3 DEF Types, Stored, Somewhere, RestoringType
<1>6. CASE ArchiveAnswered
  <2>1. PICK r \in asked :
            /\ shown' = [shown EXCEPT !["messages"] = @ \cup {r.session}]
            /\ asked' \in {asked \ {r}, (asked \ {r}) \cup {Request("versions", r.session)}}
    BY <1>6 DEF ArchiveAnswered, Take
  <2>2. r.session \in Sessions
    BY AskedType
  <2>3. shown' \in Stored
    BY <2>1, <2>2, AddedStores, SlotNames DEF Types, Stored
  <2>4. asked' \in SUBSET Requests
    BY <2>1, <2>2, RequestType, SlotNames DEF Types
  <2>5. failures' \in 0..MaxFailures
    BY <1>6, FailureType DEF ArchiveAnswered, Types
  <2>6. busy' = FALSE /\ UNCHANGED <<current, effective, listed, existing, playing,
                    active, modal, restoring, strayed, actions>>
    BY <1>6 DEF ArchiveAnswered
  <2> QED BY <2>3, <2>4, <2>5, <2>6 DEF Types, Stored, RestoringType
<1>7. CASE LookupAnswered
  <2>1. PICK r \in asked :
            /\ asked' = asked \ {r}
            /\ modal' \in {TRUE, modal}
            /\ shown' \in {Holding(shown, "versions", r.session),
                           [shown EXCEPT !["messages"] = @ \cup {r.session}]}
    BY <1>7 DEF LookupAnswered, Take
  <2>2. r.session \in Sessions
    BY AskedType
  <2>3. shown' \in Stored
    <3>1. Holding(shown, "versions", r.session) \in Stored
      BY <2>2, HoldingStores, SlotNames DEF Types, Stored
    <3>2. [shown EXCEPT !["messages"] = @ \cup {r.session}] \in Stored
      BY <2>2, AddedStores, SlotNames DEF Types, Stored
    <3> QED BY <2>1, <3>1, <3>2
  <2>4. modal' \in BOOLEAN
    BY <2>1 DEF Types
  <2>5. UNCHANGED <<current, effective, listed, existing, playing, active, busy,
                    restoring, strayed, actions, failures>>
    BY <1>7 DEF LookupAnswered
  <2> QED BY <2>1, <2>3, <2>4, <2>5 DEF Types, Stored, RestoringType
<1> QED BY <1>1, <1>2, <1>3, <1>4, <1>5, <1>6, <1>7 DEF Answers

\* A restore under way has its sessions.
LEMMA UnderWay ==
    ASSUME Types, restoring.step # "idle"
    PROVE  /\ restoring \in [step : Steps, session : Somewhere, fork : BOOLEAN,
                             target : Somewhere]
           /\ restoring.session \in Sessions /\ restoring.target \in Sessions
BY DEF Types, RestoringType

LEMMA RestoreGoesOn ==
    ASSUME Types, restoring.step # "idle",
           NEW step \in Steps \ {"idle"}, NEW target \in Sessions,
           restoring' = [restoring EXCEPT !.step = step, !.target = target]
    PROVE  RestoringType' /\ restoring'.step = step /\ restoring'.target = target
           /\ restoring'.session = restoring.session
<1>1. restoring' \in [step : Steps, session : Somewhere, fork : BOOLEAN, target : Somewhere]
  BY UnderWay DEF Somewhere
<1>2. restoring'.step = step /\ restoring'.target = target
      /\ restoring'.session = restoring.session
  BY UnderWay
<1> QED BY <1>1, <1>2, UnderWay DEF RestoringType, NotRestoring

LEMMA RestoreSteps ==
    ASSUME Types, restoring.step # "idle", NEW step \in Steps \ {"idle"},
           restoring' = [restoring EXCEPT !.step = step]
    PROVE  RestoringType' /\ restoring'.step = step
           /\ restoring'.target = restoring.target
           /\ restoring'.session = restoring.session
<1>1. restoring' = [restoring EXCEPT !.step = step, !.target = restoring.target]
  BY UnderWay
<1> QED BY <1>1, RestoreGoesOn, UnderWay

LEMMA RestoreOver ==
    ASSUME restoring' = NotRestoring
    PROVE  RestoringType' /\ restoring'.step = "idle"
BY DEF RestoringType, NotRestoring, Steps, Somewhere

LEMMA RestoresTypes ==
    ASSUME Types, Restores
    PROVE  Types'
<1> USE DEF stores
<1>1. CASE RestoreAnswered
  <2>1. /\ RestoringType'
        /\ existing' \in SUBSET Sessions /\ playing' \in SUBSET Sessions
    <3>1. CASE restoring.fork
      <4>1. PICK s \in Sessions \ existing :
                /\ existing' = existing \cup {s} /\ playing' = playing \cup {s}
                /\ restoring' = [restoring EXCEPT !.step = "list", !.target = s]
        BY <1>1, <3>1 DEF RestoreAnswered
      <4>2. RestoringType'
        BY <1>1, <4>1, RestoreGoesOn DEF RestoreAnswered, Steps
      <4> QED BY <4>1, <4>2 DEF Types
    <3>2. CASE ~restoring.fork
      BY <1>1, <3>2, RestoreSteps DEF Types, RestoreAnswered, Steps
    <3> QED BY <3>1, <3>2
  <2>2. UNCHANGED <<current, effective, listed, stores, asked, busy, modal, strayed,
                    actions, failures>>
    BY <1>1 DEF RestoreAnswered
  <2> QED BY <2>1, <2>2 DEF Types
<1>2. CASE ForkListed
  <2>1. RestoringType'
    BY <1>2, RestoreSteps DEF ForkListed, Steps
  <2>2. listed' \in {listed, existing} /\ current' \in {current, restoring.target}
    BY <1>2 DEF ForkListed
  <2>3. shown' \in Stored
    BY <1>2, ClearedStores DEF ForkListed, ResetForSession, Types, Stored
  <2>4. failures' \in 0..MaxFailures /\ strayed' \in BOOLEAN
    BY <1>2, FailureType DEF ForkListed, Types
  <2>5. restoring.target \in Somewhere
    BY <1>2, UnderWay DEF ForkListed, Somewhere
  <2>6. UNCHANGED <<effective, existing, playing, active, asked, busy, modal, actions>>
    BY <1>2 DEF ForkListed
  <2> QED BY <2>1, <2>2, <2>3, <2>4, <2>5, <2>6 DEF Types, Stored
<1>3. CASE RestoredMessages
  <2>1. RestoringType' /\ restoring.target \in Sessions
    BY <1>3, RestoreSteps, UnderWay DEF RestoredMessages, RestoreStep, Steps
  <2>2. shown' \in Stored
    BY <1>3, <2>1, HoldingStores, NotifiedStores, SlotNames
    DEF RestoredMessages, Types, Stored
  <2>3. UNCHANGED <<current, effective, listed, existing, playing, active, asked,
                    busy, modal, strayed, actions, failures>>
    BY <1>3 DEF RestoredMessages
  <2> QED BY <2>1, <2>2, <2>3 DEF Types, Stored
<1>4. CASE RestoredData
  <2>1. RestoringType'
    BY <1>4, RestoreOver DEF RestoredData
  <2>2. restoring.target \in Sessions
    BY <1>4, UnderWay DEF RestoredData
  <2>3. shown' \in [Slots -> SUBSET Sessions]
    BY <1>4, <2>2 DEF RestoredData, Types
  <2>4. busy' = FALSE /\ UNCHANGED <<current, effective, listed, existing, playing,
                    active, asked, modal, strayed, actions, failures>>
    BY <1>4 DEF RestoredData
  <2> QED BY <2>1, <2>3, <2>4 DEF Types
<1>5. CASE RestoreFails
  <2>1. RestoringType'
    BY <1>5, RestoreOver DEF RestoreFails
  <2>2. restoring.session \in Sessions
    BY <1>5, UnderWay DEF RestoreFails
  <2>3. shown' \in Stored
    BY <1>5, <2>2, AddedStores, SlotNames DEF RestoreFails, Types, Stored
  <2>4. strayed' \in BOOLEAN
    BY <1>5, Zenon DEF RestoreFails
  <2>5. failures' \in 0..MaxFailures
    BY <1>5, FailureType DEF RestoreFails
  <2>6. busy' = FALSE /\ UNCHANGED <<current, effective, listed, existing, playing,
                    active, asked, modal, actions>>
    BY <1>5 DEF RestoreFails
  <2> QED BY <2>1, <2>3, <2>4, <2>5, <2>6 DEF Types, Stored
<1> QED BY <1>1, <1>2, <1>3, <1>4, <1>5 DEF Restores

LEMMA NextTypes == Types /\ [Next]_vars => Types'
<1> SUFFICES ASSUME Types, [Next]_vars PROVE Types'
  OBVIOUS
<1>1. CASE UNCHANGED vars
  BY <1>1 DEF vars, stores, Types, RestoringType
<1> QED BY <1>1, EffectsTypes, AnswersTypes, RestoresTypes, PlayerTypes DEF Next

LEMMA AlwaysTypes == Spec => []Types
BY InitTypes, NextTypes, PTL DEF Spec

\* Every reachable state of the stores is well typed.
THEOREM TypeCorrect == Spec => []TypeOK
BY AlwaysTypes, TypesTypeOK, PTL

-----------------------------------------------------------------------------
(* The inductive invariant                                                 *)

\* Requests that change which session is the current one.
Turning == {"create", "delete"}

\* Every load, command and archive under way is of the current session.
AskedOfCurrent ==
    \A r \in asked : r.what \notin Turning => r.session = current

\* The player who has asked for a new session, or to delete one, waits.
TurningAlone ==
    \A r \in asked : r.what \in Turning =>
        /\ asked = {r} /\ effective = current
        /\ restoring = NotRestoring /\ ~modal
        /\ current = NoSession => listed = {}

\* The player waits for a restore too: until the fork is on display nothing is
\* under way but the restore, and after that it writes to the current session.
RestoreAlone ==
    restoring.step # "idle" =>
        /\ current # NoSession /\ busy /\ ~modal
        /\ \A r \in asked : r.what \notin {"archive", "lookup"}
        /\ IF restoring.step \in {"restore", "list"}
           THEN /\ asked = {} /\ effective = current
                /\ restoring.session = current
                /\ restoring.step = "restore" => restoring.target = current
           ELSE restoring.target = current

\* The versions are those of the current session or are being fetched again.
VersionsFollow ==
    effective = current =>
        shown["versions"] \subseteq {current} \/ Request("versions", current) \in asked

DialogOfCurrent ==
    modal => current # NoSession /\ shown["versions"] \subseteq {current}

Waited ==
    /\ AskedOfCurrent
    /\ TurningAlone
    /\ RestoreAlone
    /\ VersionsFollow
    /\ DialogOfCurrent
    /\ ShownBelongsToCurrent
    /\ NotificationsBelongToCurrent

ViewInv == active = effective /\ (~strayed => Waited)

\* What a state in which the player has waited says of one slot.
LEMMA SlotOfCurrent ==
    ASSUME Types, Waited, NEW slot \in Slots \ {"versions", "notifications"}
    PROVE  /\ ~strayed => shown[slot] \subseteq {current}
           /\ ~strayed /\ current = NoSession => shown[slot] = {}
<1>1. shown[slot] \in SUBSET Sessions
  BY DEF Types
<1>2. ~strayed => shown[slot] \subseteq {current}
  BY DEF Waited, ShownBelongsToCurrent
<1> QED BY <1>1, <1>2, BoundTypes

\* A change of session empties what the session before has left.
LEMMA ResetStores ==
    ASSUME Types
    PROVE  /\ \A slot \in Slots \ {"versions", "notifications"} :
                 ResetForSession(shown)[slot] = {}
           /\ ResetForSession(shown)["versions"] = shown["versions"]
           /\ ResetForSession(shown)["notifications"] = shown["notifications"]
BY ClearedStores, SlotNames DEF Types, Stored, ResetForSession, GameData

LEMMA InitView == Init => ViewInv
BY SlotNames DEF Init, ViewInv, Waited, AskedOfCurrent, TurningAlone, RestoreAlone,
   VersionsFollow, DialogOfCurrent, ShownBelongsToCurrent, NotificationsBelongToCurrent,
   NotRestoring

\* The effects load the session that has become the current one.
LEMMA RunEffectsView ==
    ASSUME Types, ViewInv, RunEffects
    PROVE  ViewInv'
<1> SUFFICES ASSUME ~strayed' PROVE Waited'
  BY DEF ViewInv, RunEffects
<1>0. PICK begun \in BOOLEAN :
          /\ shown' = Cleared(shown, Emptied(current, begun))
          /\ asked' = {r \in asked : Http \/ r.what # "turn"} \cup Loaded(current, begun)
  BY DEF RunEffects
<1>1. /\ effective # current /\ effective' = current
      /\ shown' = Cleared(shown, Emptied(current, begun))
      /\ UNCHANGED <<current, listed, busy, modal, restoring, strayed>>
  BY <1>0 DEF RunEffects
<1>2. ~strayed /\ Waited
  BY <1>1 DEF ViewInv
<1>3. \A r \in asked' : r \in asked \/ r \in Loaded(current, begun)
  BY <1>0
<1>4. Loaded(current, begun) \subseteq asked'
  BY <1>0
<1>5. \A r \in Loaded(current, begun) : r.session = current /\ r.what \in Slots
  BY LoadedRequests DEF Types
<1>6. \A r \in asked : r.what \notin Turning
  BY <1>1, <1>2 DEF Waited, TurningAlone
<1>7. \A r \in asked' : r.what \notin Turning
  BY <1>3, <1>5, <1>6, SlotNames DEF Turning
<1>8. \A slot \in Slots : shown'[slot] \subseteq shown[slot]
  BY <1>1, ClearedStores DEF Types, Stored
<1>9. shown'["notifications"] = {}
  BY <1>1, ClearedStores, SlotNames DEF Types, Stored, Emptied
<1>10. AskedOfCurrent' /\ TurningAlone'
  BY <1>1, <1>2, <1>3, <1>5, <1>7 DEF Waited, AskedOfCurrent, TurningAlone
<1>11. RestoreAlone'
  BY <1>1, <1>2, <1>3, <1>5, SlotNames DEF Waited, RestoreAlone
<1>12. VersionsFollow'
  <2>1. CASE current = NoSession
    BY <1>1, <2>1, ClearedStores, SlotNames DEF Types, Stored, Emptied, VersionsFollow
  <2>2. CASE current # NoSession
    BY <1>1, <1>4, <2>2, LoadedRequests DEF Types, VersionsFollow
  <2> QED BY <2>1, <2>2
<1>13. DialogOfCurrent' /\ ShownBelongsToCurrent' /\ NotificationsBelongToCurrent'
  BY <1>1, <1>2, <1>8, <1>9, SlotNames
  DEF Waited, DialogOfCurrent, ShownBelongsToCurrent, NotificationsBelongToCurrent
<1> QED BY <1>10, <1>11, <1>12, <1>13 DEF Waited

LEMMA AutoSelectView ==
    ASSUME Types, ViewInv, AutoSelect
    PROVE  ViewInv'
<1> SUFFICES ASSUME ~strayed' PROVE Waited'
  BY DEF ViewInv, AutoSelect, stores
<1>1. PICK s \in listed : current' = s /\ asked' = asked \cup {Request("messages", s)}
  BY DEF AutoSelect
<1>2. /\ current = NoSession /\ effective = NoSession
      /\ UNCHANGED <<effective, listed, shown, busy, modal, restoring, strayed>>
  BY DEF AutoSelect, stores
<1>3. ~strayed /\ Waited
  BY <1>2 DEF ViewInv
<1>4. s \in Sessions /\ s # NoSession
  BY <1>1, BoundTypes DEF Types
<1>5. asked = {}
  <2>1. \A r \in asked : r.session # NoSession
    BY AskedType, BoundTypes
  <2>2. \A r \in asked : r.what \in Turning
    BY <1>2, <1>3, <2>1 DEF Waited, AskedOfCurrent
  <2>3. \A r \in asked : listed = {}
    BY <1>2, <1>3, <2>2 DEF Waited, TurningAlone
  <2> QED BY <1>1, <2>3
<1>6. \A slot \in Slots \ {"versions", "notifications"} : shown[slot] = {}
  BY <1>2, <1>3, SlotOfCurrent
<1>7. asked' = {Request("messages", s)} /\ Request("messages", s).session = s
      /\ Request("messages", s).what = "messages"
  BY <1>1, <1>5 DEF Request
<1>8. restoring.step = "idle" /\ ~modal
  BY <1>2, <1>3 DEF Waited, RestoreAlone, DialogOfCurrent
<1> QED BY <1>1, <1>2, <1>4, <1>6, <1>7, <1>8
    DEF Waited, AskedOfCurrent, TurningAlone, Turning, RestoreAlone, VersionsFollow,
        DialogOfCurrent, ShownBelongsToCurrent, NotificationsBelongToCurrent

-----------------------------------------------------------------------------
(* The player who has waited for the answers                               *)

\* Nothing is under way when a waiting player acts, and the versions are those
\* of the current session.
LEMMA SettledView ==
    ASSUME Types, ViewInv, Settled, ~strayed
    PROVE  /\ Waited /\ asked = {} /\ effective = current /\ restoring = NotRestoring
           /\ restoring.step = "idle"
           /\ current = NoSession => listed = {}
           /\ shown["versions"] \subseteq {current}
           /\ \A slot \in Slots \ {"versions"} : shown[slot] \subseteq {current}
<1>1. Waited /\ asked = {} /\ effective = current /\ restoring = NotRestoring
  BY DEF ViewInv, Settled
<1>2. current = NoSession => listed = {}
  BY DEF Settled
<1>3. shown["versions"] \subseteq {current}
  BY <1>1 DEF Waited, VersionsFollow
<1>4. \A slot \in Slots \ {"versions"} : shown[slot] \subseteq {current}
  BY <1>1 DEF Waited, ShownBelongsToCurrent, NotificationsBelongToCurrent
<1>5. restoring.step = "idle"
  BY <1>1 DEF NotRestoring
<1> QED BY <1>1, <1>2, <1>3, <1>4, <1>5

LEMMA StrayView ==
    ASSUME Acts, Stray, ~strayed'
    PROVE  Settled /\ ~strayed
BY DEF Acts, Stray

LEMMA SwitchView ==
    ASSUME Types, ViewInv, Switch
    PROVE  ViewInv'
<1> SUFFICES ASSUME ~strayed' PROVE Waited'
  BY DEF ViewInv, Switch
<1>1. PICK s \in listed \ {current} :
          current' = s /\ asked' = asked \cup {Request("messages", s)}
  BY DEF Switch
<1>2. /\ Settled /\ ~strayed /\ ~modal /\ shown' = ResetForSession(shown)
      /\ UNCHANGED <<effective, listed, busy, modal, restoring>>
  BY DEF Switch, Changes, Acts
<1>3. effective = current /\ restoring = NotRestoring /\ restoring.step = "idle"
  BY <1>2, SettledView
<1>4. asked' = {Request("messages", s)} /\ Request("messages", s).session = s
      /\ Request("messages", s).what = "messages"
  BY <1>1, <1>2, SettledView DEF Request
<1>5. \A slot \in Slots \ {"versions", "notifications"} : shown'[slot] = {}
  BY <1>2, ResetStores
<1> QED BY <1>1, <1>2, <1>3, <1>4, <1>5
    DEF Waited, AskedOfCurrent, TurningAlone, Turning, RestoreAlone, VersionsFollow,
        DialogOfCurrent, ShownBelongsToCurrent, NotificationsBelongToCurrent

LEMMA TurningView ==
    ASSUME Types, ViewInv, New \/ Delete
    PROVE  ViewInv'
<1> SUFFICES ASSUME ~strayed' PROVE Waited'
  BY DEF ViewInv, New, Delete, stores
<1>1. PICK s \in Sessions, what \in Turning : asked' = asked \cup {Request(what, s)}
  BY DEF Types, New, Delete, Turning
<1>2. Acts /\ Stray /\ ~modal
      /\ UNCHANGED <<current, effective, listed, shown, busy, modal, restoring>>
  BY DEF New, Delete, Changes, stores
<1>3. Settled /\ ~strayed
  BY <1>2, StrayView
<1>4. asked' = {Request(what, s)} /\ Request(what, s).what = what
  BY <1>1, <1>3, SettledView DEF Request
<1> QED BY <1>2, <1>3, <1>4, SettledView, SlotNames
    DEF Waited, AskedOfCurrent, TurningAlone, Turning, RestoreAlone, VersionsFollow,
        DialogOfCurrent, ShownBelongsToCurrent, NotificationsBelongToCurrent

\* A command may be given while loads are under way, but not during a change
\* of session.
LEMMA CommandView ==
    ASSUME Types, ViewInv, Command
    PROVE  ViewInv'
<1> SUFFICES ASSUME ~strayed' PROVE Waited'
  BY DEF ViewInv, Command, stores
<1>1. /\ asked' = asked \cup {Request("turn", effective)} /\ ~modal
      /\ UNCHANGED <<current, effective, listed, shown, busy, modal, restoring>>
  BY DEF Command, stores
<1>2. ~strayed /\ effective = current /\ ~Changing
  BY DEF Command
<1>3. Waited
  BY <1>2 DEF ViewInv
<1>4. Request("turn", effective).session = current
      /\ Request("turn", effective).what = "turn"
  BY <1>2 DEF Request
<1>5. ~busy /\ \A r \in asked' : r.what \notin Turning
  BY <1>1, <1>2, <1>4 DEF Changing, Turning
<1>6. restoring.step = "idle"
  BY <1>3, <1>5 DEF Waited, RestoreAlone
<1>7. AskedOfCurrent' /\ TurningAlone' /\ RestoreAlone'
  BY <1>1, <1>3, <1>4, <1>5, <1>6 DEF Waited, AskedOfCurrent, TurningAlone, RestoreAlone
<1>8. VersionsFollow' /\ DialogOfCurrent'
  BY <1>1, <1>3 DEF Waited, VersionsFollow, DialogOfCurrent
<1>9. ShownBelongsToCurrent' /\ NotificationsBelongToCurrent'
  BY <1>1, <1>2, <1>3 DEF Waited, ShownBelongsToCurrent, NotificationsBelongToCurrent
<1> QED BY <1>7, <1>8, <1>9 DEF Waited

LEMMA ArchiveDialogView ==
    ASSUME Types, ViewInv, ArchiveNow \/ OpenRestore \/ Restore
    PROVE  ViewInv'
<1> SUFFICES ASSUME ~strayed' PROVE Waited'
  BY DEF ViewInv, ArchiveNow, OpenRestore, Restore, stores
<1>1. /\ Acts /\ Stray /\ current # NoSession
      /\ UNCHANGED <<current, effective, listed, shown>>
  BY DEF ArchiveNow, OpenRestore, Restore, Changes, stores
<1>2. Settled /\ ~strayed
  BY <1>1, StrayView
<1>3. asked = {} /\ effective = current /\ shown["versions"] \subseteq {current}
      /\ restoring.step = "idle"
  BY <1>2, SettledView
<1>4. ShownBelongsToCurrent' /\ NotificationsBelongToCurrent' /\ VersionsFollow'
      /\ DialogOfCurrent'
  BY <1>1, <1>2, SettledView, SlotNames
  DEF ShownBelongsToCurrent, NotificationsBelongToCurrent, VersionsFollow, DialogOfCurrent
<1>5. CASE ArchiveNow \/ OpenRestore
  <2>1. PICK what \in {"archive", "lookup"} : asked' \subseteq {Request(what, current)}
    BY <1>3, <1>5 DEF ArchiveNow, OpenRestore
  <2>2. Request(what, current).what = what /\ Request(what, current).session = current
    BY DEF Request
  <2>3. restoring' = restoring
    BY <1>5 DEF ArchiveNow, OpenRestore
  <2> QED BY <1>1, <1>3, <1>4, <2>1, <2>2, <2>3
      DEF Waited, AskedOfCurrent, TurningAlone, Turning, RestoreAlone
<1>6. CASE Restore
  <2>1. /\ asked' = {} /\ busy' = TRUE /\ modal' = FALSE
        /\ restoring'.step = "restore" /\ restoring'.session = current
        /\ restoring'.target = current
    BY <1>3, <1>6 DEF Restore
  <2> QED BY <1>1, <1>3, <1>4, <2>1
      DEF Waited, AskedOfCurrent, TurningAlone, RestoreAlone
<1> QED BY <1>5, <1>6

LEMMA CloseModalView ==
    ASSUME Types, ViewInv, CloseModal
    PROVE  ViewInv'
BY DEF ViewInv, CloseModal, stores, Waited, AskedOfCurrent, TurningAlone, RestoreAlone,
       VersionsFollow, DialogOfCurrent, ShownBelongsToCurrent, NotificationsBelongToCurrent

-----------------------------------------------------------------------------
(* Answers, each of the current session                                    *)

\* An answer that is no change of session is of the current one, and no change
\* of session is under way.
LEMMA AnswerOfCurrent ==
    ASSUME Types, Waited, NEW r \in asked, r.what \notin Turning
    PROVE  /\ r.session = current /\ current # NoSession
           /\ \A other \in asked : other.what \notin Turning
<1>1. r.session = current
  BY DEF Waited, AskedOfCurrent
<1>2. current # NoSession
  BY <1>1, AskedType, BoundTypes
<1>3. \A other \in asked : other.what \notin Turning
  BY DEF Waited, TurningAlone
<1> QED BY <1>1, <1>2, <1>3

LEMMA LoadAnsweredView ==
    ASSUME Types, ViewInv, LoadAnswered
    PROVE  ViewInv'
<1> SUFFICES ASSUME ~strayed' PROVE Waited'
  BY DEF ViewInv, LoadAnswered
<1>1. PICK r \in asked :
          /\ r.what \in Slots /\ asked' = asked \ {r}
          /\ shown' = LET loaded == Holding(shown, r.what, r.session)
                      IN  IF r.what = "messages" THEN WithNotifications(loaded)
                          ELSE loaded
  BY DEF LoadAnswered, Take
<1>2. UNCHANGED <<current, effective, listed, active, busy, modal, restoring, strayed>>
  BY DEF LoadAnswered
<1>3. ~strayed /\ Waited
  BY <1>2 DEF ViewInv
<1>4. r.what \notin Turning
  BY <1>1, SlotNames DEF Turning
<1>5. r.session = current /\ \A other \in asked : other.what \notin Turning
  BY <1>3, <1>4, AnswerOfCurrent
<1>6. r = Request(r.what, current) /\ current \in Sessions
  BY <1>5, AskedType
<1> DEFINE loaded == Holding(shown, r.what, current)
<1>7. /\ loaded \in Stored
      /\ \A other \in Slots : loaded[other] = IF other = r.what THEN {current} ELSE shown[other]
  BY <1>1, <1>6, HoldingStores DEF Types, Stored
<1>8. shown' = IF r.what = "messages" THEN WithNotifications(loaded) ELSE loaded
  BY <1>1, <1>5
<1> HIDE DEF loaded
<1>9. \A slot \in Slots \ {"notifications"} :
          shown'[slot] = IF slot = r.what THEN {current} ELSE shown[slot]
  BY <1>7, <1>8, NotifiedStores
<1>10. shown'["notifications"] \subseteq shown["notifications"] \cup {current}
  BY <1>7, <1>8, NotifiedStores, SlotNames
<1>11. AskedOfCurrent' /\ TurningAlone' /\ RestoreAlone'
  BY <1>1, <1>2, <1>3, <1>5 DEF Waited, AskedOfCurrent, TurningAlone, RestoreAlone
<1>12. shown'["versions"] = {current} \/ (shown'["versions"] = shown["versions"]
                                          /\ r # Request("versions", current))
  BY <1>9, SlotNames DEF Request
<1>13. VersionsFollow' /\ DialogOfCurrent'
  BY <1>1, <1>2, <1>3, <1>12 DEF Waited, VersionsFollow, DialogOfCurrent
<1>14. ShownBelongsToCurrent' /\ NotificationsBelongToCurrent'
  BY <1>2, <1>3, <1>9, <1>10 DEF Waited, ShownBelongsToCurrent, NotificationsBelongToCurrent
<1> QED BY <1>11, <1>13, <1>14 DEF Waited

LEMMA LoadFailsView ==
    ASSUME Types, ViewInv, LoadFails
    PROVE  ViewInv'
<1> SUFFICES ASSUME ~strayed' PROVE Waited'
  BY DEF ViewInv, LoadFails
<1>1. PICK r \in asked :
          /\ r.what \in Slots /\ asked' = asked \ {r}
          /\ shown' = IF r.what = "versions" THEN Cleared(shown, {"versions"}) ELSE shown
  BY DEF LoadFails, Take
<1>2. UNCHANGED <<current, effective, listed, active, busy, modal, restoring, strayed>>
  BY DEF LoadFails
<1>3. ~strayed /\ Waited
  BY <1>2 DEF ViewInv
<1>4. r.what \notin Turning
  BY <1>1, SlotNames DEF Turning
<1>5. \A other \in asked : other.what \notin Turning
  BY <1>3, <1>4, AnswerOfCurrent
<1>6. \A slot \in Slots : shown'[slot] \subseteq shown[slot]
  BY <1>1, ClearedStores DEF Types, Stored
<1>7. shown'["versions"] = {} \/ (shown'["versions"] = shown["versions"]
                                  /\ r # Request("versions", current))
  BY <1>1, ClearedStores, SlotNames DEF Types, Stored, Request
<1>8. AskedOfCurrent' /\ TurningAlone' /\ RestoreAlone'
  BY <1>1, <1>2, <1>3, <1>5 DEF Waited, AskedOfCurrent, TurningAlone, RestoreAlone
<1>9. VersionsFollow' /\ DialogOfCurrent'
  BY <1>1, <1>2, <1>3, <1>7 DEF Waited, VersionsFollow, DialogOfCurrent
<1>10. ShownBelongsToCurrent' /\ NotificationsBelongToCurrent'
  BY <1>2, <1>3, <1>6, SlotNames
  DEF Waited, ShownBelongsToCurrent, NotificationsBelongToCurrent
<1> QED BY <1>8, <1>9, <1>10 DEF Waited

LEMMA TurnAnsweredView ==
    ASSUME Types, ViewInv, TurnAnswered
    PROVE  ViewInv'
<1> SUFFICES ASSUME ~strayed' PROVE Waited'
  BY DEF ViewInv, TurnAnswered
<1>1. PICK r \in asked :
          /\ r.what = "turn"
          /\ asked' = (asked \ {r})
                      \cup IF r.session \in playing THEN {}
                           ELSE {Request(slot, r.session) : slot \in GameData}
          /\ shown' = WithNotifications(AfterTurn(shown, r.session))
  BY DEF TurnAnswered
<1>2. UNCHANGED <<current, effective, listed, active, busy, modal, restoring, strayed>>
  BY DEF TurnAnswered
<1>3. ~strayed /\ Waited
  BY <1>2 DEF ViewInv
<1>4. r.what \notin Turning
  BY <1>1 DEF Turning
<1>5. r.session = current /\ \A other \in asked : other.what \notin Turning
  BY <1>3, <1>4, AnswerOfCurrent
<1>6. current \in Sessions
  BY <1>5, AskedType
<1>7. \A other \in asked' : other \in asked
          \/ (other.session = current /\ other.what \in {"state", "events", "scenes"})
  <2>1. \A other \in {Request(slot, current) : slot \in GameData} :
            other.session = current /\ other.what \in {"state", "events", "scenes"}
    BY DEF Request, GameData
  <2> QED BY <1>1, <1>5, <2>1
<1> DEFINE after == AfterTurn(shown, current)
<1>8. /\ after \in Stored /\ \A slot \in Slots : after[slot] \subseteq shown[slot] \cup {current}
      /\ after["versions"] = shown["versions"]
  BY <1>6, TurnStores DEF Types, Stored
<1>9. shown' = WithNotifications(after)
  BY <1>1, <1>5
<1> HIDE DEF after
<1>10. \A slot \in Slots \ {"notifications"} : shown'[slot] \subseteq shown[slot] \cup {current}
  BY <1>8, <1>9, NotifiedStores
<1>11. shown'["versions"] = shown["versions"]
  BY <1>8, <1>9, NotifiedStores, SlotNames
<1>12. after["messages"] \subseteq {current}
  BY <1>3, <1>8, SlotNames DEF Waited, ShownBelongsToCurrent
<1>13. shown'["notifications"] \subseteq shown["notifications"] \cup {current}
  BY <1>8, <1>9, <1>12, NotifiedStores, SlotNames
<1>14. AskedOfCurrent' /\ TurningAlone' /\ RestoreAlone'
  <2>1. \A other \in asked' : other.what \notin Turning
    BY <1>5, <1>7 DEF Turning
  <2>2. restoring.step # "idle" => restoring.step \notin {"restore", "list"}
    BY <1>3 DEF Waited, RestoreAlone
  <2> QED BY <1>2, <1>3, <1>7, <2>1, <2>2
      DEF Waited, AskedOfCurrent, TurningAlone, RestoreAlone
<1>15. VersionsFollow' /\ DialogOfCurrent'
  <2>1. r # Request("versions", current)
    BY <1>1 DEF Request
  <2> QED BY <1>1, <1>2, <1>3, <1>11, <2>1 DEF Waited, VersionsFollow, DialogOfCurrent
<1>16. ShownBelongsToCurrent' /\ NotificationsBelongToCurrent'
  BY <1>2, <1>3, <1>10, <1>13 DEF Waited, ShownBelongsToCurrent, NotificationsBelongToCurrent
<1> QED BY <1>14, <1>15, <1>16 DEF Waited

\* The session asked for is there or gone: no request is left, and the effects
\* have still to run for it.
LEMMA TurningAnsweredView ==
    ASSUME Types, ViewInv, CreateAnswered \/ DeleteAnswered
    PROVE  ViewInv'
<1> SUFFICES ASSUME ~strayed' PROVE Waited'
  BY DEF ViewInv, CreateAnswered, DeleteAnswered
<1>1. PICK r \in asked :
          /\ r.what \in Turning /\ asked' = asked \ {r}
          /\ \/ current' \in {r.session, NoSession} /\ shown' = ResetForSession(shown)
                /\ (current' = NoSession => r.session = current)
             \/ current' = current /\ shown' = Cleared(shown, {"tokens"})
  <2>1. CASE CreateAnswered
    <3>1. PICK r \in asked : /\ r.what = "create" /\ asked' = asked \ {r}
                             /\ current' = r.session /\ shown' = ResetForSession(shown)
      BY <2>1 DEF CreateAnswered, Take
    <3>2. r.session # NoSession
      BY AskedType, BoundTypes
    <3> QED BY <3>1, <3>2 DEF Turning
  <2>2. CASE DeleteAnswered
    BY <2>2 DEF DeleteAnswered, Take, Turning
  <2> QED BY <2>1, <2>2
<1>2. UNCHANGED <<effective, active, busy, modal, restoring, strayed>>
  BY DEF CreateAnswered, DeleteAnswered
<1>3. ~strayed /\ Waited
  BY <1>2 DEF ViewInv
<1>4. /\ asked = {r} /\ effective = current /\ restoring = NotRestoring /\ ~modal
      /\ r.session \in Sessions /\ r.session # NoSession
  BY <1>1, <1>3, AskedType, BoundTypes DEF Waited, TurningAlone
<1>5. asked' = {}
  BY <1>1, <1>4
<1>6. restoring.step = "idle"
  BY <1>4 DEF NotRestoring
<1>7. effective' = current' => current' = current
  BY <1>2, <1>4
<1>8. shown["versions"] \subseteq {current}
  <2>1. r # Request("versions", current)
    BY <1>1 DEF Turning, Request
  <2> QED BY <1>3, <1>4, <2>1 DEF Waited, VersionsFollow
<1>9. /\ shown'["versions"] = shown["versions"]
      /\ shown'["notifications"] = shown["notifications"]
  BY <1>1, ResetStores, ClearedStores, SlotNames DEF Types, Stored
<1>10. \A slot \in Slots \ {"versions", "notifications"} :
           shown'[slot] = {} \/ (shown'[slot] = shown[slot] /\ current' = current)
  BY <1>1, ResetStores, ClearedStores, SlotNames DEF Types, Stored
<1>11. AskedOfCurrent' /\ TurningAlone' /\ RestoreAlone' /\ DialogOfCurrent'
  BY <1>2, <1>4, <1>5, <1>6 DEF AskedOfCurrent, TurningAlone, RestoreAlone, DialogOfCurrent
<1>12. VersionsFollow' /\ NotificationsBelongToCurrent'
  BY <1>2, <1>3, <1>4, <1>7, <1>8, <1>9
  DEF Waited, VersionsFollow, NotificationsBelongToCurrent
<1>13. ShownBelongsToCurrent'
  BY <1>3, <1>10 DEF Waited, ShownBelongsToCurrent
<1> QED BY <1>11, <1>12, <1>13 DEF Waited

LEMMA ArchiveAnsweredView ==
    ASSUME Types, ViewInv, ArchiveAnswered \/ LookupAnswered
    PROVE  ViewInv'
<1> SUFFICES ASSUME ~strayed' PROVE Waited'
  BY DEF ViewInv, ArchiveAnswered, LookupAnswered
<1>1. PICK r \in asked :
          /\ r.what \in {"archive", "lookup"}
          /\ asked' \in {asked \ {r}, (asked \ {r}) \cup {Request("versions", r.session)}}
          /\ \/ /\ shown' = [shown EXCEPT !["messages"] = @ \cup {r.session}]
                /\ modal' = modal
             \/ shown' = Holding(shown, "versions", r.session)
  BY DEF ArchiveAnswered, LookupAnswered, Take
<1>2. UNCHANGED <<current, effective, listed, active, restoring, strayed>>
  BY DEF ArchiveAnswered, LookupAnswered
<1>3. ~strayed /\ Waited
  BY <1>2 DEF ViewInv
<1>4. r.what \notin Turning
  BY <1>1 DEF Turning
<1>5. /\ r.session = current /\ current # NoSession
      /\ \A other \in asked : other.what \notin Turning
  BY <1>3, <1>4, AnswerOfCurrent
<1>6. current \in Sessions
  BY <1>5, AskedType
<1>7. restoring.step = "idle"
  BY <1>1, <1>3 DEF Waited, RestoreAlone
<1>8. \A other \in asked' : other \in asked
          \/ (other.session = current /\ other.what = "versions")
  BY <1>1, <1>5 DEF Request
<1>9. AskedOfCurrent' /\ TurningAlone' /\ RestoreAlone'
  BY <1>2, <1>3, <1>5, <1>7, <1>8
  DEF Waited, AskedOfCurrent, TurningAlone, Turning, RestoreAlone
<1>10. /\ \A slot \in Slots :
               shown'[slot] \in {shown[slot], {current}, shown[slot] \cup {current}}
       /\ \/ shown'["versions"] = {current}
          \/ shown'["versions"] = shown["versions"] /\ modal' = modal
       /\ shown'["notifications"] = shown["notifications"]
  <2>1. CASE shown' = Holding(shown, "versions", current)
    <3>1. DOMAIN shown = Slots
      BY DEF Types
    <3>2. \A slot \in Slots \ {"versions"} : shown'[slot] = shown[slot]
      BY <2>1, <3>1 DEF Holding
    <3>3. shown'["versions"] = {current}
      BY <2>1, <3>1, SlotNames DEF Holding
    <3> QED BY <3>2, <3>3, SlotNames
  <2>2. CASE shown' = [shown EXCEPT !["messages"] = @ \cup {current}] /\ modal' = modal
    <3>1. DOMAIN shown = Slots
      BY DEF Types
    <3>2. \A other \in Slots \ {"messages"} : shown'[other] = shown[other]
      BY <2>2, <3>1
    <3>3. shown'["messages"] = shown["messages"] \cup {current}
      BY <2>2, <3>1, SlotNames
    <3> QED BY <2>2, <3>2, <3>3, SlotNames
  <2> QED BY <1>1, <1>5, <2>1, <2>2
<1>13. DialogOfCurrent'
  BY <1>2, <1>3, <1>5, <1>10 DEF Waited, DialogOfCurrent
<1>14. VersionsFollow'
  <2>1. r # Request("versions", current)
    BY <1>1 DEF Request
  <2> QED BY <1>1, <1>2, <1>3, <1>10, <2>1 DEF Waited, VersionsFollow
<1>15. ShownBelongsToCurrent' /\ NotificationsBelongToCurrent'
  BY <1>2, <1>3, <1>10
  DEF Waited, ShownBelongsToCurrent, NotificationsBelongToCurrent
<1> QED BY <1>9, <1>13, <1>14, <1>15 DEF Waited

-----------------------------------------------------------------------------
(* A restore, alone until its fork is on display                           *)

\* No change of session is asked for while a restore is under way.
LEMMA RestoreNotTurning ==
    ASSUME Waited, restoring.step # "idle"
    PROVE  \A r \in asked : r.what \notin Turning
BY DEF Waited, TurningAlone, NotRestoring

LEMMA RestoreAnsweredView ==
    ASSUME Types, ViewInv, RestoreAnswered
    PROVE  ViewInv'
<1> SUFFICES ASSUME ~strayed' PROVE Waited'
  BY DEF ViewInv, RestoreAnswered, stores
<1>1. /\ restoring.step = "restore"
      /\ UNCHANGED <<current, effective, listed, shown, asked, busy, modal, strayed>>
  BY DEF RestoreAnswered, stores
<1>2. ~strayed /\ Waited
  BY <1>1 DEF ViewInv
<1>3. \/ restoring'.step = "list" /\ restoring'.session = restoring.session
      \/ restoring'.step = "messages" /\ restoring'.target = restoring.target
  <2>1. CASE restoring.fork
    <3>1. PICK s \in Sessions :
              restoring' = [restoring EXCEPT !.step = "list", !.target = s]
      BY <2>1 DEF RestoreAnswered
    <3> QED BY <1>1, <3>1, UnderWay
  <2>2. CASE ~restoring.fork
    BY <1>1, <2>2, RestoreSteps DEF RestoreAnswered, Steps
  <2> QED BY <2>1, <2>2
<1>4. TurningAlone' /\ RestoreAlone'
  BY <1>1, <1>2, <1>3, RestoreNotTurning DEF Waited, TurningAlone, RestoreAlone
<1>5. AskedOfCurrent' /\ VersionsFollow' /\ DialogOfCurrent'
  BY <1>1, <1>2 DEF Waited, AskedOfCurrent, VersionsFollow, DialogOfCurrent
<1>6. ShownBelongsToCurrent' /\ NotificationsBelongToCurrent'
  BY <1>1, <1>2 DEF Waited, ShownBelongsToCurrent, NotificationsBelongToCurrent
<1> QED BY <1>4, <1>5, <1>6 DEF Waited

LEMMA ForkListedView ==
    ASSUME Types, ViewInv, ForkListed
    PROVE  ViewInv'
<1> SUFFICES ASSUME ~strayed' PROVE Waited'
  BY DEF ViewInv, ForkListed
<1>1. /\ restoring.step = "list" /\ current' = restoring.target
      /\ shown' = ResetForSession(shown)
      /\ restoring' = [restoring EXCEPT !.step = "switch"]
      /\ UNCHANGED <<effective, asked, busy, modal, strayed>>
  BY DEF ForkListed
<1>2. ~strayed /\ Waited
  BY <1>1 DEF ViewInv
<1>3. restoring'.step = "switch" /\ restoring'.target = current' /\ current' \in Sessions
  BY <1>1, RestoreSteps, UnderWay DEF Steps
<1>4. asked = {} /\ effective = current /\ busy /\ ~modal
  BY <1>1, <1>2 DEF Waited, RestoreAlone
<1>5. \A slot \in Slots \ {"versions", "notifications"} : shown'[slot] = {}
  BY <1>1, ResetStores
<1>6. /\ shown'["versions"] = shown["versions"]
      /\ shown'["notifications"] = shown["notifications"]
  BY <1>1, ResetStores
<1>7. AskedOfCurrent' /\ TurningAlone' /\ DialogOfCurrent'
  BY <1>1, <1>4 DEF AskedOfCurrent, TurningAlone, DialogOfCurrent
<1>8. RestoreAlone'
  BY <1>1, <1>3, <1>4, BoundTypes DEF RestoreAlone
<1>9. VersionsFollow' /\ NotificationsBelongToCurrent'
  BY <1>1, <1>2, <1>4, <1>6 DEF Waited, VersionsFollow, NotificationsBelongToCurrent
<1>10. ShownBelongsToCurrent'
  BY <1>5 DEF ShownBelongsToCurrent
<1> QED BY <1>7, <1>8, <1>9, <1>10 DEF Waited

LEMMA RestoredView ==
    ASSUME Types, ViewInv, RestoredMessages \/ RestoredData
    PROVE  ViewInv'
<1> SUFFICES ASSUME ~strayed' PROVE Waited'
  BY DEF ViewInv, RestoredMessages, RestoredData
<1>1. /\ restoring.step \in {"switch", "messages", "load"}
      /\ UNCHANGED <<current, effective, listed, asked, modal, strayed, active>>
  BY DEF RestoredMessages, RestoredData, RestoreStep
<1>2. ~strayed /\ Waited
  BY <1>1 DEF ViewInv
<1>3. restoring.target = current /\ current \in Sessions /\ ~modal
  BY <1>1, <1>2, UnderWay DEF Waited, RestoreAlone
<1>4. \A r \in asked : r.what \notin Turning
  BY <1>1, <1>2, RestoreNotTurning
<1>5. RestoreAlone'
  <2>1. CASE RestoredMessages
    <3>1. PICK step \in {"messages", "load"} : restoring' = [restoring EXCEPT !.step = step]
      BY <2>1 DEF RestoredMessages, RestoreStep
    <3>2. restoring'.step = step /\ restoring'.target = restoring.target
      BY <1>1, <3>1, RestoreSteps DEF Steps
    <3>3. busy' = busy
      BY <2>1 DEF RestoredMessages
    <3> QED BY <1>1, <1>2, <1>3, <3>2, <3>3 DEF Waited, RestoreAlone
  <2>2. CASE RestoredData
    BY <2>2, RestoreOver DEF RestoredData, RestoreAlone
  <2> QED BY <2>1, <2>2
<1>6. /\ \A slot \in Slots \ {"notifications"} : shown'[slot] \in {shown[slot], {current}}
      /\ shown'["notifications"] \subseteq shown["notifications"] \cup {current}
      /\ shown'["versions"] \in {shown["versions"], {current}}
  <2>1. CASE RestoredMessages
    <3> DEFINE loaded == Holding(shown, "messages", current)
    <3>1. shown' = WithNotifications(loaded)
      BY <1>3, <2>1 DEF RestoredMessages
    <3>2. /\ loaded \in Stored
          /\ \A other \in Slots :
                loaded[other] = IF other = "messages" THEN {current} ELSE shown[other]
      BY <1>3, HoldingStores, SlotNames DEF Types, Stored
    <3> HIDE DEF loaded
    <3> QED BY <3>1, <3>2, NotifiedStores, SlotNames
  <2>2. CASE RestoredData
    BY <1>3, <2>2, SlotNames DEF RestoredData, GameData
  <2> QED BY <2>1, <2>2
<1>7. AskedOfCurrent' /\ TurningAlone' /\ VersionsFollow' /\ DialogOfCurrent'
  BY <1>1, <1>2, <1>3, <1>4, <1>6
  DEF Waited, AskedOfCurrent, TurningAlone, VersionsFollow, DialogOfCurrent
<1>8. ShownBelongsToCurrent' /\ NotificationsBelongToCurrent'
  BY <1>1, <1>2, <1>6 DEF Waited, ShownBelongsToCurrent, NotificationsBelongToCurrent
<1> QED BY <1>5, <1>7, <1>8 DEF Waited

LEMMA RestoreFailsView ==
    ASSUME Types, ViewInv, RestoreFails
    PROVE  ViewInv'
<1> SUFFICES ASSUME ~strayed' PROVE Waited'
  BY DEF ViewInv, RestoreFails
<1>1. /\ restoring.step # "idle" /\ restoring' = NotRestoring
      /\ shown' = [shown EXCEPT !["messages"] = @ \cup {restoring.session}]
      /\ UNCHANGED <<current, effective, listed, asked, modal>>
  BY DEF RestoreFails
<1>2. ~strayed /\ restoring.session = current
  BY DEF RestoreFails
<1>3. Waited /\ current \in Sessions
  BY <1>1, <1>2, UnderWay DEF ViewInv
<1>4. \A slot \in Slots \ {"messages"} : shown'[slot] = shown[slot]
  BY <1>1 DEF Types
<1>5. shown'["messages"] = shown["messages"] \cup {current}
  BY <1>1, <1>2, SlotNames DEF Types
<1>6. RestoreAlone' /\ TurningAlone'
  BY <1>1, <1>3, RestoreNotTurning, RestoreOver DEF RestoreAlone, TurningAlone
<1>7. AskedOfCurrent' /\ VersionsFollow' /\ DialogOfCurrent'
  BY <1>1, <1>3, <1>4, SlotNames DEF Waited, AskedOfCurrent, VersionsFollow, DialogOfCurrent
<1>8. ShownBelongsToCurrent' /\ NotificationsBelongToCurrent'
  BY <1>1, <1>2, <1>3, <1>4, <1>5, SlotNames
  DEF Waited, ShownBelongsToCurrent, NotificationsBelongToCurrent
<1> QED BY <1>6, <1>7, <1>8 DEF Waited

-----------------------------------------------------------------------------
(* The theorems                                                            *)

LEMMA NextView == Types /\ ViewInv /\ [Next]_vars => ViewInv'
<1> SUFFICES ASSUME Types, ViewInv, [Next]_vars PROVE ViewInv'
  OBVIOUS
<1>1. CASE UNCHANGED vars
  BY <1>1 DEF vars, stores, ViewInv, Waited, AskedOfCurrent, TurningAlone, RestoreAlone,
     VersionsFollow, DialogOfCurrent, ShownBelongsToCurrent, NotificationsBelongToCurrent
<1>2. CASE RunEffects \/ AutoSelect
  BY <1>2, RunEffectsView, AutoSelectView
<1>3. CASE Answers
  BY <1>3, LoadAnsweredView, LoadFailsView, TurnAnsweredView, TurningAnsweredView,
     ArchiveAnsweredView DEF Answers
<1>4. CASE Restores
  BY <1>4, RestoreAnsweredView, ForkListedView, RestoredView, RestoreFailsView DEF Restores
<1>5. CASE Player
  BY <1>5, SwitchView, TurningView, CommandView, ArchiveDialogView, CloseModalView DEF Player
<1> QED BY <1>1, <1>2, <1>3, <1>4, <1>5 DEF Next

LEMMA AlwaysView == Spec => []ViewInv
BY AlwaysTypes, InitView, NextView, PTL DEF Spec

\* With a player who has waited for the answers, what the stores show is of the
\* current session.
THEOREM StoresFollowTheSession == Spec => []ShownBelongsToCurrent
<1>1. ViewInv => ShownBelongsToCurrent
  BY DEF ViewInv, Waited, ShownBelongsToCurrent
<1> QED BY <1>1, AlwaysView, PTL

\* So are the notifications, once the effects have run.
THEOREM NotificationsFollowTheSession == Spec => []NotificationsBelongToCurrent
<1>1. ViewInv => NotificationsBelongToCurrent
  BY DEF ViewInv, Waited, NotificationsBelongToCurrent
<1> QED BY <1>1, AlwaysView, PTL

\* The restore dialog offers the versions of the session it restores.
THEOREM VersionsFollowTheSession == Spec => []OfferedVersionsAreOwn
<1>1. ViewInv => OfferedVersionsAreOwn
  BY DEF ViewInv, Waited, DialogOfCurrent, OfferedVersionsAreOwn
<1> QED BY <1>1, AlwaysView, PTL
=============================================================================
