---------------------------- MODULE ArchiveProofs ----------------------------
(***************************************************************************)
(* Proofs about Archive, for every set of clients, every archive interval  *)
(* and list length, and every value of the bounds.                         *)
(***************************************************************************)
EXTENDS Archive, SequenceTheorems, FiniteSetTheorems, TLAPS

-----------------------------------------------------------------------------
(* Types                                                                   *)

LEMMA BlankType == Blank \in State /\ NoVersion \in Version /\ NewMeta \in Meta
BY DEF Blank, State, NoVersion, Version, NewMeta, Meta

\* Trimming keeps the newest entries, and no more than fit.
LEMMA TrimmedType ==
    ASSUME NEW s \in Seq(Version)
    PROVE  /\ Trimmed(s) \in Seq(Version)
           /\ Len(Trimmed(s)) <= MaxVersions
           /\ \A i \in DOMAIN Trimmed(s) : \E j \in DOMAIN s : Trimmed(s)[i] = s[j]
<1>1. CASE Len(s) <= MaxVersions
  BY <1>1, ArchiveAssumption DEF Trimmed, ArchiveAssumption
<1>2. CASE Len(s) > MaxVersions
  <2> DEFINE first == Len(s) - MaxVersions + 1
  <2>1. first \in 1..Len(s) /\ Len(s) \in Nat
    BY <1>2, ArchiveAssumption DEF ArchiveAssumption
  <2>2. Trimmed(s) = SubSeq(s, first, Len(s))
    BY <1>2, ArchiveAssumption DEF Trimmed, ArchiveAssumption
  <2>3. \A i \in first..Len(s) : s[i] \in Version
    BY <2>1
  <2>4. /\ Trimmed(s) \in Seq(Version)
        /\ Len(Trimmed(s)) = Len(s) - first + 1
        /\ \A i \in 1..(Len(s) - first + 1) : Trimmed(s)[i] = s[first + i - 1]
    BY <2>1, <2>2, <2>3, SubSeqProperties
  <2>5. ASSUME NEW i \in DOMAIN Trimmed(s)
        PROVE  \E j \in DOMAIN s : Trimmed(s)[i] = s[j]
    <3>1. i \in 1..(Len(s) - first + 1)
      BY <2>4
    <3>2. first + i - 1 \in DOMAIN s
      BY <2>1, <3>1
    <3> QED BY <2>4, <3>1, <3>2
  <2> QED BY <2>1, <2>4, <2>5, ArchiveAssumption DEF ArchiveAssumption
<1> QED BY <1>1, <1>2, ArchiveAssumption DEF ArchiveAssumption

\* What a search returns is in the list.
LEMMA FoundType ==
    ASSUME NEW n, NEW version \in FindVersion(n)
    PROVE  \E i \in DOMAIN versions : version = versions[i]
BY DEF FindVersion

LEMMA LeaveType ==
    ASSUME TypeOK, NEW c \in Clients, Leave(c)
    PROVE  /\ pc' \in [Clients -> Labels]
           /\ orm' \in [Clients -> Nat]
           /\ born' \in [Clients -> Nat]
           /\ read' \in [Clients -> Meta]
           /\ list' \in [Clients -> Seq(Version)]
           /\ entry' \in [Clients -> Version]
           /\ branch' \in [Clients -> Nat]
BY BlankType DEF TypeOK, Leave, Goto, Labels

LEMMA InitTypeOK == Init => TypeOK
BY BlankType, ArchiveAssumption DEF Init, TypeOK, Labels, State, ArchiveAssumption

LEMMA NextTypeOK == TypeOK /\ [Next]_vars => TypeOK'
<1> SUFFICES ASSUME TypeOK, [Next]_vars PROVE TypeOK'
  OBVIOUS
<1> USE DEF session, archive, local, bounds, history
<1>1. ASSUME NEW c \in Clients, NEW counted \in BOOLEAN, BeginTurn(c, counted)
      PROVE  TypeOK'
  BY <1>1 DEF BeginTurn, TypeOK, Goto, Labels
<1>2. ASSUME NEW c \in Clients, BeginManual(c)
      PROVE  TypeOK'
  BY <1>2 DEF BeginManual, TypeOK, Goto, Labels
<1>3. ASSUME NEW c \in Clients, NEW mode \in {"hard", "fork"},
             NEW n \in 1..(meta.current + 1), BeginRestore(c, mode, n)
      PROVE  TypeOK'
  <2>1. n \in Nat
    BY DEF TypeOK, Meta
  <2>2. [entry[c] EXCEPT !.num = n] \in Version
    BY <2>1 DEF TypeOK, Version
  <2>3. entry' \in [Clients -> Version]
    BY <1>3, <2>2 DEF BeginRestore, TypeOK
  <2> QED BY <1>3, <2>3 DEF BeginRestore, TypeOK, Goto, Labels
<1>4. ASSUME NEW c \in Clients, SaveNarrative(c)
      PROVE  TypeOK'
  BY <1>4 DEF SaveNarrative, TypeOK, Goto, Labels
<1>5. ASSUME NEW c \in Clients, NEW acts \in BOOLEAN, NEW stores \in BOOLEAN,
             CommitTurn(c, acts, stores)
      PROVE  TypeOK'
  <2>1. row' \in Nat /\ world' \in Nat
    BY <1>5 DEF CommitTurn, TypeOK
  <2>2. CASE pc[c] = "saved"
    BY <1>5, <2>1, <2>2 DEF CommitTurn, TypeOK, Goto, Labels
  <2>3. CASE pc[c] # "saved"
    BY <1>5, <2>1, <2>3, LeaveType DEF CommitTurn, TypeOK
  <2> QED BY <2>2, <2>3
<1>6. ASSUME NEW c \in Clients, CommitFails(c) \/ NotDue(c)
      PROVE  TypeOK'
  BY <1>6, LeaveType DEF CommitFails, NotDue, TypeOK
<1>7. ASSUME NEW c \in Clients, ArchiveDue(c)
      PROVE  TypeOK'
  BY <1>7 DEF ArchiveDue, TypeOK, Goto, Labels
<1>8. ASSUME NEW c \in Clients, ReadMeta(c)
      PROVE  TypeOK'
  BY <1>8 DEF ReadMeta, TypeOK, Goto, Labels
<1>9. ASSUME NEW c \in Clients, Collect(c)
      PROVE  TypeOK'
  <2>1. [num |-> read[c].current + 1, state |-> [turns |-> orm[c], world |-> world]]
            \in Version
    BY DEF TypeOK, Version, State, Meta
  <2> QED BY <1>9, <2>1 DEF Collect, TypeOK, Goto, Labels
<1>10. ASSUME NEW c \in Clients, AddVersion(c) \/ AddVersionManually(c)
       PROVE  TypeOK'
  <2>1. Append(list[c], entry[c]) \in Seq(Version)
    BY DEF TypeOK
  <2>2. versions' \in Seq(Version) /\ Len(versions') <= MaxVersions
    BY <1>10, <2>1, TrimmedType DEF AddVersion, AddVersionManually
  <2>3. CASE AddVersion(c)
    BY <2>2, <2>3 DEF AddVersion, TypeOK, Goto, Labels
  <2>4. CASE AddVersionManually(c)
    BY <2>2, <2>4, LeaveType DEF AddVersionManually, TypeOK
  <2> QED BY <1>10, <2>3, <2>4
<1>11. ASSUME NEW c \in Clients, PointToVersion(c)
       PROVE  TypeOK'
  <2>1. meta' \in Meta
    BY <1>11 DEF PointToVersion, TypeOK, Meta, Version
  <2> QED BY <1>11, <2>1, LeaveType DEF PointToVersion, TypeOK
<1>12. ASSUME NEW c \in Clients, Find(c)
       PROVE  TypeOK'
  <2>1. PICK version \in FindVersion(entry[c].num) :
            entry' = [entry EXCEPT ![c] = version]
    BY <1>12 DEF Find
  <2>2. version \in Version
    BY FoundType DEF TypeOK
  <2> QED BY <1>12, <2>1, <2>2 DEF Find, TypeOK, Goto, Labels
<1>13. ASSUME NEW c \in Clients, FindFails(c)
       PROVE  TypeOK'
  BY <1>13, LeaveType DEF FindFails, TypeOK
<1>14. ASSUME NEW c \in Clients, ApplySnapshot(c)
       PROVE  TypeOK'
  BY <1>14 DEF ApplySnapshot, TypeOK, Goto, Labels, Version, State
<1>15. ASSUME NEW c \in Clients, Repoint(c)
       PROVE  TypeOK'
  <2>1. entry[c].num \in Nat /\ entry[c].state \in State /\ entry[c].state.turns \in Nat
    BY DEF TypeOK, Version, State
  <2>2. meta' \in Meta
    BY <1>15, <2>1 DEF Repoint, TypeOK, Meta
  <2> QED BY <1>15, <2>1, <2>2, LeaveType DEF Repoint, TypeOK
<1>16. ASSUME NEW c \in Clients, CreateFork(c)
       PROVE  TypeOK'
  <2>1. [state |-> Blank, applied |-> FALSE] \in Fork
    BY BlankType DEF Fork
  <2> QED BY <1>16, <2>1 DEF CreateFork, TypeOK, Goto, Labels
<1>17. ASSUME NEW c \in Clients, ApplyFork(c)
       PROVE  TypeOK'
  <2>1. [state |-> entry[c].state, applied |-> TRUE] \in Fork
    BY DEF TypeOK, Fork, Version
  <2>2. forks' \in Seq(Fork)
    <3>1. forks \in [1..Len(forks) -> Fork] /\ Len(forks) \in Nat
      BY DEF TypeOK
    <3>2. forks' \in [1..Len(forks) -> Fork]
      BY <1>17, <2>1, <3>1 DEF ApplyFork
    <3> QED BY <3>1, <3>2, SeqDef
  <2> QED BY <1>17, <2>2, LeaveType DEF ApplyFork, TypeOK
<1>18. ASSUME NEW c \in Clients, Crash(c) \/ SkipArchive(c)
       PROVE  TypeOK'
  <2>1. Leave(c) /\ UNCHANGED <<row, world, epoch, archive, turns, requests, expected>>
        /\ lapses' \in Nat /\ broken' \in Nat
    BY <1>18 DEF Crash, SkipArchive, TypeOK
  <2> QED BY <2>1, LeaveType DEF TypeOK
<1>19. CASE UNCHANGED vars
  BY <1>19 DEF vars, TypeOK
<1> QED
  BY <1>1, <1>2, <1>3, <1>4, <1>5, <1>6, <1>7, <1>8, <1>9, <1>10, <1>11, <1>12, <1>13,
     <1>14, <1>15, <1>16, <1>17, <1>18, <1>19 DEF Next, Step

\* The archive never leaves its state space; in particular its list never
\* holds more than max_versions entries, however requests overlap.
THEOREM ArchiveTypeCorrect == Spec => []TypeOK
BY InitTypeOK, NextTypeOK, PTL DEF Spec

-----------------------------------------------------------------------------
(* No counter counts turns that were never started                         *)

\* Every copy a client works on is of a counter that was once in the row, and
\* a turn that has not yet stored its narrative has one to spare.
CountInv ==
    /\ CountersBounded
    /\ \A c \in Clients :
          /\ orm[c] <= turns
          /\ pc[c] = "loaded" => orm[c] < turns
          /\ read[c].last <= turns
          /\ entry[c].state.turns <= turns
          /\ \A i \in DOMAIN list[c] : list[c][i].state.turns <= turns

\* What a client leaves behind counts nothing.
LEMMA LeaveCounts ==
    ASSUME TypeOK, CountInv, NEW c \in Clients, Leave(c), turns' = turns
    PROVE  \A d \in Clients :
              /\ orm'[d] <= turns
              /\ pc'[d] = "loaded" => orm'[d] < turns
              /\ read'[d].last <= turns
              /\ entry'[d].state.turns <= turns
              /\ \A i \in DOMAIN list'[d] : list'[d][i].state.turns <= turns
BY DEF TypeOK, CountInv, Leave, Goto, NewMeta, NoVersion, Blank

\* Trimming a list and adding to it a version that is bounded keeps it so.
LEMMA TrimmedCounts ==
    ASSUME TypeOK, CountInv, NEW c \in Clients
    PROVE  LET added == Trimmed(Append(list[c], entry[c]))
           IN  \A i \in DOMAIN added : added[i].state.turns <= turns
<1> DEFINE longer == Append(list[c], entry[c])
<1>1. longer \in Seq(Version) /\ list[c] \in Seq(Version)
  BY DEF TypeOK
<1>2. \A j \in DOMAIN longer : longer[j].state.turns <= turns
  BY <1>1 DEF CountInv
<1>3. \A i \in DOMAIN Trimmed(longer) :
          \E j \in DOMAIN longer : Trimmed(longer)[i] = longer[j]
  BY <1>1, TrimmedType
<1> QED BY <1>2, <1>3

LEMMA InitCountInv == Init => CountInv
BY DEF Init, CountInv, CountersBounded, NewMeta, NoVersion, Blank

LEMMA NextCountInv == TypeOK /\ TypeOK' /\ CountInv /\ [Next]_vars => CountInv'
<1> SUFFICES ASSUME TypeOK, TypeOK', CountInv, [Next]_vars PROVE CountInv'
  OBVIOUS
<1> USE DEF session, archive, local, bounds, history
<1>1. ASSUME NEW c \in Clients, NEW counted \in BOOLEAN, BeginTurn(c, counted)
      PROVE  CountInv'
  <2>1. turns' = turns + 1 /\ turns \in Nat
    BY <1>1 DEF BeginTurn, TypeOK
  <2>2. \A d \in Clients :
            /\ orm'[d] <= turns
            /\ read'[d].last <= turns
            /\ entry'[d].state.turns <= turns
            /\ \A i \in DOMAIN list'[d] : list'[d][i].state.turns <= turns
    BY <1>1 DEF BeginTurn, CountInv, CountersBounded, TypeOK
  <2>3. \A n \in Nat : n <= turns => n <= turns' /\ n < turns'
    BY <2>1
  <2>4. ASSUME NEW d \in Clients
        PROVE  /\ orm'[d] \in Nat
               /\ read'[d].last \in Nat
               /\ entry'[d].state.turns \in Nat
    BY DEF TypeOK, Meta, Version, State
  <2>5. ASSUME NEW s \in Seq(Version), NEW i \in DOMAIN s
        PROVE  s[i].state.turns \in Nat
    <3>1. s[i] \in Version
      OBVIOUS
    <3> QED BY <3>1 DEF Version, State
  <2>6. ASSUME NEW d \in Clients, NEW i \in DOMAIN list'[d]
        PROVE  list'[d][i].state.turns <= turns'
    <3>1. list'[d] \in Seq(Version)
      BY DEF TypeOK
    <3> QED BY <3>1, <2>2, <2>3, <2>5
  <2>7. CountersBounded'
    <3>1. row' = row /\ meta' = meta /\ versions' = versions /\ forks' = forks
      BY <1>1 DEF BeginTurn
    <3>2. row \in Nat /\ meta.last \in Nat /\ versions \in Seq(Version)
      BY DEF TypeOK, Meta
    <3>3. ASSUME NEW i \in DOMAIN forks PROVE forks[i].state.turns \in Nat
      <4>1. forks[i] \in Fork
        BY DEF TypeOK
      <4> QED BY <4>1 DEF Fork, State
    <3> QED BY <2>3, <2>5, <3>1, <3>2, <3>3 DEF CountInv, CountersBounded
  <2> QED BY <2>2, <2>3, <2>4, <2>6, <2>7 DEF CountInv
<1>2. ASSUME NEW c \in Clients, BeginManual(c)
      PROVE  CountInv'
  BY <1>2 DEF BeginManual, CountInv, CountersBounded, TypeOK, Goto
<1>3. ASSUME NEW c \in Clients, NEW mode \in {"hard", "fork"},
             NEW n \in 1..(meta.current + 1), BeginRestore(c, mode, n)
      PROVE  CountInv'
  BY <1>3 DEF BeginRestore, CountInv, CountersBounded, TypeOK, Goto, Version
<1>4. ASSUME NEW c \in Clients, SaveNarrative(c)
      PROVE  CountInv'
  BY <1>4 DEF SaveNarrative, CountInv, CountersBounded, TypeOK, Goto
<1>5. ASSUME NEW c \in Clients, NEW acts \in BOOLEAN, NEW stores \in BOOLEAN,
             CommitTurn(c, acts, stores)
      PROVE  CountInv'
  <2>1. CountersBounded'
    BY <1>5 DEF CommitTurn, CountInv, CountersBounded, TypeOK
  <2>2. CASE pc[c] = "saved"
    BY <1>5, <2>1, <2>2 DEF CommitTurn, CountInv, TypeOK, Goto
  <2>3. CASE pc[c] # "saved"
    BY <1>5, <2>1, <2>3, LeaveCounts DEF CommitTurn, CountInv
  <2> QED BY <2>2, <2>3
<1>6. ASSUME NEW c \in Clients, CommitFails(c) \/ NotDue(c) \/ FindFails(c)
      PROVE  CountInv'
  BY <1>6, LeaveCounts DEF CommitFails, NotDue, FindFails, CountInv, CountersBounded
<1>7. ASSUME NEW c \in Clients, ArchiveDue(c)
      PROVE  CountInv'
  BY <1>7 DEF ArchiveDue, CountInv, CountersBounded, TypeOK, Goto
<1>8. ASSUME NEW c \in Clients, ReadMeta(c)
      PROVE  CountInv'
  BY <1>8 DEF ReadMeta, CountInv, CountersBounded, TypeOK, Goto
<1>9. ASSUME NEW c \in Clients, Collect(c)
      PROVE  CountInv'
  BY <1>9 DEF Collect, CountInv, CountersBounded, TypeOK, Goto
<1>10. ASSUME NEW c \in Clients, AddVersion(c) \/ AddVersionManually(c)
       PROVE  CountInv'
  <2>1. CountersBounded'
    BY <1>10, TrimmedCounts DEF AddVersion, AddVersionManually, CountInv, CountersBounded
  <2>2. CASE AddVersion(c)
    BY <2>1, <2>2 DEF AddVersion, CountInv, TypeOK, Goto
  <2>3. CASE AddVersionManually(c)
    BY <2>1, <2>3, LeaveCounts DEF AddVersionManually, CountInv
  <2> QED BY <1>10, <2>2, <2>3
<1>11. ASSUME NEW c \in Clients, PointToVersion(c)
       PROVE  CountInv'
  BY <1>11, LeaveCounts DEF PointToVersion, CountInv, CountersBounded
<1>12. ASSUME NEW c \in Clients, Find(c)
       PROVE  CountInv'
  <2>1. PICK version \in FindVersion(entry[c].num) :
            entry' = [entry EXCEPT ![c] = version]
    BY <1>12 DEF Find
  <2>2. version.state.turns <= turns
    BY FoundType DEF CountInv, CountersBounded
  <2> QED BY <1>12, <2>1, <2>2 DEF Find, CountInv, CountersBounded, TypeOK, Goto
<1>13. ASSUME NEW c \in Clients, ApplySnapshot(c)
       PROVE  CountInv'
  BY <1>13 DEF ApplySnapshot, CountInv, CountersBounded, TypeOK, Goto
<1>14. ASSUME NEW c \in Clients, Repoint(c)
       PROVE  CountInv'
  <2>1. meta'.last = entry[c].state.turns
    BY <1>14 DEF Repoint, TypeOK, Meta
  <2> QED BY <1>14, <2>1, LeaveCounts DEF Repoint, CountInv, CountersBounded
<1>15. ASSUME NEW c \in Clients, CreateFork(c)
       PROVE  CountInv'
  <2>1. \A i \in DOMAIN forks' : forks'[i].state.turns <= turns
    BY <1>15 DEF CreateFork, CountInv, CountersBounded, TypeOK, Blank
  <2> QED BY <1>15, <2>1 DEF CreateFork, CountInv, CountersBounded, TypeOK, Goto
<1>16. ASSUME NEW c \in Clients, ApplyFork(c)
       PROVE  CountInv'
  <2>1. \A i \in DOMAIN forks' : forks'[i].state.turns <= turns
    BY <1>16 DEF ApplyFork, CountInv, CountersBounded, TypeOK
  <2> QED BY <1>16, <2>1, LeaveCounts DEF ApplyFork, CountInv, CountersBounded
<1>17. ASSUME NEW c \in Clients, Crash(c) \/ SkipArchive(c)
       PROVE  CountInv'
  BY <1>17, LeaveCounts DEF Crash, SkipArchive, CountInv, CountersBounded
<1>18. CASE UNCHANGED vars
  BY <1>18 DEF vars, CountInv, CountersBounded
<1> QED
  BY <1>1, <1>2, <1>3, <1>4, <1>5, <1>6, <1>7, <1>8, <1>9, <1>10, <1>11, <1>12, <1>13,
     <1>14, <1>15, <1>16, <1>17, <1>18 DEF Next, Step

\* However turns, archives and restores overlap and wherever they are cut
\* off, no turn counter in the row, a version, a fork or the meta record
\* ever counts more turns than were started: a stale copy loses counts.
THEOREM CountersNeverAhead == Spec => []CountersBounded
<1>1. TypeOK /\ CountInv /\ [Next]_vars => (TypeOK /\ CountInv)'
  BY NextTypeOK, NextCountInv
<1>2. Spec => [](TypeOK /\ CountInv)
  BY InitTypeOK, InitCountInv, <1>1, PTL DEF Spec
<1>3. CountInv => CountersBounded
  BY DEF CountInv
<1> QED BY <1>2, <1>3, PTL

-----------------------------------------------------------------------------
(* Requests handled one at a time: a single client u                       *)

\* Between two steps of the only client, its copies are what is stored, and
\* the version it restores is one of those listed.
SerialInv(u) ==
    /\ pc[u] \in {"loaded", "saved", "quiet", "manual", "auto", "collect", "manual_collect",
                 "finalize", "add", "manual_add"} => orm[u] = row
    /\ pc[u] \in {"add", "manual_add"} => list[u] = versions /\ entry[u].state = Live
    /\ pc[u] = "hard_apply" => \E i \in DOMAIN versions : entry[u] = versions[i]

\* The states of a list to which a version is added are the slots after a save.
LEMMA AddingSaves ==
    ASSUME NEW s \in Seq(Version), NEW e \in Version, Len(s) <= MaxVersions
    PROVE  States(Trimmed(Append(s, e))) =
              LET added == Append(States(s), e.state)
              IN  IF Len(added) > MaxVersions THEN Tail(added) ELSE added
<1> DEFINE longer == Append(s, e)
           added == Append(States(s), e.state)
<1>1. States(s) \in Seq(State) /\ Len(States(s)) = Len(s)
  <2>1. \A i \in 1..Len(s) : s[i] \in Version
    OBVIOUS
  <2>2. \A i \in 1..Len(s) : s[i].state \in State
    BY <2>1 DEF Version
  <2>3. States(s) \in [1..Len(s) -> State]
    BY <2>2 DEF States
  <2> QED BY <2>3, SeqDef
<1>2. /\ added \in Seq(State) /\ Len(added) = Len(s) + 1
      /\ longer \in Seq(Version) /\ Len(longer) = Len(s) + 1
  BY <1>1 DEF Version
<1>3. \A i \in 1..(Len(s) + 1) : added[i] = longer[i].state
  BY <1>1 DEF States
<1>4. CASE Len(s) < MaxVersions
  <2>1. Trimmed(longer) = longer /\ ~(Len(added) > MaxVersions)
    BY <1>2, <1>4, ArchiveAssumption DEF Trimmed, ArchiveAssumption
  <2>2. States(longer) = added
    <3>1. DOMAIN added = 1..(Len(s) + 1) /\ DOMAIN longer = 1..(Len(s) + 1)
      BY <1>2
    <3>2. added = [i \in 1..(Len(s) + 1) |-> added[i]]
      BY <1>2, <3>1
    <3> QED BY <1>3, <3>1, <3>2 DEF States
  <2> QED BY <2>1, <2>2
<1>5. CASE Len(s) = MaxVersions
  <2>1. Len(added) > MaxVersions /\ Trimmed(longer) = SubSeq(longer, 2, Len(longer))
    BY <1>2, <1>5, ArchiveAssumption DEF Trimmed, ArchiveAssumption
  <2>2. Tail(added) = SubSeq(added, 2, Len(added))
    BY <1>2, TailIsSubSeq
  <2>3. SubSeq(longer, 2, Len(longer)) = [i \in 1..Len(s) |-> longer[i + 1]]
    BY <1>2
  <2>4. SubSeq(added, 2, Len(added)) = [i \in 1..Len(s) |-> added[i + 1]]
    BY <1>2
  <2>5. \A i \in 1..Len(s) : i + 1 \in 1..(Len(s) + 1)
    OBVIOUS
  <2>6. States([i \in 1..Len(s) |-> longer[i + 1]]) = [i \in 1..Len(s) |-> added[i + 1]]
    BY <1>3, <2>5 DEF States
  <2> QED BY <2>1, <2>2, <2>3, <2>4, <2>6
<1> QED BY <1>4, <1>5, ArchiveAssumption DEF ArchiveAssumption

LEMMA InitSerialInv ==
    ASSUME NEW u, Clients = {u}
    PROVE  Init => SerialInv(u) /\ Slots!Init
BY DEF Init, SerialInv, Slots!Init, Live, States

\* Every step of a single client is a step of the save slots or invisible.
LEMMA SerialStep ==
    ASSUME NEW u, Clients = {u}, TypeOK, TypeOK', SerialInv(u), [Next]_vars
    PROVE  SerialInv(u)' /\ [Slots!Next]_(Slots!slotVars)
<1> USE DEF session, archive, local, bounds, history
<1>0. u \in Clients
  OBVIOUS
<1> DEFINE Goal == SerialInv(u)' /\ [Slots!Next]_(Slots!slotVars)
           Working == {"loaded", "saved", "quiet", "manual", "auto", "collect",
                       "manual_collect", "finalize"}
\* Steps that change neither the session nor the list.
<1>1. ASSUME UNCHANGED <<row, world, versions>>,
             \/ pc'[u] \in {"idle", "hard", "fork", "fork_create", "fork_apply", "point"}
             \/ pc[u] \in Working /\ pc'[u] \in Working /\ orm'[u] = orm[u]
             \/ pc'[u] \in Working /\ orm'[u] = row
      PROVE  Goal
  BY <1>1 DEF SerialInv, Slots!slotVars, Live
<1>2. ASSUME NEW counted \in BOOLEAN, BeginTurn(u, counted)
      PROVE  Goal
  BY <1>0, <1>1, <1>2 DEF BeginTurn, Goto, TypeOK
<1>3. ASSUME BeginManual(u)
      PROVE  Goal
  BY <1>0, <1>1, <1>3 DEF BeginManual, Goto, TypeOK
<1>4. ASSUME NEW mode \in {"hard", "fork"}, NEW n \in 1..(meta.current + 1),
             BeginRestore(u, mode, n)
      PROVE  Goal
  BY <1>0, <1>1, <1>4 DEF BeginRestore, Goto, TypeOK
<1>5. ASSUME SaveNarrative(u)
      PROVE  Goal
  <2>1. /\ orm[u] = row /\ row' = row + 1 /\ orm'[u] = row' /\ pc'[u] = "saved"
        /\ UNCHANGED <<world, versions>>
    BY <1>0, <1>5 DEF SaveNarrative, SerialInv, Goto, TypeOK
  <2>2. Slots!Play
    BY <2>1 DEF Slots!Play, Live
  <2> QED BY <2>1, <2>2 DEF SerialInv, Slots!Next
<1>6. ASSUME NEW acts \in BOOLEAN, NEW stores \in BOOLEAN, CommitTurn(u, acts, stores)
      PROVE  Goal
  <2>1. row' = row /\ versions' = versions /\ orm[u] = row
    BY <1>6 DEF CommitTurn, SerialInv
  <2>2. \/ pc'[u] = "finalize" /\ orm'[u] = orm[u]
        \/ pc'[u] = "idle"
    BY <1>0, <1>6 DEF CommitTurn, Leave, Goto, TypeOK
  <2>3. Slots!Play
    BY <2>1 DEF Slots!Play, Live
  <2> QED BY <2>1, <2>2, <2>3 DEF SerialInv, Slots!Next
<1>7. ASSUME CommitFails(u) \/ NotDue(u) \/ FindFails(u) \/ PointToVersion(u) \/ Repoint(u)
             \/ ApplyFork(u) \/ SkipArchive(u) \/ Crash(u)
      PROVE  Goal
  BY <1>0, <1>1, <1>7 DEF CommitFails, NotDue, FindFails, PointToVersion, Repoint, ApplyFork,
                          SkipArchive, Crash, Leave, Goto, TypeOK
<1>8. ASSUME ArchiveDue(u) \/ ReadMeta(u)
      PROVE  Goal
  BY <1>0, <1>1, <1>8 DEF ArchiveDue, ReadMeta, Goto, TypeOK
<1>9. ASSUME Collect(u)
      PROVE  Goal
  <2>1. /\ UNCHANGED <<row, world, versions>> /\ orm'[u] = orm[u] /\ orm[u] = row
        /\ list'[u] = versions /\ entry'[u].state = [turns |-> orm[u], world |-> world]
        /\ pc'[u] \in {"add", "manual_add"}
    BY <1>0, <1>9 DEF Collect, SerialInv, Goto, TypeOK
  <2> QED BY <2>1 DEF SerialInv, Live, Slots!slotVars
<1>10. ASSUME AddVersion(u) \/ AddVersionManually(u)
       PROVE  Goal
  <2>1. /\ list[u] = versions /\ entry[u].state = Live
        /\ UNCHANGED <<row, world>> /\ pc'[u] \in {"point", "idle"}
        /\ versions' = Trimmed(Append(list[u], entry[u]))
    BY <1>0, <1>10 DEF AddVersion, AddVersionManually, SerialInv, Leave, Goto, TypeOK
  <2>2. entry[u] \in Version /\ versions \in Seq(Version) /\ Len(versions) <= MaxVersions
    BY <1>0 DEF TypeOK
  <2>3. Slots!Save
    BY <2>1, <2>2, AddingSaves DEF Slots!Save, Live
  <2> QED BY <2>1, <2>3 DEF SerialInv, Slots!Next
<1>11. ASSUME Find(u)
       PROVE  Goal
  <2>1. PICK version \in FindVersion(entry[u].num) :
            entry' = [entry EXCEPT ![u] = version]
    BY <1>11 DEF Find
  <2>2. \E i \in DOMAIN versions : entry'[u] = versions[i]
    BY <1>0, <2>1, FoundType DEF TypeOK
  <2>3. UNCHANGED <<row, world, versions>> /\ pc'[u] \in {"hard_apply", "fork_create"}
    BY <1>0, <1>11 DEF Find, Goto, TypeOK
  <2> QED BY <2>2, <2>3 DEF SerialInv, Slots!slotVars, Live
<1>12. ASSUME ApplySnapshot(u)
       PROVE  Goal
  <2>1. PICK i \in DOMAIN versions : entry[u] = versions[i]
    BY <1>12 DEF ApplySnapshot, SerialInv
  <2>2. entry[u].state \in State
    BY <1>0 DEF TypeOK, Version
  <2>3. Live' = entry[u].state /\ versions' = versions /\ pc'[u] = "repoint"
    BY <1>0, <1>12, <2>2 DEF ApplySnapshot, Live, State, Goto, TypeOK
  <2>4. Slots!Load
    BY <2>1, <2>3 DEF Slots!Load, States
  <2> QED BY <2>3, <2>4 DEF SerialInv, Slots!Next
<1>13. ASSUME CreateFork(u)
       PROVE  Goal
  BY <1>0, <1>1, <1>13 DEF CreateFork, Goto, TypeOK
<1>14. ASSUME UNCHANGED vars
       PROVE  Goal
  BY <1>14 DEF vars, SerialInv, Live, Slots!slotVars
<1> HIDE DEF Goal
<1>15. Goal
  BY <1>2, <1>3, <1>4, <1>5, <1>6, <1>7, <1>8, <1>9, <1>10, <1>11, <1>12, <1>13, <1>14
     DEF Next, Step
<1> QED BY <1>15 DEF Goal

\* A single client's archive implements the save slots: a version is the game
\* exactly as it was, a hard restore gives back exactly one of the versions,
\* and the list changes only by a save.
THEOREM SerialKeepsSlots ==
    ASSUME NEW u, Clients = {u}
    PROVE  Spec => SlotsKept
<1>1. TypeOK /\ SerialInv(u) /\ [Next]_vars =>
          (TypeOK /\ SerialInv(u))' /\ [Slots!Next]_(Slots!slotVars)
  BY NextTypeOK, SerialStep
<1>2. Init => TypeOK /\ SerialInv(u) /\ Slots!Init
  BY InitTypeOK, InitSerialInv
<1> QED BY <1>1, <1>2, PTL DEF Spec, SlotsKept, Slots!Spec

-----------------------------------------------------------------------------
(* The numbers of the versions and the pointers to them                    *)

\* The only client's copy of the meta record is the stored one, the number it
\* gives is the next one, and the version it adds, points to or restores is
\* listed.
PointersOwn(u) ==
    /\ pc[u] \in {"collect", "manual_collect", "hard", "fork", "hard_apply", "repoint"}
           => read[u] = meta
    /\ pc[u] \in {"add", "manual_add", "point"} => entry[u].num = meta.current + 1
    /\ pc[u] \in {"point", "hard_apply", "repoint"} => entry[u].num \in Numbers

Rising(s) == \A i, j \in DOMAIN s : i < j => s[i].num <= s[j].num

Repeats == Len(versions) - Cardinality(Numbers)

\* An archive that was interrupted pays for a number given twice, the one to
\* be given again included.
RepeatsPaid(u) ==
    /\ Rising(versions)
    /\ \A n \in Numbers : n <= meta.current + 1
    /\ Repeats <= broken
    /\ meta.current + 1 \in Numbers /\ pc[u] # "point" => Repeats < broken

ActiveKept(u) ==
    broken = 0 /\ pc[u] # "point" => meta.active \in Numbers \cup {0}

NumbersInv(u) == PointersOwn(u) /\ RepeatsPaid(u) /\ ActiveKept(u)

\* How many counted turns are unsaved, at each step of the only client.
UnsavedInv(u) ==
    /\ pc[u] \in {"saved", "quiet"} => born[u] = epoch
    /\ pc[u] = "point" => orm[u] = row
    /\ pc[u] = "repoint" => row = entry[u].state.turns
    /\ lapses = 0 =>
          CASE pc[u] \in {"saved", "finalize"} ->
                   meta.last < row /\ row <= meta.last + Interval
            [] pc[u] \in {"auto", "collect", "add", "point", "repoint"} -> TRUE
            [] OTHER -> meta.last <= row /\ row < meta.last + Interval

NumbersOf(s) == {s[i].num : i \in DOMAIN s}

\* What a list of versions is after one has been added and it was trimmed: the
\* list with the new version, without its first entry if it was full.
LEMMA AddedList ==
    ASSUME NEW s \in Seq(Version), NEW e \in Version, Len(s) <= MaxVersions
    PROVE  LET t == Trimmed(Append(s, e))
           IN  /\ t \in Seq(Version)
               /\ \/ /\ Len(t) = Len(s) + 1 /\ t[Len(s) + 1] = e
                     /\ \A i \in 1..Len(s) : t[i] = s[i]
                  \/ /\ Len(s) > 0 /\ Len(t) = Len(s) /\ t[Len(s)] = e
                     /\ \A i \in 1..(Len(s) - 1) : t[i] = s[i + 1]
<1> DEFINE longer == Append(s, e)
           t == Trimmed(longer)
<1>1. longer \in Seq(Version) /\ Len(longer) = Len(s) + 1 /\ longer[Len(s) + 1] = e
      /\ \A i \in 1..Len(s) : longer[i] = s[i]
  OBVIOUS
<1>2. t \in Seq(Version) /\ Len(s) \in Nat /\ MaxVersions \in Nat \ {0}
  <2>1. t \in Seq(Version)
    BY <1>1, TrimmedType
  <2> QED BY <2>1, ArchiveAssumption DEF ArchiveAssumption
<1>3. CASE Len(s) < MaxVersions
  <2>1. t = longer
    BY <1>1, <1>2, <1>3 DEF Trimmed
  <2> QED BY <1>1, <1>2, <2>1
<1>4. CASE Len(s) = MaxVersions
  <2>1. t = SubSeq(longer, 2, Len(longer))
    BY <1>1, <1>2, <1>4 DEF Trimmed
  <2>2. Len(t) = Len(s) /\ \A i \in 1..Len(s) : t[i] = longer[i + 1]
    BY <1>1, <1>2, <2>1
  <2>3. t[Len(s)] = e /\ \A i \in 1..(Len(s) - 1) : t[i] = s[i + 1]
    BY <1>1, <1>2, <1>4, <2>2
  <2> QED BY <1>2, <1>4, <2>2, <2>3
<1> QED BY <1>2, <1>3, <1>4

LEMMA OneMore ==
    ASSUME NEW S, NEW x, IsFiniteSet(S)
    PROVE  /\ IsFiniteSet(S \cup {x})
           /\ Cardinality(S) \in Nat /\ Cardinality(S \cup {x}) \in Nat
           /\ Cardinality(S \cup {x}) = Cardinality(S) + IF x \in S THEN 0 ELSE 1
<1>1. IsFiniteSet(S \cup {x})
  BY FS_AddElement
<1>2. Cardinality(S) \in Nat /\ Cardinality(S \cup {x}) \in Nat
  BY <1>1, FS_CardinalityType
<1>3. CASE x \in S
  BY <1>1, <1>2, <1>3, FS_AddElement
<1>4. CASE x \notin S
  BY <1>1, <1>2, <1>4, FS_AddElement
<1> QED BY <1>3, <1>4

\* Adding a version repeats a number only where the list has it already, and
\* trimming takes away no more numbers than entries.
LEMMA AddingNumbers ==
    ASSUME NEW s \in Seq(Version), NEW e \in Version, Len(s) <= MaxVersions,
           Rising(s), \A n \in NumbersOf(s) : n <= e.num
    PROVE  LET t == Trimmed(Append(s, e))
           IN  /\ Rising(t)
               /\ e.num \in NumbersOf(t) /\ NumbersOf(t) \subseteq NumbersOf(s) \cup {e.num}
               /\ Len(t) - Cardinality(NumbersOf(t)) <=
                     Len(s) - Cardinality(NumbersOf(s))
                     + IF e.num \in NumbersOf(s) THEN 1 ELSE 0
<1> DEFINE t == Trimmed(Append(s, e))
           all == NumbersOf(s) \cup {e.num}
<1>1. t \in Seq(Version) /\ Len(s) \in Nat /\ Len(t) \in Nat
  BY AddedList
<1>2. \/ /\ Len(t) = Len(s) + 1 /\ t[Len(s) + 1] = e
         /\ \A i \in 1..Len(s) : t[i] = s[i]
      \/ /\ Len(s) > 0 /\ Len(t) = Len(s) /\ t[Len(s)] = e
         /\ \A i \in 1..(Len(s) - 1) : t[i] = s[i + 1]
  BY AddedList
<1> HIDE DEF t
<1>3. \A n \in 1..Len(s) : s[n].num <= e.num /\ s[n].num \in NumbersOf(s)
  BY DEF NumbersOf
<1>4. \A i \in 1..Len(t) : \/ t[i] = e
                           \/ \E j \in 1..Len(s) : t[i] = s[j]
  BY <1>1, <1>2
<1>5. Rising(t)
  <2> SUFFICES ASSUME NEW i \in 1..Len(t), NEW j \in 1..Len(t), i < j
               PROVE  t[i].num <= t[j].num
    BY <1>1 DEF Rising
  <2>1. e.num \in Nat
    BY DEF Version
  <2>2. \A k \in 1..Len(s), l \in 1..Len(s) : k < l => s[k].num <= s[l].num
    BY DEF Rising
  <2>3. CASE t[j] = e
    BY <1>3, <1>4, <2>1, <2>3
  <2>4. CASE t[j] # e
    BY <1>1, <1>2, <2>2, <2>4
  <2> QED BY <2>3, <2>4
<1>6. e.num \in NumbersOf(t)
  BY <1>1, <1>2 DEF NumbersOf
<1>7. NumbersOf(t) \subseteq all
  BY <1>1, <1>3, <1>4 DEF NumbersOf
<1>8. /\ IsFiniteSet(NumbersOf(s)) /\ Cardinality(NumbersOf(s)) \in Nat
      /\ IsFiniteSet(NumbersOf(t)) /\ Cardinality(NumbersOf(t)) \in Nat
  <2>1. e.num \in Nat /\ NumbersOf(s) \in SUBSET Nat
    <3>1. \A n \in 1..Len(s) : s[n] \in Version
      OBVIOUS
    <3> QED BY <3>1 DEF Version, NumbersOf
  <2>2. NumbersOf(t) \in SUBSET Nat /\ \A n \in NumbersOf(t) : n <= e.num
    BY <1>7, <2>1
  <2>3. IsFiniteSet(NumbersOf(s)) /\ IsFiniteSet(NumbersOf(t))
    BY <2>1, <2>2, FS_BoundedSetOfNaturals
  <2> QED BY <2>3, FS_CardinalityType
<1>9. /\ Cardinality(all) \in Nat
      /\ Cardinality(all) = Cardinality(NumbersOf(s))
                            + IF e.num \in NumbersOf(s) THEN 0 ELSE 1
  BY <1>8, OneMore
<1> DEFINE Bound == Len(t) - Cardinality(NumbersOf(t)) <=
                        Len(s) - Cardinality(NumbersOf(s))
                        + IF e.num \in NumbersOf(s) THEN 1 ELSE 0
<1>10. ASSUME Len(t) = Len(s) + 1, \A i \in 1..Len(s) : t[i] = s[i]
       PROVE  Bound
  <2>1. ASSUME NEW n \in NumbersOf(s) PROVE n \in NumbersOf(t)
    <3>1. PICK i \in 1..Len(s) : n = s[i].num
      BY DEF NumbersOf
    <3> QED BY <1>1, <1>10, <3>1 DEF NumbersOf
  <2>2. NumbersOf(t) = all
    BY <1>6, <1>7, <2>1
  <2> QED BY <1>1, <1>8, <1>9, <1>10, <2>2
<1>11. ASSUME Len(s) > 0, Len(t) = Len(s), \A i \in 1..(Len(s) - 1) : t[i] = s[i + 1]
       PROVE  Bound
  <2>1. ASSUME NEW n \in NumbersOf(s), n # s[1].num PROVE n \in NumbersOf(t)
    <3>1. PICK i \in 1..Len(s) : n = s[i].num
      BY DEF NumbersOf
    <3>2. i - 1 \in 1..(Len(s) - 1) /\ t[i - 1] = s[i]
      BY <1>1, <1>11, <2>1, <3>1
    <3> QED BY <1>1, <1>11, <3>1, <3>2 DEF NumbersOf
  <2>2. all \subseteq NumbersOf(t) \cup {s[1].num}
    BY <1>6, <2>1
  <2>3. Cardinality(NumbersOf(t) \cup {s[1].num}) <= Cardinality(NumbersOf(t)) + 1
        /\ IsFiniteSet(NumbersOf(t) \cup {s[1].num})
        /\ Cardinality(NumbersOf(t) \cup {s[1].num}) \in Nat
    <3> DEFINE numbers == NumbersOf(t)
               first == s[1].num
    <3>1. IsFiniteSet(numbers)
      BY <1>8
    <3> HIDE DEF numbers, first
    <3>2. /\ IsFiniteSet(numbers \cup {first})
          /\ Cardinality(numbers) \in Nat /\ Cardinality(numbers \cup {first}) \in Nat
          /\ Cardinality(numbers \cup {first}) =
                Cardinality(numbers) + IF first \in numbers THEN 0 ELSE 1
      BY <3>1, OneMore
    <3>3. Cardinality(numbers \cup {first}) <= Cardinality(numbers) + 1
      BY <3>2
    <3> QED BY <3>2, <3>3 DEF numbers, first
  <2>4. Cardinality(all) <= Cardinality(NumbersOf(t) \cup {s[1].num})
    BY <2>2, <2>3, FS_Subset
  <2> QED BY <1>1, <1>8, <1>9, <1>11, <2>3, <2>4
<1>12. Bound
  BY <1>2, <1>10, <1>11
<1> QED BY <1>5, <1>6, <1>7, <1>12 DEF t

-----------------------------------------------------------------------------
(* Steps of a single client that do not change the list                    *)

LEMMA NumbersOfList == Numbers = NumbersOf(versions) /\ Numbers' = NumbersOf(versions')
BY DEF Numbers, NumbersOf

LEMMA NumbersType ==
    ASSUME NEW u, TypeOK, RepeatsPaid(u)
    PROVE  /\ Numbers \in SUBSET Nat /\ meta.current \in Nat /\ broken \in Nat
           /\ Len(versions) \in Nat /\ Cardinality(Numbers) \in Nat /\ Repeats \in Int
<1>1. \A i \in DOMAIN versions : versions[i].num \in Nat
  <2>1. \A i \in DOMAIN versions : versions[i] \in Version
    BY DEF TypeOK
  <2> QED BY <2>1 DEF Version
<1>2. Len(versions) \in Nat /\ meta.current \in Nat /\ broken \in Nat
  BY DEF TypeOK, Meta
<1>3. Numbers \in SUBSET Nat
  BY <1>1 DEF Numbers
<1>4. IsFiniteSet(Numbers)
  <2>1. \A n \in Numbers : n <= meta.current + 1
    BY DEF RepeatsPaid
  <2>2. meta.current + 1 \in Nat
    BY <1>2
  <2> QED BY <1>3, <2>1, <2>2, FS_BoundedSetOfNaturals
<1>5. Cardinality(Numbers) \in Nat
  BY <1>4, FS_CardinalityType
<1> QED BY <1>2, <1>3, <1>5 DEF Repeats

\* Steps of the only client that change neither the list nor the pointers.
LEMMA PointersKept ==
    ASSUME NEW u, TypeOK, NumbersInv(u), UNCHANGED <<meta, versions>>,
           PointersOwn(u)', pc'[u] # "point",
           \/ pc[u] # "point" /\ broken' = broken
           \/ broken' = broken + 1
    PROVE  NumbersInv(u)'
<1>1. Numbers' = Numbers /\ Repeats' = Repeats
  BY DEF Numbers, Repeats
<1>2. broken \in Nat /\ Repeats \in Int
  BY NumbersType DEF NumbersInv
<1>3. RepeatsPaid(u)'
  BY <1>1, <1>2 DEF NumbersInv, RepeatsPaid, Rising
<1>4. ActiveKept(u)'
  BY <1>1, <1>2 DEF NumbersInv, ActiveKept
<1> QED BY <1>3, <1>4 DEF NumbersInv

LEMMA InitNumbersInv ==
    ASSUME NEW u, Clients = {u}
    PROVE  Init => NumbersInv(u)
<1> SUFFICES ASSUME Init PROVE NumbersInv(u)
  OBVIOUS
<1>1. versions = <<>> /\ Numbers = {} /\ Len(versions) = 0
  BY DEF Init, Numbers
<1>2. Cardinality(Numbers) = 0
  BY <1>1, FS_EmptySet
<1>3. pc[u] = "idle" /\ broken = 0 /\ meta = NewMeta
  BY DEF Init
<1> QED BY <1>1, <1>2, <1>3
    DEF NumbersInv, PointersOwn, RepeatsPaid, Rising, Repeats, ActiveKept, NewMeta

\* A version is added, with the next number.
LEMMA AddingKeepsNumbers ==
    ASSUME NEW u, Clients = {u}, TypeOK, SerialInv(u), NumbersInv(u),
           AddVersion(u) \/ AddVersionManually(u)
    PROVE  NumbersInv(u)'
<1> USE DEF session, archive, local, bounds, history
<1>0. u \in Clients
  OBVIOUS
<1>1. /\ list[u] = versions /\ entry[u].num = meta.current + 1
      /\ versions' = Trimmed(Append(list[u], entry[u])) /\ meta' = meta
  BY DEF AddVersion, AddVersionManually, SerialInv, NumbersInv, PointersOwn
<1>2. entry[u] \in Version /\ versions \in Seq(Version) /\ Len(versions) <= MaxVersions
  BY <1>0 DEF TypeOK
<1> DEFINE num == entry[u].num
<1>3. Rising(versions) /\ \A n \in NumbersOf(versions) : n <= num
  BY <1>1, NumbersOfList DEF NumbersInv, RepeatsPaid
<1>4. /\ Rising(versions') /\ num \in Numbers' /\ Numbers' \subseteq Numbers \cup {num}
      /\ Repeats' <= Repeats + IF num \in Numbers THEN 1 ELSE 0
  BY <1>1, <1>2, <1>3, AddingNumbers, NumbersOfList DEF Repeats
<1>5. pc[u] # "point"
  BY DEF AddVersion, AddVersionManually
<1>6. broken \in Nat /\ Repeats \in Int /\ meta.current \in Nat /\ Numbers \in SUBSET Nat
  BY NumbersType DEF NumbersInv
<1>7. Repeats' \in Int
  <2>1. Numbers' \in SUBSET Nat /\ \A n \in Numbers' : n <= num
    BY <1>1, <1>3, <1>4, <1>6, NumbersOfList
  <2>2. num \in Nat
    BY <1>1, <1>6
  <2>3. IsFiniteSet(Numbers')
    BY <2>1, <2>2, FS_BoundedSetOfNaturals
  <2>4. Cardinality(Numbers') \in Nat
    BY <2>3, FS_CardinalityType
  <2>5. Len(versions') \in Nat
    BY <1>1, <1>2, AddedList
  <2> QED BY <2>4, <2>5 DEF Repeats
<1>8. Repeats' <= broken
  <2>1. num \in Numbers => Repeats < broken
    BY <1>1, <1>5 DEF NumbersInv, RepeatsPaid
  <2>2. Repeats <= broken
    BY DEF NumbersInv, RepeatsPaid
  <2> QED BY <1>4, <1>6, <1>7, <2>1, <2>2
<1>9. \A n \in Numbers' : n <= meta'.current + 1
  BY <1>1, <1>3, <1>4, <1>6, NumbersOfList
<1>10. CASE AddVersion(u)
  <2>1. pc'[u] = "point" /\ broken' = broken /\ entry' = entry
    BY <1>0, <1>10 DEF AddVersion, Goto, TypeOK
  <2> QED BY <1>1, <1>4, <1>8, <1>9, <2>1
      DEF NumbersInv, PointersOwn, RepeatsPaid, ActiveKept
<1>11. CASE AddVersionManually(u)
  <2>1. pc'[u] = "idle" /\ broken' = broken + 1
    BY <1>0, <1>11 DEF AddVersionManually, Leave, Goto, TypeOK
  <2> QED BY <1>4, <1>6, <1>7, <1>8, <1>9, <2>1
      DEF NumbersInv, PointersOwn, RepeatsPaid, ActiveKept
<1> QED BY <1>10, <1>11

\* The pointers move, to the version that was added or to the one restored.
LEMMA PointingKeepsNumbers ==
    ASSUME NEW u, Clients = {u}, TypeOK, NumbersInv(u),
           PointToVersion(u) \/ Repoint(u)
    PROVE  NumbersInv(u)'
<1> USE DEF session, archive, local, bounds, history
<1>0. u \in Clients
  OBVIOUS
<1>1. /\ versions' = versions /\ broken' = broken /\ pc'[u] = "idle"
      /\ meta'.active = entry[u].num /\ entry[u].num \in Numbers
  <2>1. read[u] \in Meta
    BY <1>0 DEF TypeOK
  <2>2. pc'[u] = "idle"
    BY <1>0 DEF PointToVersion, Repoint, Leave, Goto, TypeOK
  <2>3. meta'.active = entry[u].num
    <3>1. CASE PointToVersion(u)
      BY <3>1 DEF PointToVersion
    <3>2. CASE Repoint(u)
      <4>1. meta' = [read[u] EXCEPT !.active = entry[u].num, !.last = entry[u].state.turns]
        BY <3>2 DEF Repoint
      <4> QED BY <2>1, <4>1 DEF Meta
    <3> QED BY <3>1, <3>2
  <2>4. entry[u].num \in Numbers
    BY DEF PointToVersion, Repoint, NumbersInv, PointersOwn
  <2> QED BY <2>2, <2>3, <2>4 DEF PointToVersion, Repoint
<1>2. Numbers' = Numbers /\ Repeats' = Repeats
  BY <1>1 DEF Numbers, Repeats
<1>3. /\ broken \in Nat /\ Repeats \in Int /\ meta.current \in Nat
      /\ Numbers \in SUBSET Nat
  BY NumbersType DEF NumbersInv
<1>4. RepeatsPaid(u)'
  <2>1. CASE PointToVersion(u)
    <3>1. meta'.current = meta.current + 1
      BY <2>1 DEF PointToVersion, NumbersInv, PointersOwn
    <3> QED BY <1>1, <1>2, <1>3, <3>1 DEF NumbersInv, RepeatsPaid
  <2>2. CASE Repoint(u)
    <3>1. meta'.current = meta.current /\ pc[u] = "repoint"
      BY <1>0, <2>2 DEF Repoint, NumbersInv, PointersOwn, TypeOK, Meta
    <3> QED BY <1>1, <1>2, <3>1 DEF NumbersInv, RepeatsPaid
  <2> QED BY <2>1, <2>2
<1>5. PointersOwn(u)' /\ ActiveKept(u)'
  BY <1>1, <1>2 DEF PointersOwn, ActiveKept
<1> QED BY <1>4, <1>5 DEF NumbersInv

LEMMA NextNumbersInv ==
    ASSUME NEW u, Clients = {u}, TypeOK, SerialInv(u), NumbersInv(u), [Next]_vars
    PROVE  NumbersInv(u)'
<1> USE DEF session, archive, local, bounds, history
<1>0. u \in Clients /\ PointersOwn(u)
  BY DEF NumbersInv
<1>1. ASSUME UNCHANGED <<meta, versions, broken>>, pc[u] # "point",
             pc'[u] \in {"idle", "loaded", "quiet", "saved", "finalize", "auto", "manual",
                         "fork_create", "fork_apply"}
      PROVE  NumbersInv(u)'
  BY <1>1, PointersKept DEF PointersOwn
<1>2. ASSUME \/ \E counted \in BOOLEAN : BeginTurn(u, counted)
             \/ BeginManual(u) \/ SaveNarrative(u) \/ ArchiveDue(u) \/ CreateFork(u)
      PROVE  NumbersInv(u)'
  BY <1>0, <1>1, <1>2
  DEF BeginTurn, BeginManual, SaveNarrative, ArchiveDue, CreateFork, Goto, TypeOK
<1>3. ASSUME NEW acts \in BOOLEAN, NEW stores \in BOOLEAN, CommitTurn(u, acts, stores)
      PROVE  NumbersInv(u)'
  <2>1. pc'[u] \in {"finalize", "idle"}
    BY <1>0, <1>3 DEF CommitTurn, Leave, Goto, TypeOK
  <2> QED BY <1>1, <1>3, <2>1 DEF CommitTurn
<1>4. ASSUME CommitFails(u) \/ NotDue(u) \/ FindFails(u) \/ ApplyFork(u) \/ SkipArchive(u)
      PROVE  NumbersInv(u)'
  BY <1>0, <1>1, <1>4
  DEF CommitFails, NotDue, FindFails, ApplyFork, SkipArchive, Leave, Goto, TypeOK
<1>5. ASSUME \/ ReadMeta(u)
             \/ \E mode \in {"hard", "fork"}, n \in 1..(meta.current + 1) :
                   BeginRestore(u, mode, n)
      PROVE  NumbersInv(u)'
  <2>1. /\ UNCHANGED <<meta, versions, broken>> /\ pc[u] # "point" /\ read'[u] = meta
        /\ pc'[u] \in {"collect", "manual_collect", "hard", "fork"}
    BY <1>0, <1>5 DEF ReadMeta, BeginRestore, Goto, TypeOK
  <2> QED BY <2>1, PointersKept DEF PointersOwn
<1>6. ASSUME Collect(u)
      PROVE  NumbersInv(u)'
  <2>1. /\ UNCHANGED <<meta, versions, broken>> /\ pc[u] # "point"
        /\ entry'[u].num = read[u].current + 1 /\ read[u] = meta
        /\ pc'[u] \in {"add", "manual_add"}
    BY <1>0, <1>6 DEF Collect, Goto, TypeOK, PointersOwn
  <2> QED BY <2>1, PointersKept DEF PointersOwn
<1>7. ASSUME Find(u)
      PROVE  NumbersInv(u)'
  <2>1. PICK version \in FindVersion(entry[u].num) :
            entry' = [entry EXCEPT ![u] = version]
    BY <1>7 DEF Find
  <2>2. entry'[u] = version
    BY <1>0, <2>1 DEF TypeOK
  <2>3. entry'[u].num \in Numbers
    BY <2>2, FoundType DEF Numbers
  <2>4. /\ UNCHANGED <<meta, versions, broken, read>> /\ pc[u] # "point" /\ read[u] = meta
        /\ pc'[u] \in {"hard_apply", "fork_create"}
    BY <1>0, <1>7 DEF Find, Goto, TypeOK, PointersOwn
  <2>5. Numbers' = Numbers
    BY <2>4 DEF Numbers
  <2> QED BY <2>3, <2>4, <2>5, PointersKept DEF PointersOwn
<1>8. ASSUME ApplySnapshot(u)
      PROVE  NumbersInv(u)'
  <2>1. /\ UNCHANGED <<meta, versions, broken, read, entry>> /\ pc[u] # "point"
        /\ read[u] = meta /\ entry[u].num \in Numbers /\ pc'[u] = "repoint"
    BY <1>0, <1>8 DEF ApplySnapshot, Goto, TypeOK, PointersOwn
  <2>2. Numbers' = Numbers
    BY <2>1 DEF Numbers
  <2> QED BY <2>1, <2>2, PointersKept DEF PointersOwn
<1>9. ASSUME Crash(u)
      PROVE  NumbersInv(u)'
  <2>1. UNCHANGED <<meta, versions>> /\ pc'[u] = "idle"
        /\ broken' = IF pc[u] = "point" THEN broken + 1 ELSE broken
    BY <1>0, <1>9 DEF Crash, Leave, Goto, TypeOK
  <2> QED BY <2>1, PointersKept DEF PointersOwn
<1>10. ASSUME UNCHANGED vars
       PROVE  NumbersInv(u)'
  <2>1. UNCHANGED <<meta, versions, broken, pc, read, entry>>
    BY <1>10 DEF vars
  <2>2. Numbers' = Numbers /\ Repeats' = Repeats
    BY <2>1 DEF Numbers, Repeats
  <2> QED BY <2>1, <2>2 DEF NumbersInv, PointersOwn, RepeatsPaid, ActiveKept
<1> QED
  BY <1>2, <1>3, <1>4, <1>5, <1>6, <1>7, <1>8, <1>9, <1>10, AddingKeepsNumbers,
     PointingKeepsNumbers DEF Next, Step

LEMMA SerialNumbers ==
    ASSUME NEW u, Clients = {u}
    PROVE  Spec => [](TypeOK /\ SerialInv(u) /\ NumbersInv(u))
<1>1. TypeOK /\ SerialInv(u) /\ NumbersInv(u) /\ [Next]_vars =>
          (TypeOK /\ SerialInv(u) /\ NumbersInv(u))'
  BY NextTypeOK, SerialStep, NextNumbersInv
<1>2. Init => TypeOK /\ SerialInv(u) /\ NumbersInv(u)
  BY InitTypeOK, InitSerialInv, InitNumbersInv
<1> QED BY <1>1, <1>2, PTL DEF Spec

\* Of a single client, version numbers only rise along the list, and two
\* entries share a number only where an archive was interrupted between list
\* and pointers.
THEOREM SerialNumbersRise ==
    ASSUME NEW u, Clients = {u}
    PROVE  Spec => []NumbersKept
<1>1. NumbersInv(u) => NumbersKept
  BY DEF NumbersInv, RepeatsPaid, Rising, Repeats, NumbersKept
<1> QED BY <1>1, SerialNumbers, PTL

\* Of a single client, the active version can be restored unless an
\* interrupted archive has pushed it out of the list.
THEOREM SerialActiveListed ==
    ASSUME NEW u, Clients = {u}
    PROVE  Spec => []ActiveListed
<1>1. NumbersInv(u) => ActiveListed
  BY DEF NumbersInv, ActiveKept, ActiveListed
<1> QED BY <1>1, SerialNumbers, PTL

-----------------------------------------------------------------------------
(* Auto archiving keeps up                                                 *)

LEMMA InitUnsavedInv ==
    ASSUME NEW u, Clients = {u}
    PROVE  Init => UnsavedInv(u)
BY ArchiveAssumption DEF ArchiveAssumption, Init, UnsavedInv, NewMeta

LEMMA NextUnsavedInv ==
    ASSUME NEW u, Clients = {u}, TypeOK, SerialInv(u), UnsavedInv(u), [Next]_vars
    PROVE  UnsavedInv(u)'
<1> USE DEF session, archive, local, bounds, history
<1>0. u \in Clients /\ Interval \in Nat \ {0}
  BY ArchiveAssumption DEF ArchiveAssumption
<1>1. row \in Nat /\ meta.last \in Nat /\ lapses \in Nat
  BY DEF TypeOK, Meta
<1> DEFINE Rest == {"idle", "loaded", "quiet", "manual", "manual_collect", "manual_add",
                    "hard", "fork", "hard_apply", "fork_create", "fork_apply"}
           Archiving == {"auto", "collect", "add", "point", "repoint"}
\* Steps before and after which as many turns are unsaved.
<1>2. ASSUME UNCHANGED <<row, meta, lapses>>, pc[u] \in Rest, pc'[u] \in Rest,
             pc'[u] = "quiet" => born'[u] = epoch'
      PROVE  UnsavedInv(u)'
  BY <1>2 DEF UnsavedInv
<1>3. ASSUME NEW counted \in BOOLEAN, BeginTurn(u, counted)
      PROVE  UnsavedInv(u)'
  <2>1. pc[u] = "idle" /\ pc'[u] \in {"loaded", "quiet"} /\ born'[u] = epoch
    BY <1>0, <1>3 DEF BeginTurn, Goto, TypeOK
  <2> QED BY <1>2, <1>3, <2>1 DEF BeginTurn
<1>4. ASSUME SaveNarrative(u)
      PROVE  UnsavedInv(u)'
  <2>1. /\ pc[u] = "loaded" /\ pc'[u] = "saved" /\ born'[u] = epoch /\ epoch' = epoch
        /\ row' = row + 1 /\ meta' = meta /\ lapses' = lapses
    BY <1>0, <1>4 DEF SaveNarrative, Goto, TypeOK, SerialInv
  <2> QED BY <1>0, <1>1, <2>1 DEF UnsavedInv
<1>5. ASSUME NEW acts \in BOOLEAN, NEW stores \in BOOLEAN, CommitTurn(u, acts, stores)
      PROVE  UnsavedInv(u)'
  <2>1. row' = row /\ meta' = meta /\ lapses' = lapses /\ epoch' = epoch
    BY <1>5 DEF CommitTurn, SerialInv
  <2>2. \/ pc[u] = "saved" /\ pc'[u] = "finalize"
        \/ pc[u] = "quiet" /\ pc'[u] = "idle"
    BY <1>0, <1>5 DEF CommitTurn, Leave, Goto, TypeOK
  <2> QED BY <2>1, <2>2 DEF UnsavedInv
<1>6. ASSUME CommitFails(u)
      PROVE  UnsavedInv(u)'
  BY <1>6 DEF CommitFails, UnsavedInv
<1>7. ASSUME NotDue(u)
      PROVE  UnsavedInv(u)'
  <2>1. /\ pc[u] = "finalize" /\ pc'[u] = "idle" /\ orm[u] = row /\ ~Due(u)
        /\ row' = row /\ meta' = meta /\ lapses' = lapses
    BY <1>0, <1>7 DEF NotDue, Leave, Goto, TypeOK, SerialInv
  <2> QED BY <1>0, <1>1, <2>1 DEF UnsavedInv, Due
<1>8. ASSUME ArchiveDue(u) \/ ReadMeta(u) \/ Collect(u) \/ AddVersion(u)
      PROVE  UnsavedInv(u)'
  <2>1. UNCHANGED <<row, meta, lapses, orm>>
    BY <1>8 DEF ArchiveDue, ReadMeta, Collect, AddVersion
  <2>2. \/ pc[u] \in Rest /\ pc'[u] \in {"manual_collect", "manual_add"}
        \/ pc'[u] \in {"auto", "collect"}
        \/ pc[u] \in {"collect", "add"} /\ pc'[u] \in {"add", "point"} /\ orm[u] = row
    BY <1>0, <1>8 DEF ArchiveDue, ReadMeta, Collect, AddVersion, Goto, TypeOK, SerialInv
  <2> QED BY <1>2, <2>1, <2>2 DEF UnsavedInv
<1>9. ASSUME PointToVersion(u)
      PROVE  UnsavedInv(u)'
  <2>1. pc'[u] = "idle" /\ meta'.last = orm[u] /\ orm[u] = row /\ row' = row
    BY <1>0, <1>9 DEF PointToVersion, Leave, Goto, TypeOK, UnsavedInv
  <2> QED BY <1>0, <1>1, <2>1 DEF UnsavedInv
<1>10. ASSUME \/ BeginManual(u) \/ AddVersionManually(u) \/ FindFails(u) \/ Find(u)
              \/ CreateFork(u) \/ ApplyFork(u)
              \/ \E mode \in {"hard", "fork"}, n \in 1..(meta.current + 1) :
                    BeginRestore(u, mode, n)
       PROVE  UnsavedInv(u)'
  <2>1. UNCHANGED <<row, meta, lapses>>
    BY <1>10 DEF BeginManual, AddVersionManually, FindFails, Find, CreateFork, ApplyFork,
                 BeginRestore
  <2>2. pc[u] \in Rest /\ pc'[u] \in Rest \ {"quiet"}
    BY <1>0, <1>10 DEF BeginManual, AddVersionManually, FindFails, Find, CreateFork, ApplyFork,
                       BeginRestore, Leave, Goto, TypeOK
  <2> QED BY <1>2, <2>1, <2>2
<1>11. ASSUME ApplySnapshot(u)
       PROVE  UnsavedInv(u)'
  <2>1. pc'[u] = "repoint" /\ row' = entry'[u].state.turns
    BY <1>0, <1>11 DEF ApplySnapshot, Goto, TypeOK
  <2> QED BY <2>1 DEF UnsavedInv
<1>12. ASSUME Repoint(u)
       PROVE  UnsavedInv(u)'
  <2>1. read[u] \in Meta
    BY <1>0 DEF TypeOK
  <2>2. meta'.last = entry[u].state.turns
    BY <1>12, <2>1 DEF Repoint, Meta
  <2>3. pc'[u] = "idle" /\ row' = row /\ row = entry[u].state.turns
    BY <1>0, <1>12 DEF Repoint, Leave, Goto, TypeOK, UnsavedInv
  <2> QED BY <1>0, <1>1, <2>2, <2>3 DEF UnsavedInv
<1>13. ASSUME SkipArchive(u) \/ Crash(u)
       PROVE  UnsavedInv(u)'
  <2>1. lapses' = lapses + 1 /\ pc'[u] = "idle"
    BY <1>0, <1>13 DEF SkipArchive, Crash, Leave, Goto, TypeOK
  <2> QED BY <1>1, <2>1 DEF UnsavedInv
<1>14. ASSUME UNCHANGED vars
       PROVE  UnsavedInv(u)'
  BY <1>14 DEF vars, UnsavedInv
<1> QED
  BY <1>3, <1>4, <1>5, <1>6, <1>7, <1>8, <1>9, <1>10, <1>11, <1>12, <1>13, <1>14
     DEF Next, Step

\* Of a single client that is never cut off and always has the memory plugin,
\* fewer than Interval counted turns are unsaved whenever the session is at
\* rest, also after restores.
THEOREM SerialArchiveKeepsUp ==
    ASSUME NEW u, Clients = {u}
    PROVE  Spec => []UnsavedBounded
<1>1. TypeOK /\ SerialInv(u) /\ UnsavedInv(u) /\ [Next]_vars =>
          (TypeOK /\ SerialInv(u) /\ UnsavedInv(u))'
  BY NextTypeOK, SerialStep, NextUnsavedInv
<1>2. Init => TypeOK /\ SerialInv(u) /\ UnsavedInv(u)
  BY InitTypeOK, InitSerialInv, InitUnsavedInv
<1>3. UnsavedInv(u) => UnsavedBounded
  BY DEF UnsavedInv, UnsavedBounded
<1> QED BY <1>1, <1>2, <1>3, PTL DEF Spec
=============================================================================
