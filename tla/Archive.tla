------------------------------ MODULE Archive ------------------------------
(***************************************************************************)
(* The archive of one game session (backend/app/services/archive_service). *)
(*                                                                         *)
(* Two keys of the plugin storage hold it: the list of versions, each with *)
(* a snapshot of the session, and a meta record with the pointers into the *)
(* list.  They are read and written one after the other, each write with a *)
(* commit of its own.  Three things change it or are changed by it:        *)
(*   - a turn, which archives automatically when enough turns have passed; *)
(*   - POST .../archives/summarize, a manual archive;                      *)
(*   - POST .../archives/{version}/restore, in place or into a fork.       *)
(* The last two run on the request's database session (engine.get_session, *)
(* expire_on_commit left at its default): after a commit the attributes of *)
(* project and session objects are expired, and reading one from a         *)
(* coroutine raises.  A request may be cut off between any two steps.      *)
(***************************************************************************)
EXTENDS Integers, Sequences, FiniteSets

CONSTANTS Clients,      \* whoever runs turns and requests, one at a time each
          Interval,     \* summary_interval_turns
          MaxVersions,  \* max_versions
          MaxTurns,     \* bound: turns started
          MaxRequests,  \* bound: archive requests made
          MaxLapses     \* bound: turns and requests cut off, or run without memory

ASSUME ArchiveAssumption ==
    /\ Interval \in Nat \ {0}
    /\ MaxVersions \in Nat \ {0}
    /\ MaxTurns \in Nat
    /\ MaxRequests \in Nat
    /\ MaxLapses \in Nat

VARIABLES
    row,        \* turn_count in the session row
    world,      \* characters, scenes and events: which write they stem from
    epoch,      \* hard restores so far: each deletes the messages before it
    meta,       \* the meta record
    versions,   \* the version list
    forks,      \* sessions created by a fork
    pc,         \* where each client is
    orm,        \* its copy of turn_count (the GameSession object it loaded)
    born,       \* the epoch its turn's message was stored in
    read,       \* its copy of the meta record
    list,       \* its copy of the version list
    entry,      \* the version it is about to add, or to restore
    branch,     \* the fork it creates: its position in forks
    turns,      \* number of turns started
    requests,   \* number of archive requests made
    lapses,     \* number of turns and requests cut off, or run without memory
    broken,     \* history: archives that added a version and no pointer
    expected    \* history: the state after the last hard restore, until a
                \* turn starts; no state before the first

session == <<row, world, epoch>>
archive == <<meta, versions, forks>>
local   == <<orm, born, read, list, entry, branch>>
bounds  == <<turns, requests, lapses>>
history == <<broken, expected>>
vars    == <<session, archive, pc, local, bounds, history>>

State == [turns : Nat, world : Nat]

Version == [num : Nat, state : State]

Meta == [current : Nat, active : Nat, last : Nat]

\* A fork has the snapshot once it is applied.
Fork == [state : State, applied : BOOLEAN]

Blank == [turns |-> 0, world |-> 0]

NoVersion == [num |-> 0, state |-> Blank]

NewMeta == [current |-> 0, active |-> 0, last |-> 0]

Labels == {"idle", "loaded", "quiet", "saved", "finalize",      \* a turn
           "auto", "collect", "add", "point",                   \* an archive
           "manual", "manual_collect", "manual_add",
           "hard", "fork", "hard_apply", "repoint", "fork_create", "fork_apply"}

Live == [turns |-> row, world |-> world]

Init == /\ row = 0
        /\ world = 0
        /\ epoch = 0
        /\ meta = NewMeta
        /\ versions = <<>>
        /\ forks = <<>>
        /\ pc = [c \in Clients |-> "idle"]
        /\ orm = [c \in Clients |-> 0]
        /\ born = [c \in Clients |-> 0]
        /\ read = [c \in Clients |-> NewMeta]
        /\ list = [c \in Clients |-> <<>>]
        /\ entry = [c \in Clients |-> NoVersion]
        /\ branch = [c \in Clients |-> 0]
        /\ turns = 0
        /\ requests = 0
        /\ lapses = 0
        /\ broken = 0
        /\ expected = {}

Goto(c, label) == pc' = [pc EXCEPT ![c] = label]

\* The handler returns or raises; its local variables are gone.
Leave(c) == /\ Goto(c, "idle")
            /\ orm' = [orm EXCEPT ![c] = 0]
            /\ born' = [born EXCEPT ![c] = 0]
            /\ read' = [read EXCEPT ![c] = NewMeta]
            /\ list' = [list EXCEPT ![c] = <<>>]
            /\ entry' = [entry EXCEPT ![c] = NoVersion]
            /\ branch' = [branch EXCEPT ![c] = 0]

-----------------------------------------------------------------------------
(* A turn, as far as the archive sees it                                   *)

\* A counted turn stores a narrative; a forced trigger, a retrigger of a
\* stored message or a blank reply does not.
BeginTurn(c, counted) ==
    /\ pc[c] = "idle"
    /\ turns < MaxTurns
    /\ turns' = turns + 1
    /\ orm' = [orm EXCEPT ![c] = row]
    /\ born' = [born EXCEPT ![c] = epoch]
    /\ Goto(c, IF counted THEN "loaded" ELSE "quiet")
    /\ expected' = {}
    /\ UNCHANGED <<session, archive, read, list, entry, branch, requests, lapses, broken>>

SaveNarrative(c) ==
    /\ pc[c] = "loaded"
    /\ orm' = [orm EXCEPT ![c] = @ + 1]
    /\ row' = orm[c] + 1
    /\ born' = [born EXCEPT ![c] = epoch]
    /\ Goto(c, "saved")
    /\ UNCHANGED <<world, epoch, archive, read, list, entry, branch, bounds, history>>

\* Mutant: the row is counted up again with the changes of the plugins.
CommitTurn_Recounts(c, acts, stores) ==
    /\ pc[c] \in {"saved", "quiet"}
    /\ stores => acts /\ born[c] = epoch
    /\ row' = IF acts THEN orm[c] + 1 ELSE row
    /\ world' = IF acts THEN turns ELSE world
    /\ IF pc[c] = "saved" THEN Goto(c, "finalize") /\ UNCHANGED local ELSE Leave(c)
    /\ UNCHANGED <<epoch, archive, bounds, history>>

\* The end of the plugin phase.  If plugins changed anything, the turn's copy
\* of the row is written back with their changes to the world.  Blocks to
\* store in a message that a restore has deleted make the commit fail.
CommitTurn(c, acts, stores) ==
    /\ pc[c] \in {"saved", "quiet"}
    /\ stores => acts /\ born[c] = epoch
    /\ row' = IF acts THEN orm[c] ELSE row
    /\ world' = IF acts THEN turns ELSE world
    /\ IF pc[c] = "saved" THEN Goto(c, "finalize") /\ UNCHANGED local ELSE Leave(c)
    /\ UNCHANGED <<epoch, archive, bounds, history>>

CommitFails(c) ==
    /\ pc[c] \in {"saved", "quiet"}
    /\ born[c] # epoch
    /\ Leave(c)
    /\ UNCHANGED <<session, archive, bounds, history>>

\* maybe_auto_archive_summary, after a turn that was counted.  It is called
\* only if the memory plugin was enabled when the turn began.
Due(c) == orm[c] > 0 /\ orm[c] - meta.last >= Interval

NotDue(c) ==
    /\ pc[c] = "finalize"
    /\ ~Due(c)
    /\ Leave(c)
    /\ UNCHANGED <<session, archive, bounds, history>>

ArchiveDue(c) ==
    /\ pc[c] = "finalize"
    /\ Due(c)
    /\ Goto(c, "auto")
    /\ UNCHANGED <<session, archive, local, bounds, history>>

SkipArchive(c) ==
    /\ pc[c] = "finalize"
    /\ lapses < MaxLapses
    /\ lapses' = lapses + 1
    /\ Leave(c)
    /\ UNCHANGED <<session, archive, turns, requests, history>>

-----------------------------------------------------------------------------
(* create_archive_summary                                                  *)

BeginManual(c) ==
    /\ pc[c] = "idle"
    /\ requests < MaxRequests
    /\ requests' = requests + 1
    /\ orm' = [orm EXCEPT ![c] = row]
    /\ Goto(c, "manual")
    /\ UNCHANGED <<session, archive, born, read, list, entry, branch, turns, lapses, history>>

ReadMeta(c) ==
    /\ pc[c] \in {"auto", "manual"}
    /\ read' = [read EXCEPT ![c] = meta]
    /\ Goto(c, IF pc[c] = "auto" THEN "collect" ELSE "manual_collect")
    /\ UNCHANGED <<session, archive, orm, born, list, entry, branch, bounds, history>>

\* Mutant: versions are numbered by the length of the list.
Collect_ByLength(c) ==
    /\ pc[c] \in {"collect", "manual_collect"}
    /\ list' = [list EXCEPT ![c] = versions]
    /\ entry' = [entry EXCEPT ![c] =
                    [num |-> Len(versions) + 1,
                     state |-> [turns |-> orm[c], world |-> world]]]
    /\ Goto(c, IF pc[c] = "collect" THEN "add" ELSE "manual_add")
    /\ UNCHANGED <<session, archive, orm, born, read, branch, bounds, history>>

\* The version list, then the state: turn_count from the session object that
\* is already loaded, the rest from the database.  The language model is
\* asked for a summary next; when it fails, a fallback text is used.
Collect(c) ==
    /\ pc[c] \in {"collect", "manual_collect"}
    /\ list' = [list EXCEPT ![c] = versions]
    /\ entry' = [entry EXCEPT ![c] =
                    [num |-> read[c].current + 1,
                     state |-> [turns |-> orm[c], world |-> world]]]
    /\ Goto(c, IF pc[c] = "collect" THEN "add" ELSE "manual_add")
    /\ UNCHANGED <<session, archive, orm, born, read, branch, bounds, history>>

\* Mutant: the list is never trimmed.
Trimmed_Never(s) == s

\* Mutant: the newest versions are dropped instead of the oldest.
Trimmed_Front(s) == IF Len(s) > MaxVersions THEN SubSeq(s, 1, MaxVersions) ELSE s

\* The newest max_versions entries.
Trimmed(s) ==
    IF Len(s) > MaxVersions THEN SubSeq(s, Len(s) - MaxVersions + 1, Len(s)) ELSE s

\* The list is committed first.
AddVersion(c) ==
    /\ pc[c] = "add"
    /\ versions' = Trimmed(Append(list[c], entry[c]))
    /\ Goto(c, "point")
    /\ UNCHANGED <<session, meta, forks, local, bounds, history>>

\* The pointers and the turn of the last snapshot follow.
PointToVersion(c) ==
    /\ pc[c] = "point"
    /\ meta' = [current |-> entry[c].num, active |-> entry[c].num, last |-> orm[c]]
    /\ Leave(c)
    /\ UNCHANGED <<session, versions, forks, bounds, history>>

\* In a request, the commit of the list expires project and game_session, and
\* reading project.id for the second storage_set raises: no pointer is
\* written and the request fails.
AddVersionManually(c) ==
    /\ pc[c] = "manual_add"
    /\ versions' = Trimmed(Append(list[c], entry[c]))
    /\ broken' = broken + 1
    /\ Leave(c)
    /\ UNCHANGED <<session, meta, forks, bounds, expected>>

-----------------------------------------------------------------------------
(* restore_archive_version                                                 *)

BeginRestore(c, mode, n) ==
    /\ pc[c] = "idle"
    /\ requests < MaxRequests
    /\ requests' = requests + 1
    /\ read' = [read EXCEPT ![c] = meta]
    /\ entry' = [entry EXCEPT ![c].num = n]
    /\ Goto(c, mode)
    /\ UNCHANGED <<session, archive, orm, born, list, branch, turns, lapses, history>>

\* _find_version: the first entry with the number, if any.
FindVersion(n) ==
    LET found == {i \in DOMAIN versions : versions[i].num = n}
    IN  {versions[i] : i \in {j \in found : \A k \in found : j <= k}}

Find(c) ==
    /\ pc[c] \in {"hard", "fork"}
    /\ \E version \in FindVersion(entry[c].num) : entry' = [entry EXCEPT ![c] = version]
    /\ Goto(c, IF pc[c] = "hard" THEN "hard_apply" ELSE "fork_create")
    /\ UNCHANGED <<session, archive, orm, born, read, list, branch, bounds, history>>

\* Mutant: the list is searched again.
FindFails_Retries(c) == pc[c] \in {"hard", "fork"} /\ UNCHANGED vars

\* 404: the version is not, or no longer, in the list.
FindFails(c) ==
    /\ pc[c] \in {"hard", "fork"}
    /\ FindVersion(entry[c].num) = {}
    /\ Leave(c)
    /\ UNCHANGED <<session, archive, bounds, history>>

\* Mutant: the session row is restored, the world is not.
ApplySnapshot_RowOnly(c) ==
    /\ pc[c] = "hard_apply"
    /\ row' = entry[c].state.turns
    /\ world' = world
    /\ epoch' = epoch + 1
    /\ Goto(c, "repoint")
    /\ UNCHANGED <<archive, local, bounds, history>>

\* _apply_state_snapshot: everything the session had, messages included, is
\* replaced by the snapshot and one restore marker, in one commit.
ApplySnapshot(c) ==
    /\ pc[c] = "hard_apply"
    /\ row' = entry[c].state.turns
    /\ world' = entry[c].state.world
    /\ epoch' = epoch + 1
    /\ Goto(c, "repoint")
    /\ UNCHANGED <<archive, local, bounds, history>>

\* Mutant: the turn of the last snapshot is left as it was.
Repoint_KeepsTurn(c) ==
    /\ pc[c] = "repoint"
    /\ meta' = [read[c] EXCEPT !.active = entry[c].num]
    /\ expected' = {entry[c].state}
    /\ Leave(c)
    /\ UNCHANGED <<session, versions, forks, bounds, broken>>

\* Only then the active pointer moves, in the meta record read at the start.
Repoint(c) ==
    /\ pc[c] = "repoint"
    /\ meta' = [read[c] EXCEPT !.active = entry[c].num, !.last = entry[c].state.turns]
    /\ expected' = {entry[c].state}
    /\ Leave(c)
    /\ UNCHANGED <<session, versions, forks, bounds, broken>>

CreateFork(c) ==
    /\ pc[c] = "fork_create"
    /\ forks' = Append(forks, [state |-> Blank, applied |-> FALSE])
    /\ branch' = [branch EXCEPT ![c] = Len(forks) + 1]
    /\ Goto(c, "fork_apply")
    /\ UNCHANGED <<session, meta, versions, orm, born, read, list, entry, bounds, history>>

\* The commit in _apply_state_snapshot expires fork_session, and reading
\* fork_session.id for its archive keys raises: the fork has the snapshot,
\* but no versions, and the request fails.
ApplyFork(c) ==
    /\ pc[c] = "fork_apply"
    /\ forks' = [forks EXCEPT ![branch[c]] = [state |-> entry[c].state, applied |-> TRUE]]
    /\ Leave(c)
    /\ UNCHANGED <<session, meta, versions, bounds, history>>

\* A disconnect, a failed commit, a stop of the process.
Crash(c) ==
    /\ pc[c] # "idle"
    /\ lapses < MaxLapses
    /\ lapses' = lapses + 1
    /\ broken' = IF pc[c] = "point" THEN broken + 1 ELSE broken
    /\ Leave(c)
    /\ UNCHANGED <<session, archive, turns, requests, expected>>

Step(c) ==
    \/ SaveNarrative(c)
    \/ \E acts, stores \in BOOLEAN : CommitTurn(c, acts, stores)
    \/ CommitFails(c)
    \/ NotDue(c)
    \/ ArchiveDue(c)
    \/ ReadMeta(c)
    \/ Collect(c)
    \/ AddVersion(c)
    \/ PointToVersion(c)
    \/ AddVersionManually(c)
    \/ Find(c)
    \/ FindFails(c)
    \/ ApplySnapshot(c)
    \/ Repoint(c)
    \/ CreateFork(c)
    \/ ApplyFork(c)

Next == \E c \in Clients :
            \/ \E counted \in BOOLEAN : BeginTurn(c, counted)
            \/ BeginManual(c)
            \/ \E mode \in {"hard", "fork"}, n \in 1..(meta.current + 1) :
                  BeginRestore(c, mode, n)
            \/ Step(c)
            \/ SkipArchive(c)
            \/ Crash(c)

\* Handlers run on once they are started, and the language model answers or
\* fails; nothing obliges a client to act or a request to be cut off.
Fairness == \A c \in Clients : WF_vars(Step(c))

Spec == Init /\ [][Next]_vars

FairSpec == Spec /\ Fairness

-----------------------------------------------------------------------------
(* Properties                                                              *)

TypeOK ==
    /\ row \in Nat /\ world \in Nat /\ epoch \in Nat
    /\ meta \in Meta
    /\ versions \in Seq(Version) /\ Len(versions) <= MaxVersions
    /\ forks \in Seq(Fork)
    /\ pc \in [Clients -> Labels]
    /\ orm \in [Clients -> Nat]
    /\ born \in [Clients -> Nat]
    /\ read \in [Clients -> Meta]
    /\ list \in [Clients -> Seq(Version)]
    /\ entry \in [Clients -> Version]
    /\ branch \in [Clients -> Nat]
    /\ turns \in Nat /\ requests \in Nat /\ lapses \in Nat /\ broken \in Nat
    /\ expected \in SUBSET State

Numbers == {versions[i].num : i \in DOMAIN versions}

\* With requests handled one at a time, restores included, version numbers
\* only rise along the list, and two entries share a number only where an
\* archive was interrupted between list and pointers.
NumbersKept ==
    /\ \A i, j \in DOMAIN versions : i < j => versions[i].num <= versions[j].num
    /\ \A n \in Numbers : n <= meta.current + 1
    /\ Len(versions) - Cardinality(Numbers) <= broken

\* The version a prompt or the list shows as active can be restored: it is
\* in the list, unless an interrupted archive has pushed it out.
ActiveListed ==
    (broken = 0 /\ \A c \in Clients : pc[c] # "point") =>
        meta.active \in Numbers \cup {0}

\* With requests handled one at a time, none cut off and the memory plugin
\* enabled, auto archiving keeps up: fewer than Interval counted turns are
\* unsaved whenever the session is at rest, also after restores.
UnsavedBounded ==
    (lapses = 0 /\ \A c \in Clients : pc[c] = "idle") =>
        meta.last <= row /\ row < meta.last + Interval

\* However turns, archives and restores overlap and wherever they are cut
\* off, no counter they copy to and fro, in the row, in a version or in the
\* meta record, ever counts more turns than were started.
CountersBounded ==
    /\ row <= turns
    /\ meta.last <= turns
    /\ \A i \in DOMAIN versions : versions[i].state.turns <= turns
    /\ \A i \in DOMAIN forks : forks[i].state.turns <= turns

States(entries) == [i \in DOMAIN entries |-> entries[i].state]

\* With requests handled one at a time, the archive keeps the save slots: a
\* version is the game exactly as it was when it was added, a restore in
\* place gives back exactly one of them, and no version is ever rewritten.
Slots == INSTANCE SaveSlots WITH
             Capacity <- MaxVersions,
             live <- Live,
             slots <- States(versions)

SlotsKept == Slots!Spec

\* Every turn and every archive request comes to an end.
RequestsEnd == \A c \in Clients : pc[c] # "idle" ~> pc[c] = "idle"

\* "Create a new archive version" (archive_service.py), which the archive
\* test expects to be the active one: when nothing is going on, the newest
\* version in the list is the active one or a restore has moved the pointer.
NewestIsCurrent ==
    (\A c \in Clients : pc[c] = "idle") =>
        \A n \in Numbers : n <= meta.current

\* "hard: overwrite the current session in place" (archive_service.py): until
\* another turn starts, the session stays as the restore left it.
HardRestoreSticks == expected \subseteq {Live}
=============================================================================
