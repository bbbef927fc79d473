# AI GameStudio: a verification project

AI GameStudio is a text role-playing game: a FastAPI backend asks a language
model for the narrative of each turn, lets plugins post-process it, and keeps
the game in a SQL database; a React client plays it over a WebSocket or HTTP.
This directory holds TLA+ models of the parts whose correctness is a matter of
order, interruption and stale copies, the TLC runs that check them on small
instances, and TLAPS proofs for every size of instance.

Paths below are relative to `src/`.

## Inventory

| component | state | operations | what is hard |
| --- | --- | --- | --- |
| turn pipeline (`backend/app/services/chat_service.py`, `session_state.py`, `turn_context.py`) | `game_state_json` of the session row (turn count, plugin and block counters), messages with block metadata | `process_message`, `retrigger_plugins` | several commits per turn, one copy of the row for the whole turn, no lock between connections, cut off anywhere |
| block dispatch (`core/block_handlers.py`, `block_validation.py`, `block_parser.py`) | characters, scenes, events, plugin data | one handler per block type | a handler that fails half way; blocks that may appear once per session |
| plugin agent (`services/plugin_agent*.py`, `core/plugin_trigger.py`) | execution counters, plugin storage | select by hook, interval, `max_triggers`; tool rounds; flush | plugins of a turn share one database session; execution and counting are apart |
| archive (`services/archive_service.py`, `api/archive.py`) | version list, meta record with pointers, forks | automatic and manual archive, hard and fork restore | two records committed one after the other; restores under a running turn |
| chat endpoints (`api/chat.py`) and command handlers (`services/command_handlers.py`) | phase of the session, scenes, forms | WebSocket loop, HTTP command, init, forms, guides, forced triggers, images | one loop per socket, several sockets per session |
| plugin service and engine (`services/plugin_service.py`, `core/plugin_engine.py`) | enabled flags | resolve, toggle | dependency closure, supersedes |
| game state manager (`core/game_state.py`, `game_db.py`) | characters, scenes, events | upserts | one current scene, event transitions |
| event bus, debug log | bounded queues | emit, drain, append | what happens at the limit |
| image service, runtime settings, LLM configuration | stored images, overrides | generate, resolve | late answers, precedence |
| scripts, capabilities, secrets, audit | files, subprocesses | run, read, write | outside a model's reach for the most part |
| client: connection and messages (`frontend/src/services/websocket.ts`, `hooks/useWsCallbacks.ts`, `useGameWebSocket.ts`, `useGameActions.ts`, `stores/sessionStore.ts`) | socket, attempts, timer, messages, pending blocks, streaming and plugin locks | seven kinds of command, one callback per event, delete, edit, retry | dropped sends, events cut off by a reconnect, blocks that come again or late |
| client: archive and hydration (`hooks/useArchive.ts`, `useSessionHydration.ts`, `stores/*`) | current session, session list, eight stores that show it | switch, create, delete, archive, restore, fork | no request is cancelled, no answer checked against the session shown |
| client: storage (`services/localDb.ts`, `gameStorage.ts`, `settingsStorage.ts`, `idbSync.ts`) | IndexedDB tables, two remembered answers to "does the backend keep its data?" | detect, write through, read back | the two answers can differ; writes nobody waits for |
| client: block renderers (`components/game/*Renderer.tsx`, `stores/blockInteractionStore.ts`) | draft, saved draft, answered, locked | edit, answer, remount, refresh | a block is mounted twice, perhaps by two renderers |
| client: project page (`components/editor/*`, `stores/projectStore.ts`, `utils/browserLlmConfig.ts`) | document, prompt, models, novel; timers and requests of each | edit, save, generate, revise, test, reset | unmounts, late answers, a page that changes its project |
| client: list and wizard (`pages/ProjectListPage.tsx`, `CreateProjectWizard.tsx`) | form of the wizard, requests that outlive it | choose, generate, create, delete | answers of an earlier choice or opening |
| client: side panels (`components/status/*`, `components/plugins/PluginPanel.tsx`) | overrides, plugin switches, codex | change, switch, fetch, look at | a request per keystroke, live announcements under a fetch |

What makes each component correct:

- turn pipeline: counters never claim more than happened, whatever overlaps;
  with one connection they are exact; what the player sees is what a reload
  shows; every command ends.
- block dispatch: a once-per-session block is dispatched once; a failed block
  leaves nothing behind (it does leave something, see the findings).
- plugin agent: `max_triggers` is a limit on executions.
- archive: a version is the game as it was, a restore gives back a version,
  pointers point into the list, play does not go unarchived for long.
- command handlers: the phase moves forward only, a turn is played only in the
  phase that allows it.
- plugin service: the enabled set is closed under dependencies.
- client, connection and messages: every block is shown once, in the reply of
  its turn; the input is enabled again after every turn; the player is never
  without a connection, an attempt or the word that there is none.
- client, archive and hydration: what is shown belongs to the current session.
- client, storage: what was written can be read from where reads go.
- client, renderers, pages and panels: what was typed survives the screen being
  rebuilt, is sent once and stored where it belongs; what is shown as stored,
  chosen, complete or new is.

`PROJECT.json` lists every component with its status and every hazard at its
line, with the properties that guard it or the reason there is none.

## Plan

1. `TurnPipeline` with its abstract specification `TurnLedger`, runs and
   proofs. Done.
2. `Archive` with `SaveSlots`, runs and proofs. Done.
3. `ChatView` and `ChatClient`: the client in one session, with the backend's
   answers to every kind of command. Done.
4. `SessionView`: which session the client's stores show. Done.
5. `LocalStore`, `BlockForms`, `ProjectDocs`, `Wizard`, `ModelForm`,
   `RuntimeForm`, `PluginToggles`, `Codex`, `Novel`: one module per panel or
   service beside the chat, run together by `MCClientPanels`. Done; `RuntimeForm`,
   `PluginToggles` and `Novel` take in the backend's half.

Every safety invariant and safety action property that a passing run checks is
a theorem (see Proofs). What is left to prove is beyond the runs: the ledger and
the slots hold for one worker and one client only, and weaker abstract
specifications that overlapping ones implement could be stated and proved too.

## Modules

**`TurnLedger`** is what the pipeline promises: `Narrate` stores one narrative
and counts one turn, `Publish` adds the blocks of one plugin phase, of which a
once-per-session type may appear once.

**`TurnPipeline`** is `process_message` and `retrigger_plugins`. A *worker* is
whatever executes commands one after the other: a WebSocket connection (its
receive loop finishes a command before it reads the next) or an HTTP client.
`row` is the committed `game_state_json`, `orm` a worker's copy of it
(`expire_on_commit=False`: it is never read again), `todo` the blocks still to
dispatch, `counts` the `block_trigger_counts` dict, `wrote` what handlers have
flushed and not committed. The steps between two commits or two `await`s that
can fail are actions:

| action | code in `chat_service.py` |
| --- | --- |
| `Begin` | `build_turn_context` loads the row; forced triggers and retriggers skip the user message |
| `SaveUserMessage` | 488-491, first commit |
| `NarrativeFails`, `NarrativeArrives` | the LLM call, 493-560 |
| `SaveNarrative` | 554-584: message and turn count in one commit |
| `RunAgent` | 608-664: the plugins below `max_triggers`, then `_filter_plugin_blocks` |
| `SkipBlock`, `DispatchFails`, `DispatchSucceeds` | one turn of the loop of `_dispatch_blocks_stage`, 97-188 |
| `SendBlocks` | the events go out, 189-234, before the commit |
| `CommitTurn` | metadata, counters and handler writes, 284-353 and the commit |
| `EndTurn` | finalize hooks and `turn_end` |
| `Abort` | disconnect, failed commit or stop between any two steps; plugins that were running may still complete |

Counters are whole-column copies: `CommitTurn` writes `orm` with this turn's
counters, not the row with them.

**`SaveSlots`** is what the archive promises: `Play`, `Save`, `Load` over a
bounded row of slots that are never rewritten.

**`Archive`** is one session's archive: the turn as far as the archive sees it
(`BeginTurn` to `ArchiveDue`/`NotDue`/`SkipArchive`), `create_archive_summary`
(`ReadMeta`, `Collect`, `AddVersion`, `PointToVersion`, and
`AddVersionManually` for a request), `restore_archive_version` (`BeginRestore`,
`Find`, `FindFails`, `ApplySnapshot`, `Repoint`, `CreateFork`, `ApplyFork`) and
`Crash`. A state is the turn counter and the write the world stems from; what
the snapshot contains besides is abstracted. `orm` is the session object's
counter, `read` and `list` the copies of the two stored records. Automatic
archives run on the turn's database session, requests on the one of
`db/engine.py:get_session`, whose objects expire at each commit: a manual
archive therefore ends after its first write and a fork after its snapshot.
`broken` counts the versions added without pointer and `expected` remembers
what a hard restore left; both are history variables no guard reads.

**`ChatView`** is what the player of one session sees: a record of the message
list, the pending blocks, the phase, the locks and banners, with one operator
per store action (`AddMessage`, `AttachPendingBlocksForTurn`,
`RemoveLastAssistantMessage`, ...) and one per callback of `useWsCallbacks.ts`
(`OnDone`, `OnPhaseChange`, `OnBlock`, `OnTurnEnd`, `OnError`, ...). A block is
the pair of its turn and its id, a message has text or none.

**`ChatClient`** puts `ChatView` on a connection. `socket`, `attempts`, `timer`
and `banner` are the `GameWebSocket` object (`Connect`, `Opens`, `Breaks`,
`Reconnect`, `Leave`); `queue` and `serving` are the backend's end of it: `Ways`
says how a kind of command may be handled (a sheet may be the one that ends the
creation of the character and begins the game, the session a guide is asked for
may be gone), `Planned` which event may come after which, read off
`process_message`, `retrigger_plugins` and the command handlers, `MayRaise`
where a handler may raise instead, which `_dispatch_incoming_message` turns into
an error; `Follow` is both, and one action per event applies the callback.
`Send`, `StartGame`, `Answer`, `ForceTrigger`, `Retry`, `RetriggerPlugins`,
`Delete` and `EditAndResend` are the player. When the connection breaks, `queue`
and `serving` are gone. Narration and its counters are left to `TurnPipeline`:
the two models meet in the order of events.

**`SessionView`** reduces each store to the set of sessions its content is from.
Requests are members of `asked` and are answered in any order; `RunEffects` is
the React effects that run after the current session has changed (which loads
depends on the page's own copy of the session, and that may be older than its
first turn), `Restore` to `RestoredData`/`RestoreFails` is
`handleRestoreVersion`, one action per `await`. `strayed` remembers that the
player did something ahead of an answer: from then on late answers of the
session before are stored under the new one, which is what the code does and no
property excludes.

**`LocalStore`** is where a session's records are kept: `reads` and `writes`
are the two remembered answers, `probes` the detections under way for reads,
`asking` the writes that wait for one of their own, `stored` the browser's
tables, `writing` the writes under way. No detection waits for another, and each
leaves its answer in `reads` when it ends; `overruled` notes that one has said
"local" after another had found that the backend keeps its data.

**`BlockForms`** is one block on the screen: which renderer is found for it,
its draft, what the interaction store has of the draft, remounts, locks that
come and go, new data and answers. `new` is the sheet of a character to be made,
which sends all of its fields.

**`ProjectDocs`** is the project page with the world document and the init
prompt: editors mounted and unmounted, their timers, saves in two steps (the
base is read from the store, the row is written later), loads in two (the row is
read, and arrives), generations and revisions. Buttons take the focus and so
save what waits (`Blurred`); a change of tab or page takes the editor away
without that, and what waits is lost (`WorldLeft`). **`ModelForm`** is the
models form, the browser's record of it and the project's row; **`Novel`** the
novel tab and the stream it reads.

**`Wizard`** is the project list and the wizard of a new project; `shown` is
what the page showed when a project was made of it, `Spinner` while a world is
being written.

**`RuntimeForm`** is the panel of runtime settings with the rows of overrides of
a project and its sessions and the backend's read and write of one; a request
names the session its callback was made in, which may have given way to another.
**`PluginToggles`** is the plugin panel, its three-request fetch and the backend's
flags. Both have `newest`, the request the backend answered last, and `shown`, the
one whose answer is on display. **`Codex`** is the codex, its fetch and the live
announcements, which are sent before the turn that found the entries commits
(`Discover`, `TurnCommits`).

These nine have one variable, a record `panel`, because they share no state
with each other: **`MCClientPanels`** runs any one of them per behaviour
(`which`) and gathers their properties.

**`MCTurnPipeline`**, **`MCArchive`**, **`MCChatClient`**, **`MCSessionView`**
name the model values and definitions of the instances.
The proofs are in modules of their own: **`TurnPipelineProofs`**,
**`ArchiveProofs`**, **`ChatViewProofs`** (lemmas about the operators of
`ChatView`), **`ChatClientProofs`**, **`SessionViewProofs`**, **`PanelProofs`**
(eight of the panels), **`DocsProofs`** (the project page, and the panels
together) and **`Induction`** (three lemmas about natural numbers).

## Runs

| run | shows |
| --- | --- |
| `turns_serial` | one worker: `TypeOK`; `ShownBlocksStored` (what was sent, infrastructure blocks aside, is the stored metadata); `TriggerLimit` (`max_triggers` is overrun at most once per turn cut off); `LedgerKept` (implements `TurnLedger`); `CommandsEnd` |
| `turns_overlap` | two workers with stale copies: `TurnCountBounded`, `BlockCountsBounded`, `ExecutionCountsBounded` |
| `turns_rollback` | violation, see the findings |
| `archive_serial` | one client: `TypeOK` with the bound of the list; `NumbersKept`; `ActiveListed`; `UnsavedBounded`; `SlotsKept` (implements `SaveSlots`); `RequestsEnd` |
| `archive_overlap` | two clients: `CountersBounded`, restores and interruptions included |
| `archive_manual`, `archive_inflight` | violations, see the findings |
| `client_chat` | `TypeOK`; `BlocksOfTheirTurn`, `BlockShownOnce`, `EndedTurnsFlushed` (blocks, whatever is deleted, retried or sent again); `ConnectionWatched`, `DisconnectedIsFinal`, `LeftForGood`, `ReconnectSettles` (the connection); `StreamingEnds`, `PluginStageEnds` (the locks) |
| `client_retrigger` | violation, see the findings |
| `client_sessions` | `TypeOK`; `ShownBelongsToCurrent`, `NotificationsBelongToCurrent`, `OfferedVersionsAreOwn`, for a player who waits for answers; `BusyEnds`, for any player |
| `client_storage` | violation, see the findings |
| `client_panels` | `PanelsTypeOK`; `DraftSurvivesMounting`, `AnsweredOnce` (`BlockForms`); `ReadsFindWrites` (`LocalStore`); `DocStaysHome`, `NewestDocKept`, `NewestDocStored` (`ProjectDocs`); `GeneratedAsShown` (`Wizard`, `Novel`); `SettingsReturn` (`ModelForm`, `RuntimeForm`, `PluginToggles`); `NewUntilSeen` (`Codex`) |

Bounds. `turns_serial`: two commands, two blocks per turn out of three types
(a once-per-session character sheet, a guide that it suppresses, an
infrastructure block whose handler writes more than once), one plugin with
`max_triggers` 1 and one without, one turn cut off. Two commands suffice for
the once-only rules (the second must see the first's counters) and for a limit
of one; two blocks for the order and conflict rules. `turns_overlap`: two
workers and three commands, so that a third turn can start from what two
overlapping ones left; one block and one plugin, since the counters of
different types do not interact; the two workers are symmetric, and no
property of this run is temporal. `archive_serial`: an archive every second
turn, two versions kept, five turns, two requests and one lapse, so that the
list is trimmed, a number is reused and a restore names a version that is gone.
`archive_overlap`: two symmetric clients, three turns, one request, one lapse.

`client_chat`: two commands of seven kinds, so that one follows, interrupts or
repeats the other; one block per turn, which may be sent twice and, as an
image, a third time; one reconnect attempt and one loss of an open connection
(attempts that fail are bounded by the attempts themselves), so that an attempt
succeeds, fails and is used up; one deletion or edit; the session is
new or holds one stored reply. `client_sessions`: two sessions and room for a
third, created or forked; three actions when everything is at rest and one
ahead of an answer; one failing request, which may be any. Commands go by
HTTP, the case in which an answer survives a switch. `client_panels`: two
projects, texts, visits, novels and fetches each, four actions in a settings
panel (open, change, change again, reopen) with two requests under way together,
enough for one to overtake or undo the other; two sessions besides none; one
wizard project and one generation, since a second would be the same as the first;
two detections for reads under way together besides those of the writes, enough
for one to overrule another. A detection's tries at a silent backend count as one,
since they change nothing before it ends.

Deadlock checking is off: with the bounds on commands and requests used up,
every system comes to rest, and a client need never act.

Fairness. `WF` of each worker's or client's own step and nothing else: the event
loop keeps resuming a coroutine that can go on, and an LLM call returns or
raises (litellm requests have a default timeout). No client has to send
anything, and no fault has to happen. In `ChatClient`: the timers that open a
connection fire, an attempt to connect that does not fail succeeds, and the
backend starts the next command and sends the next event of the one in hand; in
`SessionView`: effects run, requests are answered or fail, and a restore goes on
or fails; in `ProjectDocs`: timers fire and saves are stored, answered or fail.
All are things browsers and the event loop do by themselves. `StreamingEnds` and
`PluginStageEnds` except commands lost with a connection (`dropped`), and the
latter a plugin stage that fails (`failed`): there the code gives no release,
and the input stays locked until another turn or a reload.

## Findings

- `turns_rollback`. `core/block_handlers.py:196` re-raises in transaction mode
  "so caller can rollback stage writes"; `_dispatch_blocks_stage` catches the
  exception and goes on (`chat_service.py:144-146`), and the commit of the
  turn keeps what the failed handler had flushed.
- `archive_manual`. In a request the commit of the version list expires the
  session and project objects, and reading `project.id` for the meta record
  (`archive_service.py:298`) raises. The version is in the list and no pointer
  knows it; the next archive reuses its number. The test of the operation runs
  on a session with `expire_on_commit=False` and cannot see this. A fork
  restore stops for the same reason after its snapshot, with no versions.
- `archive_inflight`. A turn that had loaded the session row before a hard
  restore writes its old copy back when it commits, so the session does not
  stay as it was restored.
- `client_retrigger`. `docs/ARCHITECTURE.md:153` has `message_blocks_updated`
  update the blocks of the original message in place when plugins are run
  again. The client handles the event, no code of the backend sends it:
  `retrigger_plugins` stores the new blocks, suppresses their events
  (`emit_front_events=False`, `chat_service.py:860`) and ends the turn. The
  reply shows its old blocks until the session is loaded again.
- `client_storage`. `gameStorage.ts:5-6` calls IndexedDB "kept up-to-date by
  fire-and-forget writes in the store setters". Only additions are written:
  blocks attached at the end of a turn and deletions of messages change the
  screen alone, so a reload in the browser-only mode loses the blocks and
  brings the deleted messages back.

Also noticed while modelling, without a run: overlapping archives lose one
version; a retrigger overwrites the blocks stored in the message's metadata; the
blocks of a forced trigger are counted but stored in no message. In the client:
a text of the world document typed less than a second before the tab or the page
is changed with the focus in it is lost, and the prompt's, in the same place, is
not; a world that is still being written can be made into a project, which gets
the part that has come; runtime overrides of one session can stay on display
under another when its late answer comes last, and a change of the project's
scope hides those of the session; editing a message while a turn is streaming
deletes it and everything after it and sends nothing; an interactive block
answered at that moment is locked and its answer lost; Retry removes the reply
of an earlier turn when the failed one has none; the timer that sets the status
to idle three seconds after a turn does so in the middle of the next; the prompt
of one project can be saved to the next one opened; events kept in the browser
do not pass the check they are read with (it asks for a key `type`); a key for
the plugins' model is not sent without that model; the reset of a project's
models does not reach a backend that keeps its data; a codex tab that is open
stays empty when the session changes.

## Proofs

All theorems hold for every value of the constants that satisfies the named
assumption of the module, which TLC evaluates on every run:

- `ConfigAssumption` (`TurnPipeline`): the sets of block types are subsets of
  the declared ones, limits and bounds are naturals.
- `ArchiveAssumption`: interval and list length at least 1 (the code replaces 0
  by the default).
- `ChatClientAssumption`: bounds are naturals, and a history the client loads
  has each block once, in the message of its turn. The backend writes the
  blocks of a turn into the metadata of that turn's message and nowhere else;
  without the assumption a history could break `BlockShownOnce` by itself.
- `SessionViewAssumption`: bounds are naturals, the actions ahead of an answer
  are among the actions, and "no session" is not a session.
- `PanelsAssumption` (`MCClientPanels`): the bounds `TypeOK` speaks of are
  naturals, and a block can be answered at least once.

`TurnPipelineProofs`:

- `TypeCorrect`: `TypeOK`, with `CountsAhead` (a turn's block counters are at
  least those it loaded), without which the history of committed dispatches
  could not be typed.
- `TurnCountNeverAhead`, `BlockCountsNeverAhead`, `ExecutionCountsNeverAhead`:
  the three properties of `turns_overlap`, for any number of workers. None is
  inductive: a stale copy is written back later, so the invariants (`TurnInv`,
  `BlockInv`, `ExecInv`) say of every copy what the property says of the row,
  plus what the turn has to its credit and not yet committed.
- `SerialKeepsLedger`: with one worker the pipeline implements `TurnLedger`.
  `SerialInv`: until it commits, the worker's copy is the committed row, so
  what it adds to its copy is what the ledger gains.
- `SerialTriggerLimit`: with one worker an execution is in the row, in the
  running turn, or was lost with a turn cut off (`LimitInv`).
- `SerialShownStored`: with one worker what a turn has sent is what it stores.
  `ShownInv`: the turn collects exactly what it dispatches, and the message it
  writes to has no blocks before it commits.

`ArchiveProofs`:

- `ArchiveTypeCorrect`: `TypeOK`, the bound on the list included.
- `CountersNeverAhead`: `CountersBounded` for any number of clients. `CountInv`
  extends it to every local copy, and gives a turn that has not stored its
  narrative one count to spare.
- `SerialKeepsSlots`: with one client the archive implements `SaveSlots`.
  `SerialInv` says that a client's copies are what is stored and that the
  version to restore is in the list; `AddingSaves` relates trimming to the
  slots.
- `SerialNumbersRise`, `SerialActiveListed`: with one client version numbers
  rise along the list, and the active version is in it, but for archives that
  were interrupted between list and pointers. `NumbersInv`: the client's meta
  record is the stored one; no number is beyond the next one, and numbers given
  twice are no more than the interrupted archives, and fewer if the next number
  is listed already and will be given again.
- `SerialArchiveKeepsUp`: `UnsavedBounded`, from what the counter and the last
  archived turn have to do with each other at each step (`UnsavedInv`): a turn
  is counted before it is known whether it archives, so right after it the
  bound is one higher.

`Induction` states induction over the natural numbers about sets instead of
operators, which the provers can use. `ChatViewProofs` needs it to say what the
recursive function in `Among` yields for sequences of any length: the blocks of
a set, each as often as before and in their order, and the last reply of a turn.

`ChatClientProofs`:

- `TypeCorrect`: `TypeOK`, with the types of the view's records (`Types`).
- `BlocksStayWithTheirTurn`, `BlocksShownOnce`: `Placed` is the two properties
  together with what they need of the pending blocks, which are attached later:
  no block waits that is attached, none waits twice. It is preserved by each
  callback, whatever the order in which they come.
- `ConnectionIsWatched`, `GivingUpIsFinal`: `ConnectionInv` adds that a timer
  runs only while there is no socket, and that a session that was left has
  none. `LeavingIsFinal`: a session that was left is not connected again.
- `EndedTurnsAreFlushed`: `Flushed`, with `ServingInv`: a turn that has ended is
  only followed by the end of its command or by a sheet of a character in play,
  which is no turn and ends, done or failed, without blocks; images still on
  their way are of turns noted in `late`.

`SessionViewProofs`:

- `TypeCorrect`; `StoresFollowTheSession`, `NotificationsFollowTheSession`,
  `VersionsFollowTheSession`: `ViewInv` says, for a player who waits (`Waited`),
  that every load, command and archive under way is of the current session, that
  a creation or deletion is under way alone, and that during a restore nothing
  else is until the fork is on display. The properties speak of the stores only
  and are not inductive: an answer under way would break them.

`PanelProofs`, `DocsProofs`: one invariant per panel, each with the shape of
the record `panel`, the types and what the property rests on.

- `BlockInv` (`BlocksAnsweredOnce`, `DraftsSurvive`): a block's renderer is the
  one found for its type and schema or the fallback drawn before the schemas
  came, an open block is unanswered, the interaction store has what the
  renderer shows, and whatever differs from the data of a sheet was edited.
  The sheet of a new character is left out, since it sends everything.
- `StoreInv` (`WritesAreRead`): as long as no detection has overruled a later one,
  writes skip the browser only while reads do too, because a backend found to keep
  its data is not asked again; a key shown, unless its write is waiting for a
  detection or under way, is stored in the browser whenever reads go there.
- `CodexInv` (`NewEntriesStayNew`): whatever was announced live and not seen since
  is in every answer under way that has read the backend, or counts as raced;
  nothing is said of when the turn commits.
- `WizardInv`, `NovelInv` (`GeneratedIsShown`): the raw text is that of the
  preview as long as there is one, and while a generation runs the document is
  what it has written; the stream goes through the chapters in
  order, and without an error those it has passed are whole.
- `ModelInv` (`SettingsAreStored`): the browser's record has what was saved; at
  most one update of a mounted form is under way; while one resets the plugin
  model the record has none.
- `RuntimeInv`, `SwitchInv` (`SettingsAreStored`): whatever has been read last
  still agrees with what is stored, unless a request is under way whose answer
  is to be put together after a change; so do an answer on its way and the one
  shown if they are the newest. A field being saved waits for a request. Unless
  the panel has strayed, requests are of the open session or project, and if the
  list shown is not, one that is to replace it is under way.
- `DocInv` (`DocsStayHome`, `NewestDocsAreKept`): a timer, a revision or a
  generation that is watched exists only under a mounted editor (`DocMounted`);
  wherever a document is, it was made in the project it is kept for (`DocHome`,
  `DocHere`); until a text is replaced or lost there is one save at a time, it
  merges into the stored row, the current row is the stored one or about to be,
  and an older text is being saved only while the newest waits (`DocNewest`).
- `PanelsTypeCorrect`: `PanelsTypeOK`, from all nine.

Before each proof of a panel TLC checked its invariant on the instance of the
run (`DocInv` with one more text). Where the prover was stricter than TLC, the model
was made plainer without changing its states: a `CASE` whose guards overlapped,
where TLC takes the first and TLA+ leaves the choice open, now has disjoint
guards or is an `IF` (`BlockForms`, `ProjectDocs`, `RuntimeForm`, `ModelForm`);
`PanelsTypeOK` says that at most one wizard is open by quantifiers instead of a
cardinality.

Only model-checked: liveness (`CommandsEnd`, `RequestsEnd`, `ReconnectSettles`,
`StreamingEnds`, `PluginStageEnds`, `BusyEnds`, `NewestDocStored`), which is out
of the prover's reach, and the counterexamples of the findings. The two
refinements, `NumbersKept`, `ActiveListed`, `UnsavedBounded`,
`ShownBlocksStored` and `TriggerLimit` are proved for a single worker or client
because that is what they hold for: with two, copies overlap.

## Not modelled

- `frontend/src/components/game/ModelConfigPanel.tsx`: imported nowhere.
- `DebugTablesPage.tsx`, `DebugLogPanel.tsx`, the quest, character, event and
  world panels and the renderers that only show: they have no state beyond
  what is on the screen. `services/api.ts` is one `fetch` per endpoint.
- Scene, event, character and quest rows of the backend
  (`core/block_handlers.py`, `core/game_state.py`): upserts in the commit of a
  turn, one effect per block in `TurnPipeline`.
- Phases and forms in `services/command_handlers.py` beyond the events the
  client gets; the rounds and tools of a plugin agent.
- Event bus and debug log (two bounded buffers), image service, scripts,
  capabilities and secrets (subprocesses, files and HTTP), single-row CRUD.
- `core/plugin_engine.py`: discovery and parsing of manifests. Dependency
  closure and `supersedes` have no effect with the plugins of the repository
  (all dependencies are on required plugins, all superseded names are of
  plugins that do not exist), so `PluginToggles` leaves them out.

## Limits of the models

- `TurnPipeline` knows no restores: messages are only added. A hard restore
  deletes messages and keeps the counter, so `TurnCountBounded` speaks of
  sessions between restores. `Archive` knows no messages, only whether a
  restore has deleted the one a turn would write to (`epoch`).
- Message text, prompts, summaries, token counts and costs are left out; an
  LLM call returns or raises, and a summary that fails is replaced by a
  fallback in the code, so it never stops an archive.
- `ran` counts plugins that ran to the end. One that fails in its final flush
  is not counted by the code either.
- The database is taken to be serialisable at commit granularity, which holds
  for the SQLite file the project ships with.
- A session is created with its archive (`api/sessions.py`), so the meta record
  exists before the first request.
- `ChatClient` has events arrive in the order they are sent, one at a time,
  and loses whatever is on its way when the connection breaks: an event that
  the backend sends after the break goes nowhere in the code as well. The
  phase starts as `init` for an empty session and `playing` for another.
- `SessionView` stops after the player has been ahead of an answer (`strayed`):
  from then on the stores may hold anything. A fork that could not be listed,
  and a failure reported under the session that was forked, count as such.
- `ChatView` knows a block by its turn and its id; `useWsCallbacks.ts:217-226`
  compares the id alone, over all messages. Ids are made of the turn unless the
  model supplies one of its own to the emit tool (`plugin_tools.py:52`); that two
  turns are given the same one is not modelled.
- In `ChatClient` a session that is gone meets the guide only; the other commands
  of such a session end with an error, like those whose handler raises. What a
  command lost with its connection leaves locked is excused by `dropped`.
- `ProjectDocs` lets the player only come and go after a text may have been
  lost (`excused`). The ways to lose one are: its editor is taken away while it
  waits, the project is replaced under a mounted editor, a row read before a save
  is shown after it, two saves overlap, a save fails, a generation ends without
  its editor. Nothing is claimed of a text after that.
- `LocalStore` claims nothing once a detection has overruled a later one
  (`overruled`): then reads go to the browser and writes that skipped it are not
  found.
- `RuntimeForm` and `PluginToggles` claim that what is shown is what is stored
  when the answer shown is the newest one; an older answer that arrives last
  stays until the panel asks again. If requests were under way when the session or
  project was opened (`strayed`), the overrides or the list on display may be
  those of the one before.
- `Codex`: an entry announced before its turn commits is taken away by a fetch
  that reads in between (`raced`), and stays away until the next fetch.
- `Wizard`: a project made while its world is being written is left out of
  "gets what was shown": it gets what nobody has seen.
