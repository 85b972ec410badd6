# Formal models of the NPC AI stack

TLA+ models of `npc-ai-stack`: a Hytale game-server plugin (Java) whose NPCs
talk, follow and guide by way of an orchestrator (Python, asyncio) that shares
one small inference server among all of them. The modules model what the parts
do to their state and to each other: who holds a slot of the GPU, who owns an
NPC, which reply reaches which callback. What an NPC says is left out.

## The system

```
 game server (JVM)                         orchestrator (one asyncio loop)
 +-----------------------------+           +-----------------------------------+
 | chat listener, TalkToAI     |  request  | plugin_connection / process       |
 |   -> NpcAiBridge  ==========|==========>|   -> handle_dialogue              |
 |      pendingReplies         |<==========|        _build_context (stores)    |
 |   callback: CompanionState, |   "say",  |        DISPATCHER | Pest's turns  |---> llama.cpp
 |   GuideState, PlayIntent    |  notices  |        try_tame, threads, outcome |     --parallel 7
 | sensors read the maps       |           | daemons: compression, self-study, |
 +-----------------------------+           |   wiki, notices                   |---> Postgres, Qdrant
                                           +-----------------------------------+
```

| Part | State | Operations | What is hard |
|---|---|---|---|
| Dispatcher (`priority_queue.py`) | free slots, waiters of a condition, count of ambient calls | request_dialogue (waits), request_ambient (never waits), release | a wakeup races a timer, a newcomer races the woken task; every path returns its slot |
| Pest's turns (`pest_brain/session.py`) | a semaphore of one, one OS thread per turn | run_pest_turn with a timeout | a timed-out thread runs on and cannot be stopped |
| Taming (`taming.py`, `main.py`) | table npc_taming: one owner per NPC, one NPC per owner | try_tame, in four queries; called while building a context and on accept_tame | two turns interleave at every query; a query fails |
| Companion state (`CompanionState.java`) | map NPC -> player in the game server's memory | marks by replies, by chat, by spawners | a second copy of the table, lost at restart, written by late replies |
| Bridge (`NpcAiBridge.java`, `plugin_connection`) | callbacks by request, buffer of parts, `_CURRENT_WS` | send, receive, reconnect, sweep, notices | connections break anywhere, the two ends learn of it apart; a callback is given up by the clock |
| Thinking mark (`AwaitingReplyState.java`) | NPC -> since when | start, clear, expire, purge | one per NPC, while requests are per player; set anew while the timer removes |
| Threads (`threads.py`) | open conversation topics with a count of mentions | open, resolve, get (reads then writes) | read-then-write over two queries |
| Personality (`personality.py`) | traits per NPC, trust per pair, log of outcomes | load with decay, record_outcome | lost updates; three writes without a transaction |
| Prompt (`llm_client.py`) | none: one call | cut the context to a slot, read the completion's tags | three lists share a budget; the model puts tags anywhere |
| Memory (`memory.py`, `last_reply.py`) | raw notes, facts, the last reply | remember, compress, forget | a note lands late; facts are stored one by one before notes are deleted |
| Skills (`skill_writer.py`, `pest_evolve.py`, `sandbox/`, `skill_runtime.py`) | candidates, approved and rejected files, a notices file, a table by NPC | draft, validate, promote, notify, run, roll back | processes share files, are killed and restarted |
| Self-study (`agent_brain/`) | one fact per run | a bounded loop of tool calls | its budget |
| Wiki (`wiki_ingest.py`, `wiki_knowledge.py`) | chunks of pages with a revision | ingest in cycles | pages change meanwhile; a page is replaced in three requests |
| Conversations (`NpcAiPlugin`, `PlayerChatToAIListener`) | conversation per player | start, refresh, leave, time out, sweep | read, then written back refreshed |
| Guiding (`GuideState`, `SeekLandmarkSensor`) | session per NPC with a map marker | start, tick, arrive, stop | sessions replaced while their marker exists |
| Manual moves (`ManualMoveState`) | movement due per NPC | request, consume | two threads |

`PROJECT.json` says part by part what is modelled (`components`), which source
lines every definition stands for (`map`), where the code can go wrong in ways a
test hardly reaches (`hazards`), and which properties guard against it.

## Modules

| Module | Models |
|---|---|
| `SlotLease` | the promise of the dispatcher: leases, a cap for background work, a queue for dialogue |
| `Dispatcher` | `SlotPool` and `NPCRequestDispatcher`, a step per stretch of a task between two suspensions |
| `PestTurns` | `run_pest_turn`: semaphore, timeout, agent threads |
| `GpuLoad` | the two side by side on the inference server |
| `Bonds` | the promise of the taming store: indivisible bonds |
| `Taming` | dialogue turns and `try_tame`, a step per query |
| `CompanionSync` | `Taming` with the plugin's copy of it |
| `Bridge` | both ends of the WebSocket |
| `Threads` | the open topics of one NPC with one player, a step per query |
| `Guide` | the guide session of one NPC, a step per look-up of the sensor |
| `Thinking` | `Bridge` with the mark above an NPC that owes a reply |
| `Patience` | the ages of callbacks and marks, and the timers that remove old ones, in seconds |
| `Personality` | the traits of one NPC, a step per query |
| `Prompt` | one call of the language model: context trimmed, completion parsed |
| `Memory` | the notes of one NPC, its last replies, and the compression sweep |
| `Skills` | a skill from draft to live NPC, over the processes that share its files |
| `WikiIngest` | ingestion cycles over a wiki that is edited, a step per request |
| `*Proofs` | theorems about one or two of these (see Proofs) |
| `MC*` | instances for TLC |

**Dispatcher.** `waiters` is the deque of the `asyncio.Condition`, `notified` the
waiters whose future `notify()` has completed, `expired` those whose `wait_for`
timer has fired; either lets the task run, later. The lock of the condition is
never held across a suspension, so taking it is no step. The semantics of the
condition are those of Python 3.12, which the image pins: `notify()` picks the
first waiter with an open future, and a task cancelled by its timer after it was
notified does not pass the notification on. `pc` says where a client's request
is: idle, waiting, calling. How a call ends (answer, timeout, exception) makes
no difference to the pool: the `finally` clause runs.

**PestTurns.** `stage` is the turn as the event loop sees it, `agent` the thread
that works on it; `TurnTimesOut` answers the turn and hands the semaphore on
while the thread stays where it is. `GpuLoad` extends `Dispatcher` and
`PestTurns`; the two share nothing but the server.

**Taming.** `pc[t]` is the query turn `t` does next; `Insert` is the INSERT with its
three outcomes (the row conflicts, is stored, or violates the unique index).
`isCompanion` is what the reply will say. `QueryFails` may end any turn before
its reply, with the empty reply of `process()`.

**CompanionSync.** Extends `Taming`: `follows` is `CompanionState.OWNERS`, `awaited`
the turns whose callback the plugin still holds. A reply is heard or lost
(empty text, player offline, callback swept, connection gone); a restart of the
game server empties both.

**Bridge.** `gen` numbers the connections, `down` is what the latest carries to the
plugin, `partial` the messages of which the plugin's buffer holds parts. The
connection breaks at either end at any time (`LinkFails`, `LinkCloses`,
`HandlerEnds`), also between two parts. When the buffer holds parts of several
messages, the extraction of keys from the left takes the identifier of an
earlier one and later fields from any later one, or misses a key.

**Threads.** `op[t]` is what a task has read and the query it does next; `rows` are
the pair's rows, never removed. `recent` stands for a last mention within the
cooldown, the number of topics raised so far for the time. `hinted` is history:
how often each topic, not each row, was given to a prompt.

**Guide.** `session` is the NPC's entry in `GuideState.GUIDING`, with what its clocks
are asked (has the NPC been stuck too long, has it waited too long, has it
lingered) in place of their times. `tick` is where `SeekLandmarkSensor.matches` is
and what it has read; every look-up of the session by name is a step, because a
reply, heard by another thread, may replace the session between two of them.
How far the NPC is from its target is free at each tick. `abandoned` is history:
the markers left on the map without a session. `near` and `shown` say when the
player was first near and when the linger ran out, before the session arrived or
since; `overtook` says of a session that it began between the sensor's finding
its predecessor arrived and its looking for the player.

**Thinking.** Extends `Bridge`. The mark is set before the request is sent, by the
same thread (`Begins`, then `Asks`); a callback clears the mark of the NPC its
message names; a mark older than its time to live is not seen (`Expires`). Here a
mark may expire, and a callback be swept, at any time; when they really are is in
`Patience`.

**Patience.** The same two tables with time in place of connections: `pending` and
`mark` are the ages of callbacks and of marks, `sweepIn` and `purgeIn` the time to
the next run of either timer, `owed` how long the orchestrator has been at a
request. The purge of marks is `removeIf` of a `ConcurrentHashMap`: it tests one
entry after the other (`PurgeLooksAt`) and removes one that has been tested only
if it still has the value it was tested with (`PurgeRemoves`), so that a request
may set a mark anew in between. The sweep of callbacks is one step, since a
callback is put in once and never renewed. `waited` is history: how long ago an
NPC was last asked, unless a callback of its has been called since. A mark that
is set in the very second of one it replaces has its value, as in the code, whose
clock has milliseconds. In the model no purge takes longer than this second.

**Personality.** `op[t]` is what a task has read and computed and the query it does
next; a row's `value` stands for warmth in the NPC's own row (the four shared
traits are nudged, clamped and decayed alike) and for trust in a player's.
Decay takes a value any part of the way to its baseline, for any time may have
passed. `felt` (in a row), `landed` and `beside` are history: which outcomes a
value contains, which were written, which ran side by side.

**Prompt.** An item of context is its size, a completion is a sequence of tokens: a
word, a line break, a tag. `Trim` is an iteration of the trimming loop; `Answers`
parses, with the places of tokens in the completion for text. Every context and
every completion up to the bounds is an initial state or a next one.

**Memory.** A reply is its number. `landing` holds the notes whose task has been
spawned, `points` what Qdrant has; `sweep` is where `compress_npc_memory` is. A
fact counts as stored (`told`) when all those of its batch are. A restart loses
what is landing, the turns and the last replies.

**Skills.** `script[s]` is a run of `run_skill_validation.sh`, by cron or by
`pest_evolve.py`, with the candidates it has listed; it ends at the first that has
gone (`set -e`). `clock` gives files and processes their times. `running` is the
file that runs in `skill_runner.py`, looked up in the table of the last scan.

**WikiIngest.** `wiki[p]` is the page's revisions, `store[p]` the chunks kept, each with
the revision it claims and, as history, the revision its text is of. A cycle's
`known` is what it has learnt of a batch, `text` what it has fetched.

## Runs

| Run | Shows | Instance |
|---|---|---|
| `gpu_load` | slots conserved, ambient capped, refinement of `SlotLease`; one turn of Pest awaited at a time, the load exceeds the capacity by the abandoned threads at most; every request and every message answered | 2 slots, cap 1, 3 dialogue and 2 ambient clients: two sleep together beside a slot that is free, newcomers of either kind overtake; 2 messages of a model call each: one abandoned, one running |
| `gpu_overcommit` | *violated*: the load is never above the capacity | 2 slots, cap 1, 2 dialogue clients and an ambient one, 3 messages of two model calls each |
| `companions` | refinement of `Bonds`, true claims, Mori and Pest bonded unless the rule denies it, an ordinary NPC follows its owner or nobody | 2 turns, 2 players, an ordinary NPC, Mori, Pest, a restart of the game server anywhere |
| `bridge` | `_CURRENT_WS` right, own replies before the first reconnection, no callback called twice; until then a mark is owed to somebody | 3 requests, a notice of Pest, 3 connections |
| `patience` | no callback and no mark older than twice its time to live, an NPC thinks exactly while it has been asked | 2 requests to one NPC and one to another, a time to live of 3 s, an orchestrator with 4 s of patience |
| `threads` | open topics bounded by the operations run together, mentions by the limit and these | 2 operations at a time, 3 topics, limit 2 |
| `guide` | markers accounted for and given once, a linger at the place with the player, or the whole wait there, before the NPC leaves, unless its session overtook the sensor; every guide ends | 2 places, 3 markers, 3 distances; replies, ticks and clocks interleave |
| `personality` | traits on their side of the baseline, nudges lost to overlapping outcomes only, what is logged was felt | 2 operations at a time, 3 outcomes of two kinds, 2 players; any query may fail |
| `prompt` | lists cut fairly and no more than needed, no tag spoken, the line spoken whole | 3 lists of up to 3 items of 2 sizes; completions of up to 5 tokens of 10 kinds |
| `memory` | a turn knows what was said last, a note is deleted only when distilled, the backlog falls below the threshold | 2 turns, 2 players, 4 notes, batches of 2, 2 failures or restarts |
| `skills` | what runs is what is active, a notice is of a skill that passed, sent once per process, every candidate judged | 2 drafts of Pest, 2 validations, a kill or a restart |
| `wiki` | text never older than its revision, pages whole unless replacements overlap, the copy becomes current | 2 pages, 3 revisions, the daemon and a manual cycle, a failure |

`LoadWithinParallel` states what `docker-compose.yml` and `session.py` say and the code
does not do; `findings` in `PROJECT.json` quotes them. Ten more definitions state
what a comment says and the code does not do. They have no run of their own:
adding the name to the module's configuration gives the trace (`KeepsConnecting`
needs the fairness of `ThinkFairSpec`).

| Definition | What happens instead |
|---|---|
| `Dispatcher!FreeSlotWakesWaiter` | a wakeup given to a waiter whose timer fires before its task runs is lost, and another sleeps on beside a free slot until its own timer |
| `Taming!TameIdempotent` | a turn loses the race for the NPC to another turn of the same player, and is told that the player already has a companion |
| `Bridge!KeepsConnecting` | the orchestrator closes the connection in order; `onClose` is not overridden, and no timer is set |
| `Guide!MarkerAtTarget` | a session replaced while its marker is being created leaves the marker to its successor |
| `Guide!LingersAfterArrival` | a reply between the sensor's finding a session arrived (`SeekLandmarkSensor.java:90`) and its marking the player near (line 120) puts a session there that has not arrived: its linger runs out on the walk, and the NPC turns back on its first tick at the place (`GuideState.java:88-91`, `:305`, `:325-326`) |
| `Patience!GivenUpForLost` | `NpcAiBridge.java:66-71` takes the dialogue budget to be 3 s and 6 s; the dispatcher has 12 s and 10 s (`priority_queue.py:91-92`): a callback is swept after 20 s, and a reply that comes between then and 22 s is dropped, as is that of a longer turn of Pest (45 s) |
| `Threads!StaleWasHinted` | a topic that replaces another's summary inherits its count, and goes stale without having been mentioned as often |
| `Skills!NoticeIsNews` | the daemon's count begins at 0 with the process: old lines are sent again after a restart |
| `WikiIngest!ChunksShareRevision` | two cycles replace one page at the same time, and leave chunks of two revisions |
| `Thinking!ClearedByTheLast` | the reply to one player clears the mark while another waits for the same NPC |

**What else the models show**, without a run of its own:

- `SlotLease` lets a newcomer take a slot that was released for a waiter, because
  the code does: the waiter's task must still find `_free > 0` when it runs.
- Mori and Pest are one NPC each for all players. The table bonds each to the
  first who speaks to it, and denies the bond to a player who owns another NPC;
  the plugin's map marks whoever spoke last. So for these two the table and
  the map may name different players, which is why `FollowsOwner` is about
  ordinary NPCs only.
- After a reconnection the plugin's buffer may hold the first part of a message
  whose rest is lost. What it then reads of the next message may name another
  request or none, which is why `OwnRepliesBeforeReconnect` stops at the first
  reconnection. No callback is called twice even then.
- Two operations that both find no open topic both insert one. `OpenBounded` is
  what is left of "one open thread at a time" (`threads.py:50`).
- A guide that is replaced, or stopped by the intent "rest", leaves its marker on
  the map: `MarkersAccounted` names these as the only ways besides a removal that
  fails. A session put in place of one the sensor has decided to end is dropped
  in its stead. `ShowsThePlace` says of one that has arrived that it lost its linger only
  if it overtook the sensor, as `LingersAfterArrival` shows.
- Compression stores what it distils without a player (`memory.py:232`), and a fact
  without a player is a world fact (`memory.py:71`): what one player said becomes
  what the NPC knows with everyone.
- `handle_outcome` drops an outcome without a player, whose trust would overwrite the
  NPC's own row: `Occurs` of `Personality` has players only.
- `MAX_FACTS_COMPANION` is 12, but `get_facts` asks for six: a companion's prompt
  never has more facts than a stranger's.
- A `GUIDE_TARGET:` whose value is missing, or a stray word in capitals before the
  line, takes the line that follows for its value: `LineIsSpoken` is about
  completions tagged as the prompt asks for.
- A wiki page that is deleted, or of which nothing is left when it is cleaned,
  keeps its old chunks; `Current` says nothing of it.
- A validation ends at the first candidate it does not find, and leaves the rest
  to the next: `EveryCandidateJudged` counts on cron.

**Bounds.** Clients, turns, players and requests are symmetric and few: each race
above needs two or three of them (one that holds, one that waits, one that
overtakes; one connection that breaks, one that follows, one more whose
coroutine outlives it). `MaxSlots` and `AmbientMaxInFlight` are parameters, 6
and 2 in `main.py`; what the instances keep is that some slots are dialogue's
alone. `MaxSteps` is 8 in the code, 1 or 2 in the runs; `MaxMentions` is 3, 2 in the
runs. In `Patience` a time to live of 3 s lets a mark be renewed, found old and found a moment too
young, and the two timers start at any distance from each other; the
orchestrator's patience is a second more than the time to live, as the code's 12 s
and 10 s are more than its 20 s (`GivenUpForLost` fails with those values too: a
sweep finds a callback 21 s old while the call runs).
`MaxConnections` bounds a behaviour of `Bridge`, and `Topics` one of `Threads`
(each is raised once), and `Markers` the markers on the map of `Guide` (when all
are there, creating one fails, as it may anyway); nothing in the code bounds
these. `Far` bounds how often an NPC can come closer to its target than it ever
was, which the code's distances do too. `Ids`, `MaxSaid`, `MaxEdits`, `MaxSeeds` and
`Drafts` bound what happens in a behaviour of the modules they belong to, `MaxFaults`
how often something fails in it; three outcomes, notes or revisions are one that
is overtaken, one that overtakes and one that comes after. `MaxItems`, `MaxTokens`
and `MaxChunks` bound inputs: five tokens have a tag before the line, one behind
it and one again. The theorems hold for
all values. Symmetry is used where only safety is checked.

**Deadlock** is checked except in `bridge`, `prompt`, `memory` and `skills`, whose inputs are
used up: each request is made once, each context and completion is handled
once, replies and drafts are bounded, and nothing is left to do.

**Fairness.** Weak fairness of the tasks and timers of an event loop that is never
blocked (`Dispatcher`, `PestTurns`: every await on a model is under
`asyncio.wait_for`; nothing is assumed of agent threads); in `Guide` of the clocks and of the sensor, which
the role's instructions ask at every tick in which nothing of higher priority
acts (an NPC that fights or flees for ever guides for ever). No fairness is assumed of clients, of the
connection or of the orchestrator's answers. In `Memory` the compression
daemon, in `Skills` cron and a script that is not killed, in `WikiIngest` a cycle
goes on, since every request has a timeout and ends in an answer or a failure.
`Taming`, `CompanionSync`, `Bridge`, `Thinking`, `Patience`, `Threads`, `Personality` and `Prompt` are checked for safety only:
a query, or a reply, may take for ever. (In `Patience` the timers are not left to
fairness: time does not go on while one is due.) `ThinkFairSpec` has the timer of
the bridge's reconnection, for `KeepsConnecting` alone.

## Proofs

Checked by TLAPS for all values of the constants under the modules' named
assumptions (finite, disjoint sets of clients; limits that are naturals).

- `GpuLoadProofs`, on `Dispatcher`: `TypeOK`, `SlotsConserved`, `AmbientCapped`, `DialogueShare`
  and the refinement of `SlotLease`. The inductive invariant joins them with
  the fact that waiters in the deque are waiting clients: without it a woken or
  expired task could leave a line it is not in. Conservation is about the
  cardinality of the set of callers, so each step says which client enters or
  leaves that set.
- `GpuLoadProofs`, on `PestTurns` and `GpuLoad`: `PestTypeOK`, `OneTurnAwaited`,
  `LoadBounded`. The bound follows
  from serialisation: every thread that calls the model belongs to the one turn
  awaited or is abandoned. Serialisation needs that the queue holds exactly
  queued turns, each once, so that a hand-over never revives an answered turn.
- `CompanionProofs`: `TypeOK`, `CompanionClaimsHold`, `ImplementsBonds`,
  `RefusalJustified` and `AdventureBonded` of `Taming`, and `FollowsOwner` of
  `CompanionSync`. Claims and refusals hold because bonds are for good: no step
  takes an owner away, so what a query found stays true while the turn goes on.
  `FollowsOwner` follows from the claims that awaited replies carry.
- `BridgeProofs`: `TypeOK`, `CurrentIsLatest`, `OwnRepliesBeforeReconnect` and
  `AnsweredOnce` of `Bridge`, and `ThinksOfSomething` of `Thinking`. Own replies need
  `CleanBuffer`: on the first connection the buffer holds parts of no message but
  the one at the head of the connection. `AnsweredOnce` needs to know where a
  notice can still be read from: it is carried once, or is in the buffer, or was
  handed over, and never two of these but for the message at the head, of which
  the buffer has a part. The mark's invariant rests on both, and is lifted from
  `Bridge` because every step of `Thinking` is one of `Bridge` or leaves it alone.
- `StoreProofs`, on `Threads`: `TypeOK`, `OpenBounded`, `MentionsBounded`. Neither bound is
  inductive: each is strengthened to count, with what is done, what is decided
  but not yet done (the tasks about to insert, the tasks about to mention a
  row). A task starts inserting only while no row is open, and starts a mention
  only of a row below the limit; finishing moves one from the second count to
  the first.
- `StoreProofs`, on `WikiIngest`: `WikiTypeOK`, `TextNotOlder`, `PagesAreWhole`. A cycle
  learns the revisions of a batch, and only then fetches each text: what a page
  claims, in its chunks and in a cycle's hands, is a revision learnt before its
  text was fetched (`Founded`, `Informed`). Pages are whole because chunks are
  written where there are none: unless replacements of a page overlapped (`torn`),
  it is replaced by one cycle at a time, and one that has deleted its chunks
  finds none when it writes (`Alone`).
- `PluginProofs`, on `Guide`: `GuideTypeOK`, `MarkersAccounted`, `MarkedOnce`,
  `ShowsThePlace`. The sensor acts on what it has read of a session that may be gone.
  The inductive invariant says for each place in a tick what still holds of whatever
  session there is by then: no marker yet before one is recorded, not arrived while
  on the way, shown or waited for before it is dropped, its marker dealt with.
  These survive a replacement because a new session has no marker and has not
  arrived. For `ShowsThePlace` it says also that a session the sensor looks for the
  player of, and that did not overtake it, has arrived (`StillThere`), and that such
  a session's linger is of the time since (`Timely`).
- `PluginProofs`, on `Patience`: `PatienceTypeOK`, `StaleRemoved`, `ThinksWhileAsked`. An
  age and the time to the next run of its timer are together at most twice the
  time to live, for the run leaves nothing that is older than one. That a mark
  counts from the last request needs `PurgeRemoves` to compare: what the purge is
  about to remove is either not seen any more or has been renewed since.
- `PersonalityProofs`: `TypeOK` (traits between floor and ceiling), `SidesWithBaseline`,
  `LostOnlyToOverlap`, `LoggedWasFelt`. Between its queries a task holds values that
  will be rows, so each invariant of the rows is extended to what tasks hold.
  `LostOnlyToOverlap` needs that two tasks under way have been put on record as
  running side by side, and that a value read after an outcome landed contains
  it or overwrites it beside another.
- `MemoryProofs`: `TypeOK`, `NothingForgottenUntold`, `KnowsWhatItSaid`. A sweep deletes
  the notes of its batch only when nothing of it is left to store; a turn's reply
  is in the cache before it is sent, and the cache only grows newer.
- `LineProofs`, on `Prompt`: `TrimmedFairly`, `NoTagSpoken`, `LineIsSpoken`. `CutInv` says
  during the loop what `TrimmedFairly` says at its end: a list that has been cut was
  a longest one, so no other is more than one item longer, and the prompt with
  the item cut last was too long. The other two are about one completion of any
  length. `_strip_tag_region` leaves no tag of whatever stretch it is given. For a
  completion tagged as asked, the spans found begin at the first tag, and the
  furthest end is that of the last tag with its value: each tag's match is its
  only place, and a value ends before any other tag.
- `LineProofs`, on `Skills`: `SkillsTypeOK`, `NoticedWasApproved`, `SentOncePerRun`,
  `RunsTheActive`. What is in `approved/` has passed, and so has a candidate
  whose notice is about to be written (`PassedInv`); the lines queued by a process
  come behind those sent, and none is beyond what it has seen (`LinesInv`).
  `RunsTheActive` needs
  `TableInv`: what the last scan found is, of Pest, what a scan would find now,
  for a file approved after the start is younger than the process and not
  eligible until a restart, which scans again; only a rollback takes it away, and
  then the run looks again.

The type invariants of the modules, `DialogueShare` and `RefusalJustified` (of `Taming`) are
proved and in no run. Every invariant and every property of a step that a run
checks is proved. Model-checked only: the six liveness properties
(`EveryRequestAnswered`, `EveryTurnAnswered`, `EveryGuideEnds`, `BacklogCompressed`, `EveryCandidateJudged`, `EventuallyCurrent`), whose
fairness is out of the prover's reach, and, as it is violated, `LoadWithinParallel`.

**Numbers and sums.** The library states induction for operators, which the provers
do not instantiate. `LineProofs` takes it from the well-founded order of the
naturals instead, as a fact about sets: a set of naturals has a least element
(`LeastExists`), a bounded one a greatest, and a set with 0 and with every number
its successor has all (`SetInduction`). That the recursive sum of a list's sizes
(`Total`) is a number, and that the first and the last of some tokens exist,
follows.

## Not modelled

- Text: wording of prompts, escaping, cleaning of wiki pages, embeddings; the
  search of Qdrant and Postgres (what is recalled for a turn), file formats.
- Self-study (`agent_brain`) and the tools of Pest: a bounded loop of calls that look
  something up and answer with text; what is left of a run is one fact.
- The plugin's conversations and manual moves (see the plan), the game engine's
  world and behaviour trees, geometry, the caches of what an NPC sees.
- Ambient and outcome messages register no callback and are left out of `Bridge`;
  their handling is in `Dispatcher` and `Personality`.
- How long things take, but for the tables of `Patience`: elsewhere a timeout may
  fire at any time after it is set. `Patience` counts the wait for a slot and the call
  of a dialogue; what else a reply takes (queries, the least delay of
  `MIN_REPLY_DELAY_S`) comes on top.
- The executor of `asyncio.to_thread` is assumed larger than the number of turns in
  `PestTurns`. `Guide` is about an NPC with one body, as `TalkToAIAction.java` intends.
- `WikiIngest` takes a batch's answer as complete; the limit of 500 categories of one
  request is not modelled.

## Plan

1. `Conversations`: start, refresh, leaving, timeout, sweep, and the pending moves
   they ask for: a conversation replaced between its read and its refresh, a move
   replaced between `isPending` and `consume`. It would share the run of `Thinking`,
   whose requests it makes, with one player.
2. `Study`: the budget of the self-study loop beside the dispatcher's ambient cap.
3. Proofs: a bound on the trimming loop's iterations by the items offered; what is
   left of the ten definitions above where nothing overlaps (one cycle at a time
   for `ChunksShareRevision`, one process for `NoticeIsNews`).
