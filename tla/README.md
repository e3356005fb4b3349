# Shrok in TLA+

Shrok is a personal assistant: one Node.js process that talks to its user over
chat channels, runs language-model conversations ("heads"), spawns background
agents, and keeps schedules, reminders, sensors and alarms. This directory
specifies the parts of it where order, failure and restart matter, checks them
with TLC on small instances and proves the most important facts with TLAPS for
instances of any size. Source paths below are relative to the repository root.

| File | What it is |
| --- | --- |
| `EventLedger.tla` | abstract specification: the life of one queued event |
| `ActivationLoop.tla` | the head loops over the `queue_events` table, and their properties |
| `ActivationLoopProofs.tla` | theorems about `ActivationLoop` for every value of its constants |
| `ActivationHistoryProofs.tla` | theorems about what the head loops write into the history |
| `AgentLife.tla` | abstract specification: the life of one background agent |
| `AgentRunner.tla` | the agents of a head: rows, inboxes, loops, and their properties |
| `AgentRunnerMC.tla` | its parent and child for TLC |
| `AgentRunnerProofs.tla` | theorems about `AgentRunner` |
| `AgentLifeProofs.tla` | its refinement of `AgentLife`, and parents and sub-agents, proved |
| `Schedules.tla`, `SchedulesMC.tla`, `SchedulesProofs.tla` | schedules and reminders, their instance for TLC, theorems |
| `RingRunner.tla` | the ring of a Home Assistant channel |
| `ToolLoop.tla`, `ToolLoopProofs.tla` | the rounds of a tool loop and its loop detector, theorems |
| `CliqChannel.tla`, `CliqChannelMC.tla`, `CliqChannelProofs.tla` | the Zoho Cliq channel of a head, its instance for TLC, theorems |
| `HeadAdmin.tla`, `HeadAdminMC.tla`, `HeadAdminProofs.tla` | several heads that are created, renamed and deleted while they run, their instance for TLC, theorems |
| `*.cfg` | the runs of section 8 |
| `PROJECT.json` | components, runs, mutants, map to the source, findings, hazards, theorems |

## 1. Inventory

Everything runs in one JavaScript thread over one synchronous SQLite
connection. Code between two `await`s is therefore atomic with respect to other
code of the process; it is not atomic with respect to a crash unless it is one
SQL statement or one transaction.

**Event queue** (`src/db/queue.ts`). State: rows of `queue_events` (id, type,
payload, priority, status, head_id). Operations: enqueue, claimNext, two
claim-all queries, ack, fail, release, requeueStale, deletes. Every component
talks to a head by enqueueing. Hard: updates by id never test the old status, so
soundness rests on who calls them. Correct when an event is worked on by one
activation at a time, settles once and stays settled, and survives a crash.

**Head activation loop** (`src/head/activation.ts`), one per head. State:
`running`, the set of already appended event ids, a wake latch; the position in
the current activation lives on the JavaScript stack. Operations: claim, budget
check, dispatch by event type, coalescing of background events, relay and
work-summary stewards, one injection transaction, the tool loop, batching of
messages that arrived meanwhile, delivery, compliance stewards, ack; rate-limit
and outage retries; failure with an apology. Hard: ten awaits per activation
during which anything may be enqueued, `~reset` may empty the table, and the
process may die. Correct when acknowledged means handled, nothing is repeated
beyond what a crash explains, order is kept and nothing is lost or stuck.

**Wake latch** (`notify`/`waitForEvent`). Correct when the loop never sleeps a
full poll interval on a pending event whose notification it received.

**Agent runner** (`src/sub-agents/local.ts`, `src/db/agents.ts`,
`src/db/agent_inbox.ts`). State: agent rows (running, suspended, completed,
failed, retracted), an inbox per agent, in-memory emitters, abort controllers
and tasks. Operations: spawn, update, signal, retract, resume, completion by
steward, question, spawn of children. It reports to the head's queue or the
parent's inbox. Hard: messages that arrive while the completion steward is
awaited, the end-of-loop inbox clean-up, two resumptions of one agent, status
and report committed separately. Correct when every agent ends once, its end is
reported once, and no message to a live agent disappears.

**Scheduler and reminders** (`src/scheduler/index.ts`, `src/db/schedules.ts`,
`handleScheduleTrigger`). State: schedule rows (enabled, nextRun, cron, runAt,
requiresAck, ackPending). Operations: tick, trigger handling for tasks and
reminders, acknowledge, edits. Interacts with the queue (triggers, reminder
messages) and the agent runner (spawn). Hard: enqueue and advance are separate
writes, rows are read before an await and used after it, one-time rows are
deleted before the work they stand for is done. Correct when a time fires
once, a nag goes on until it is acknowledged and stops then, and nothing is lost
but what a crash or a failed write was in the middle of.

**Ring runner** (`src/ring/runner.ts`). State: one slot with two timers per
channel, a persisted record. Hard: start and stop interleave at four remote
calls. Correct when a stop silences the device and leaves no timer behind.

**Tool loop** (`src/llm/tool-loop.ts`), used by heads and agents. State: the
round, a window of the calls of the last rounds, an error counter per call,
whether the nudge was sent. Operations: a model call, parallel tool calls,
detection, a steward's verdict, nudge, stop, terminal tools, abort. Hard:
counters updated and reset round by round must say what the whole record says.
Correct when a spinner is stopped and an explorer is left alone.

**Startup, shutdown, head administration** (`src/index.ts`,
`src/dashboard/routes/heads.ts`). Recovery of stale rows and orphaned agents per
head, routing of inbound messages, rename and delete of heads while loops run,
graceful shutdown. State: the heads in `config.json`, and everything that is kept
under a head's id: queue rows, history, app state, schedule files, agents. Hard:
a rename or delete is several writes, and the loops keep the ids they were
started with until the next restart. Correct when a head's data go where the head
goes, no other head ever gets them, and a restart strands nothing and
fails only agents that are dead.

**Usage thresholds, archival, app state** (`src/usage-threshold.ts`,
`src/db/app_state.ts`, `src/head/archival.ts`). A blocked budget stops a loop;
archival runs beside the loop under a lock that startup releases, and gives it back
under the id that the loop was started with. Correct when no archival overlaps
another, no lock stays held without one, and a block ends with its period.

**Channels** (`src/channels`). An adapter hands inbound messages to the head and
posts its answers; a router in front retries a failed send once. Most are pushed
their messages by a client library. The Zoho Cliq adapter
(`src/channels/zoho-cliq/adapter.ts`) polls: its state is a table of processed
messages (`src/db/zoho_cliq_state.ts`) and, in memory, the texts it sent. Hard: its own
posts come back under the user's name, requests of a retired adapter go on beside
those of its successor, files are downloaded in the background, messages are
marked before they are handed over. Correct when no message reaches the head
twice, none is dropped without a reason, and the assistant does not hear itself.

**Sensors and webhooks** (`src/sensors`, `src/webhook`) enqueue events; sensors
fan out to several heads.

**Left out for good**: LLM providers, prompts, topic memory, apps, MCP, skills,
identity files, doctor, git commits of the workspace, dashboard pages. They are
I/O, formatting or text; `PROJECT.json` lists each with the reason.

The hazards found while reading are in `PROJECT.json`, each at its line, with
the properties that cover it or the reason why none does.

## 2. `ActivationLoop`: correspondence with the code

| Variable | In the code |
| --- | --- |
| `rows`, `kind`, `headOf`, `status` | the `queue_events` table; a row's number is its rowid. `none` is "not inserted yet", `gone` is "deleted" |
| `seen` | how often the event's text was appended to `messages` |
| `ran`, `muted`, `led` | history variables: the handler ran to its end; the relay steward suppressed it; it was a primary event |
| `up`, `crashes` | the process |
| `overBudget` | `findBlockingThresholds(...)` is not empty |
| `running`, `appended` | `ActivationLoop.running`, `appendedEventIds` |
| `pc`, `primary`, `held`, `stage` | the await at which the loop is suspended; `rowId`; `coalescedEvents` or `buffered`; which call of `handleEvent` for this event this is |

An event type is one of five kinds, which is what the properties tell apart:
`user_message`; `command` (a user message that starts with `~`);
`agent_event` (agent_completed of an ordinary agent, agent_question,
agent_failed, agent_response, webhook, head_message, sensor_event);
`background_completed` (agent_completed of a scheduled or sensor agent, the only
kind the relay steward judges); `schedule_trigger` (also
sensor_sub_agent_trigger, which is dispatched, coalesced and ignored by
`injectEvent` in the same way). The priorities of the kinds merged in
`agent_event` differ, but all lie strictly between user messages and triggers,
and no property orders them among themselves.

Actions are the code between two awaits:

| Action | Code |
| --- | --- |
| `Claim` | `claimNext`, budget check, `handleEvent` to its first await (`Begin`) |
| `ClaimBlocked`, `StopBlocked` | claim and release with no await in between, so the row never leaves `pending`; the notice is sent (await); `stop()` |
| `HandlerDone` | `runCommand` or the trigger handlers return; a reminder enqueues its message |
| `Suppress`, `Inject` | what follows the relay and summary stewards: the early return, or the transaction |
| `Answer` | `assemble` and `runToolLoop` |
| `BatchClaim`, `BatchAppend`, `BatchCommand`, `BatchRerun` | the batching loop, one row at a time |
| `Deliver`, `Ack` | delivery and compliance stewards (whose nudge goes to the default head), then `ack` |
| `HandlerFails`, `BatchCommandFails`, `Retry`, `Apologise` | `Following` is the retry policy: one retry after a rate limit of at most two minutes (`rate_limit`; a longer wait is `quota`), then up to three after server errors |
| `Enqueue` | any channel, agent, webhook, sensor, scheduler or other head |
| `Stop`, `Reset`, `BudgetMoves` | `~stop`/`~restart`, the queue part of `~reset`, spend or thresholds changing |
| `Crash`, `CrashMidBatch`, `Boot` | death between two awaits; death between the append of a batched message and its ack, two separate commits; `requeueStale` for each head and start |

Where code between two awaits commits more than one statement, a crash can fall
in between. In `Begin` the claim, the coalescing claim and the append of a user
message are such a group; dying after the claim alone leaves the row
`processing` with nothing appended, which is what `Crash` also reaches (for a
user message: through a crash during its backoff or one await earlier, with the
message not yet seen), so no separate crash point is needed. In the batching
loop it is, hence `CrashMidBatch`. `Inject` is one SQL transaction.
`BatchAppend` handles one row per step although the code may handle several
without an await; the extra interleavings only add arrivals in between.

`UPDATE ... RETURNING` promises no order. The claim of user messages walks the
index `(head_id, status, priority DESC, created_at ASC)` with equal priorities,
so rows come back in order of arrival; `InBatch` takes the lowest row first.

Assumed of code outside: `channelRouter.send` never throws, the stewards and the
proactive decisions catch their own errors, and the trigger handlers can fail
only in installing dependencies or spawning (`other`).

## 3. `AgentRunner` and `AgentLife`: correspondence with the code

| Variable | In the code |
| --- | --- |
| `status`, `asking` | the `agents` table: status, and whether `pending_question` is set; `none` is "not inserted yet", `gone` is "deleted" |
| `unread` | unprocessed rows of `agent_inbox`, counted by kind |
| `registered` | whose emitter and AbortController the maps `emitters` and `abortControllers` hold (both are set and deleted together) |
| `pc`, `isSuspended`, `nudged` | the stack of `loopIteration`: where it is and its locals |
| `fired`, `watching` | whether a loop's controller has fired; which loop's controller was handed to its tool loop |
| `checked` | agents that the head's `message_agent` has checked, with the steward's answer outstanding |
| `resetting`, `overBudget`, `up`, `closing` | `~reset` between its two halves; a block threshold; the process; `shutdown()` |
| `told`, `cut` | history: the present outcome was reported; the process died between an outcome and its report |
| `revived` | history: sub-agents that the head continued after they had completed and their parent had last looked at its children |

A *loop* is one run of `runLoopFrom`. The code means to have one for each agent,
but `update()` starts another whenever it finds no emitter, so an agent has
`MaxTwins` places for loops. Code that does not await holds the thread: a loop
whose `pc` is in `Running` goes on before anything else happens (`Free`), which is
how the model keeps a row's update and its report together without hiding that
the process may die in between (`Crash` is not guarded by `Free`).

| Action | Code |
| --- | --- |
| `HeadSpawns`, `ParentSpawns`, `Spawn` | `spawn()` after `assembleTools`, from the head, a trigger or a parent's tool |
| `HeadChecks`, `HeadSends`, `StewardRefuses` | the head's `message_agent`: check, steward, `update()`; of a sub-agent too, since the head sees all ids and the check asks for no parent |
| `ParentSends`, `ParentCancels`, `Responds` | the agent tools `message_agent`, `cancel_agent`, `respond_to_message` |
| `Cancels` | the head's `cancel_agent` and the dashboard's button: `retract()` |
| `Begin` | the end of `resumeSuspended()` |
| `TopBlocked`, `TopRetracted`, `Top` | the head of an iteration: budget, inbox with a retract, inbox without |
| `Wakes` | `waitForInbox` times out; a wake by `emit` is part of the action that emits |
| `Round`, `RoundAborts`, `ToolsThrow` | `runToolLoop` with its `onRoundComplete` and abort signal |
| `EndTurn`, `EndTurnWithoutTools` | the model stops calling tools: inbox, children, tool nudge |
| `Completes`, `Suspends` | the completion steward returns |
| `ReportsQuestion`, `ReportsEnd`, `CleansUp` | the report, then the clean-up of `runLoopFrom` and its caller |
| `ArchivalRetracts`, `ResetRetracts`, `ResetClears` | the archival's sweep; `~reset` |
| `Crash`, `Boot`, `Closes`, `Exits` | death, reaping at startup, the two halves of `shutdown()` |

`sub_agent_completed` and `sub_agent_question` are one kind, `result`. The head's
queue is not repeated here: an event for the head is `told` when it is enqueued,
and what becomes of it is `ActivationLoop`'s subject. With `SlowTools` the wait for
`assembleTools` in `resumeSuspended()` lets others run (an MCP server is asked
for its tools); without, it is a promise that is already there, and other
microtasks cannot touch the agent. `AgentLife` is what anybody outside may rely on;
`Life` maps `status`, `asking` and `told` onto it.

## 4. `Schedules`: correspondence with the code

| Variable | In the code |
| --- | --- |
| `rows` | the schedule store, reduced to `cron` and `endDate` (set or not), `requiresAck`, `enabled`, `ackPending`, and whether `nextRun` is null, ahead or past |
| `queued` | the schedule's `schedule_trigger` events in the head's queue |
| `aside` | those of them left in `processing` by a suppressed event, which the next start requeues |
| `at`, `handled`, `held`, `read` | the await `handleScheduleTrigger` is at, its event, whether that event is still in the queue, the row as it read it |
| `proactive`, `reachable` | a steward is asked before a trigger fires; the head has a channel |
| `up`, `looping` | the process; `ActivationLoop.running` |
| `faults` | writes that failed |
| `answered`, `remover`, `fired`, `repeats`, `breaks`, `quiet`, `late`, `broken` | history |

Time is only whether a row's `nextRun` has come: `TimePasses` makes it so, a cron
expression always gives a time ahead. `Tick` is the treatment of one due row, which
has no await. It goes on when a write throws: after a failed enqueue a repeating or
ack-required row is advanced all the same, after a failed advance the row stays due
and fires again (`StaysDue`). `CrashInTick` is death between the two writes. Users'
and agents' edits (`Create` to `Acknowledges`) are one action per field, of whatever
tool or route; a sensor row (`script`) enqueues nothing. `proactiveShadow` asks the
steward and ignores a "skip"; the model lets it skip as well.

A trigger stays in the queue until `Finishes`, so a restart handles it again. It can
leave in other ways: `Coalesces` is a background event that claims the waiting
triggers along with itself and acknowledges them, or, if it is suppressed, leaves
them `processing`; `Resets` is `~reset`, which deletes also the event in hand;
`Stops` is the end of the loop after a blocked budget or `~stop`. When a read or
write of the handler throws, the trigger is failed (`ReminderFails`; for tasks that
is a way to end like `TaskMissing` and the others).

## 5. `RingRunner` and `ToolLoop`

`RingRunner`: a *call* is one call of `start()` or `stop()`, and `at` is the
request to Home Assistant it waits for; `slot`, `polling` and `capped` are the
`slots` map and the timers, `record` the persisted state. A request that times
out counts as done (`callHaService`), any other error ends `start()` and is
ignored by `stop()`.

`ToolLoop`: a *call* of a tool is a tool with its input, since that is what the
detector compares. `Executes` chooses any round of up to `MaxCalls` calls, each
returning or failing; `Detects` is the code from the append to the suspicion,
with `Window`, `SameArgs`, `Errors` and `SameError` as pure operators; the
steward lets go on, nudges or stops (its own failure stops). `all` and `since`
keep the whole record, against which the detector is checked. `Errors` takes the
results of a round one by one, as the code does; the properties count places in
the record instead (`Made` is where a call stands in it, `FailuresInARow` how many
of these failures no success follows), so that the two have nothing in common. Terminal tools
are an option of heads, the abort signal and `onRoundComplete` of agents; the
model allows both at once. (The comment at `tool-loop.ts:131` puts
`onRoundComplete` before the terminal-tools check; the code does it after, as
the comment at line 494 says, and so does `Closes`.)

## 6. `CliqChannel`: correspondence with the code

| Variable | In the code |
| --- | --- |
| `chat` | the chat at Cliq, in the order of the answers; a post is who made it (an adapter, or 0 for the user), its normalised text, and its kind |
| `seenAt`, `marks` | `zoho_cliq_processed_messages`, by the order of the calls that marked (no two in one millisecond) |
| `at`, `upTo` | the await an adapter is in: its first token, the baseline or the first poll of `start()`, the timer, a poll; the newest message of the answer on its way |
| `recent`, `polls`, `stopped` | `recentSentNormalized`, `pollCount` (as far as pruning looks at it), `stopped` |
| `current`, `routed`, `reloading` | `currentZohoCliqAdapter`, the router's adapter, the reloads that await `start()` |
| `send` | calls of `router.send`: waiting two seconds, or posting a chunk |
| `loading`, `handed` | files being downloaded or transcribed; what the head was given |
| `said`, `forgotten`, `baselined`, `skipped`, `crashedAt` | history |

| Action | Code |
| --- | --- |
| `Boot`, `Reload` | the adapters at startup; the reload sentinel with `retireAdapter` |
| `Starts`, `StartFails`, `Baseline` | `start()` up to and after its first request |
| `Polls`, `PollAnswered`, `PollFails` | `poll()` around its request: filter, mark, prune, then message by message the echo filter and the hand-over |
| `Loaded` | the end of a download and of the transcription of a sound |
| `Sends`, `Posted`, `SendFails`, `Resends`, `ResendFails` | `router.send` with `adapter.send`: a text is remembered before it is posted, the whole message is sent again after an error, whether or not Cliq had taken the chunk |
| `UserPosts` | the user: a text, or a file with or without a comment; or a message with neither (`NoText`) |
| `Crash` | death between two awaits, or while an answer is handed over that is already marked |

Assumed of Cliq: an answer holds the newest `Window` messages as they stood when it was
asked for, in one order; a post appears before its answer arrives. `Without` is what
`recentSentNormalized.delete` leaves of the remembered texts in their order, and
`forgotten` holds those that fell out to make room. A token only
decides whether a request fails. `MayPost` bounds the chat and how much is posted
while one request is under way (`Lag`); `BoundsAssumption` relates it to the
pruning as 500 rows relate to answers of 20. A slash command is handed over at
once, like a text. The echo filter looks at a file's comment as at a text, so a file
whose comment repeats what the assistant said is dropped before its download; a message
that is no file and has no text is marked and goes nowhere (`SaysNothing`). A message of
type `file` without a file in it, which is handed over at once, is not told apart from a
text, and `Evicted` takes each remembered text for one that is not empty.

A reload or a restart gives the chat to a new adapter, whose memory is empty: what
the old one posted and nobody has read back yet it hands to the head as if the user had
written it. `EchoesStayOut` is therefore about an adapter that reads its own text.

## 7. `HeadAdmin`: correspondence with the code

| Variable | In the code |
| --- | --- |
| `conf` | `heads[]` of `config.json` by id; `Resolved` is `resolveHeads()`, which invents the default head where none is configured |
| `request` | a DELETE or PATCH between its transaction and its write of `config.json` |
| `phase`, `todo` | `main()`: setting up the heads, scheduler and dashboard started, loops started; heads still to be set up |
| `loop`, `working`, `archiving` | the loop that was built for an id, the row it has in hand, the archivals it has under way |
| `row`, `logged`, `keys` | `queue_events.head_id` and status; the ids under which a row's text is in `messages`; the keys `<id>:...` of `app_state`, with `held` for a lock whose value is 'true' |
| `schedule`, `agent` | files of the schedule store by `headId`; the `agents` table, and whether the agent lives in this process |
| `ownerOf`, `madeFor`, `takenBy`, `astray`, `stray`, `left`, `fresh`, `liveReaped` | history |

| Action | Code |
| --- | --- |
| `Creates` | `POST /api/heads`, with the lazy migration that writes the default head down |
| `Deletes`, `DeletesSchedule`, `Deleted` | `DELETE /api/heads/:id`: the transaction, the schedule files one by one, `config.json` |
| `Renames`, `Renamed` | `PATCH /api/heads/:id` with a new id: the transaction, `config.json` |
| `Boots`, `SetsUp`, `Reaps`, `Opens`, `StartsLoops` | `main()`: per head `requeueStale`, `releaseArchivalLock` and the reaping of agents that are marked as running; the scheduler and the dashboard; the loops |
| `Dies` | death or restart, between two writes of a request too |
| `Sends` | a channel's `headRouteMessage`, or `message_head` of another head |
| `Takes`, `Finishes` | the claim with the first text of an activation, and its last text with the acknowledgement by row id and, with a long history, `maybeArchive` (`Archives`) |
| `Archives`, `ArchivalEnds` | `maybeArchive` takes the lock, `runArchival` gives it back, both under the id of the loop |
| `Spawns`, `Reports` | an agent is started under the id of its loop, and reports to it |
| `CreatesSchedule`, `Ticks` | the head's tools and `POST /api/schedules`; one due row of the scheduler |

The code knows ids and the properties are about heads, so the model numbers the
heads: `Creates` makes a new one, a rename moves one, and `ownerOf` remembers for
whom a row was meant. A request is synchronous, so nothing runs between its writes
(`Free`), but the process may die there. Whoever writes under an id that another
head has by then (a loop or an agent after a rename, the scheduler for a schedule
that a rename left behind) is recorded in `astray` and `stray`, and the properties
speak of everything else. An archival does so as well: its `finally` writes
`<old id>:archival_lock` after a rename or a delete, and the freed id is then not clean
(`Soils`). Which messages it takes out of the history is not in the model: it takes them
by their own ids, wherever they are by then, and no property asks for a text to be kept.
`~archive`, which takes and gives back the lock within its activation, leaves the same keys
under the same id, and is not an action of its own.

Heads are set up in any order, and death while agents are being reaped is
`AgentRunner`'s subject. An activation is one claim and one acknowledgement, with
`ActivationLoop` for what is between. A slash command, which makes its channel the
active one as a message does, `~reset`, and results that go to further heads are
left out; so are channels, prompts and tool overrides of a head.

## 8. Runs

| Run | Instance | Shows |
| --- | --- | --- |
| `batch` | 1 head, 3 events of 4 kinds, relay steward on, 1 server-error retry, 1 crash | `TypeOK`, `DoneMeansHandled`, `AppendedOncePerLife`, `CoalescedOnce`, `StrandedForAReason`, `SettledForever`, `ArrivalOrder` |
| `heads` | 2 heads, 2 events, relay steward off, no commands, 1 crash, fairness | `HeldByOwner`, `ImplementsLedger`, `EveryEventSettled` |
| `agents` | a head's agent and its unattended sub-agent, 2 messages, 1 stop of the process | `TypeOK`, `NoActiveChildOfEndedParent`, `ParentHeardAll`, `OutcomeTold`, `ImplementsLife` |
| `twins` | 1 agent with up to 2 loops, slow tools, 3 messages, 1 stop, fairness | `OneActiveLoop`, `CancelEnds`, `AnswerResumes` |
| `schedules` | 1 row of any kind, 1 edit, 1 queued trigger beside one left in `processing`, 1 failed write, 1 crash, fairness | `TypeOK`, `CancelledStaysSilent`, `FiresOnce`, `OneTimeAnswered`, `KeptUntilUserActs`, `NagsUntilAcked`, `AckedEnqueuesNothing` |
| `toolloop` | 3 calls (one terminal), rounds of up to 2, 4 rounds, triggers 3, 2 and 1 (the defaults of `tool-loop.ts`) | `TypeOK`, `SuspectsExactly`, `ExplorationUndisturbed`, `SpinnerStopped` |
| `cliq` | 2 adapters, 3 messages (1 of them before the first start) with a text, a file or nothing, answers of 2, 1 remembered text, pruning at every second poll, 1 crash | `TypeOK`, `HandedOnce`, `EchoesStayOut`, `SkippedForAReason`, `HistoryStaysOut` |
| `head_admin` | the default id and two others, up to two named heads at first, 1 agent, 1 schedule, 2 queue rows, 1 archival at a time, 2 requests, 1 end of the process | `TypeOK`, `DataFollowsHead`, `NoCrossTalk`, `FreeIdsAreClean`, `NothingStranded`, `OnlyDeadReaped` |
| `triggers`, `duplicate`, `agents_lost`, `ring_twice` | the smallest instance each needs | each finds its one property violated (section 10) |

### `ActivationLoop`

Bounds. Three events are what the interactions need: one being handled and two
waiting, so that a batch or a coalesced set has an order and can be broken off
in the middle. One server-error retry stands for three: the policy
(`Following`) treats all of them alike, `ServerRetries` is a constant, and the
proofs hold for any number. `seen` counts to `MaxCrashes + 2`, one more than the
number of appends any property allows. One crash suffices for every property that relates a state to
the process's earlier life; two in a row lead to the same table as one. Two
heads show each kind of interference between heads, since the statements name
at most the acting head.

`DoneMeansHandled` leaves out triggers, which `TriggersRun` shows to be lost,
and `StrandedForAReason` names the two ways in which a live process loses track of
a row (section 10): it is checked where both can happen, next to retries, failures
and `~reset`, which must lose none.

Fairness (`heads`). Weak fairness of each loop's step: provider calls carry
timeouts, waits are timers, sends are caught, and the loop polls every second,
so a loop that can take a step eventually takes one. Weak fairness of `Boot`:
the installer registers a service that is restarted when it exits. Nothing is
assumed of the environment. `EveryEventSettled` excuses an event whose head's
loop has been stopped by a budget block or `~stop` (the code has no way to
resume it), and one that is stranded (section 10).

### `AgentRunner`

Two agents in the relation of parent and child are what every property about
two agents speaks of; the code forbids grandchildren. Two messages let a
cancellation meet an answer or an instruction. `MaxTwins` is 2 where a second
loop matters: a third is started in the same way, and the proofs hold for any
number. One stop of the process is enough, because all that survives it is in
the tables, which a second stop finds in no new state.

The head may continue a sub-agent that has completed, at any time: while its parent's
steward is awaited, or after the parent has ended. `NoActiveChildOfEndedParent` and
`ParentHeardAll` leave out these sub-agents (`revived`) and nothing else; what such a
one reports to a parent that is ending is deleted with the parent's inbox.
Neither speaks of a parent that fails or is withdrawn: the code does nothing about
its sub-agents, and nobody reads what they report.

Two limits are part of what was found. `ImplementsLife` is checked with one loop
per agent and tools that are there at once: with slow tools, archival can
retract a suspended agent whose resumption has begun, and the resumption then
revives it (`retracted` to `running`), which `AgentLife` forbids. And a second
loop of an agent takes messages that the first one should have had; only that
the two never work at the same time is claimed.

Fairness (`twins`). A loop that holds the thread goes on (weak fairness). Waits
are timers, and provider and steward calls return or time out; since other
loops may take the thread again and again, a loop at such a wait gets strong
fairness, which an event loop that serves its queue in turn provides. Nothing is
assumed of users, of what the model decides, or of the budget.

### `Schedules`

One row at a time: the code never looks at two together, and the handler is
serial, so another row can only delay this one. The trigger in the queue may be the
nag that follows one in hand, left behind or lost; one edit, one failed write and one
crash meet each other in every order. `FiresOnce` counts: every fire too many
(`repeats`) has a time that was fired and not advanced (`breaks`), by a crash or a
failed write. `OneTimeAnswered` excuses the one reminder whose delivery a crash or a
failed write cut short (`broken`). `AckedEnqueuesNothing` is what is left of the end
of a nag: the row enqueues nothing more, though a trigger that waits already is
delivered once more. With a proactive steward the code acts on the row it read before
it asked: `CancelledStaysSilent` speaks of a head whose triggers wait for no steward,
and `KeptUntilUserActs` of rows whose `cron` and `requiresAck` are as they were read.

Fairness. Time passes and the tick runs once the thread is free, again and again
(strong fairness for each row, since the head's code takes the thread in between). The
head's loop is treated more carefully: it goes on with what it has in hand and takes
some event if there is one (weak fairness, what `EveryEventSettled` says of it). That
a trigger is handled does not follow, and is not assumed: it may be coalesced or
reset, and the loop may stop for good. Hence `NagsUntilAcked` has
two premises, that at last there is a channel and that at last no trigger is lost, and
its conclusion allows for a stopped loop. The channel may come and go, writes fail and
the process die before that. A store that keeps failing is excluded by `MaxFaults`.
The property leaves out a reminder that an edit made to require acknowledgement
after it fired, which never gets a next time.

### `ToolLoop`

Four rounds fill a window of three and slide it once, and let a nudge reset it
with rounds to follow; the error triggers 2 and 1 are reached before and after
it. Two calls in a round give the interactions inside one: a success that
excuses a failure, a call repeated. All 7.7 million states are visited.

### `CliqChannel`

Two adapters are what a reload or a restart can set against each other; a third
one would have to wait for either to end. An answer of two messages in a chat of
three can leave one out, overlap another, and be older than one that came
before it. A job of two texts and a label is sent in part, again, and with a text
too many to be remembered; the user also writes one of these texts. Fairness is
not assumed and nothing eventual is claimed: an adapter whose start failed stays
deaf until the next reload or restart. Deadlock is not checked, since the
bounded chat comes to an end.

What the properties leave out the code does do. Labels of attachments are not
remembered and come back to the head as messages; so do texts that stand in the
chat twice, because the retry sends the chunks before the failed one again, and
each echo uses up its memory. A reload that meets another one before its `start()`
has ended retires the old adapter twice and leaves the other running.

### `HeadAdmin`

Two free ids let a head move away and another take its place, which is what two
requests can do; a third request would only repeat one of them. One end of the
process puts a restart before, between or after them, or inside one; the theorems
cover any number. Two rows, of
which one may be an agent's report or a schedule's trigger, are under two ids or
in each other's way. Ids other than the default one are alike (`MCSymmetry`). No
fairness is assumed. `NothingStranded` speaks of the time from a restart to the next
request: after a rename nobody polls the new id until the process is restarted. It also
says that a lock is held only while an archival of that loop is under way, which is what
`releaseArchivalLock` at startup is for.

### `RingRunner`

Two overlapping calls are the finding. The module has no passing run: apart from
the finding, what holds of the ring runner is little more than its guards.

### Mutants

Each property has a mutant in `PROJECT.json`: a version of one definition with a
plausible mistake (a claim that forgets the head, retries without end, a
recovery that revives failures, an acknowledgement left out) under which TLC
finds the property violated. Mutants are defined just before the definition
they vary, and nothing uses them.

## 9. Proofs

### `ActivationLoop`

`ActivationLoopProofs` assumes only `ConstantsAssumption`: the default head is a
head and the numbers are natural numbers. It proves, for all of them,

- `TypeCorrect`: `Spec => []TypeOK`;
- `RowsHeldByOwner`: `Spec => []HeldByOwner`;
- `LedgerRefined`: `Spec => ImplementsLedger`, the refinement of `EventLedger`;
- `OutcomesFinal`: `Spec => SettledForever`, from the refinement.

The argument is one idea. The table is updated by row id with no test of the old
status, so `HeldByOwner` (what a loop has in hand belongs to its head, is still
`processing` or was deleted, and is in hand once) is what makes every update
legal. It is not inductive alone: one must know that a loop past its claim has a
primary row (`BusyHasPrimary`), that the next row to be inserted is not yet in
the table (`RowsInOrder`), and that a dead process holds nothing (`DeadIsIdle`,
needed when a restart moves all `processing` rows back to `pending`). `IInv` is
their conjunction; `Invariance` proves it with `DeadIsIdle`. Lemmas
`StatusStep`, `SettleStep`, `QuietStep`, `InsertStep` and `TableStep` say what an
action of each shape preserves, and there is one lemma per action on top.

`ActivationHistoryProofs` builds on it, from the same assumption, and proves

- `DoneIsHandled`: `Spec => []DoneMeansHandled`;
- `MessagesOncePerLife`: `Spec => []AppendedOncePerLife`;
- `RidersInjectedOnce`: `Spec => []CoalescedOnce`;
- `InArrivalOrder`: `Spec => ArrivalOrder`, an action property;
- `StrandedWithReason`: `Spec => []StrandedForAReason`. Where the relay steward is
  off and no slash command arrives, as in the run `heads`, neither reason exists, so
  no row is stranded there.

Its invariant `History` bounds how often an event's text was appended by where
the event is (`RowSound`): a message that is pending, or whose process is dead,
was appended by earlier lives only; a background event that was never primary is
not injected until it is settled, since both happen in one transaction. For a row
in a loop's hands, `HeldSound` says that it was not appended in this life, and
`PrimarySound` that the loop remembers its primary message in `appendedEventIds`
and is past the handler only if the event had its effect. A requeue after a
crash then keeps the bounds, because it starts a new life.

The order of arrival needs to know how a loop's rows lie in the queue (`Arrivals`):
what a batch still holds is older than every pending message of its head (`Queued`),
which no step but an insert can add to (`Settles`), and a loop holds rows beside its
primary only in three places (`Placed`); a batch is appended lowest row first.

For `StrandedWithReason` every step of a loop keeps a row in hand, settles it, or
lets it go in one of the two ways (`LoopTracks`), and `Boot` returns what a crash
left. A reason must then stay one: of a row that a loop does not have in hand and
that does not wait, no loop takes notice (`LeftAlone`), and the table only grows
(`TableExtends`). That a command which throws is left behind with the rest of its
batch, although `~reset` may have emptied the table meanwhile, needs `Together`:
`~reset` deletes all that a loop holds or nothing of it.

### `AgentRunner`

`AgentRunnerProofs` assumes `ConstantsAssumption` and proves, for any agents, any
number of loops of one agent, and tools that wait or do not,

- `TypeCorrect`: `Spec => []TypeOK`;
- `OneLoopWorks`: `Spec => []OneActiveLoop`;
- `OutcomesTold`: `Spec => []OutcomeTold`.

Nothing in the code says that one loop of an agent works at a time; it follows
from the order of things. An answer (`signal`) is only written for an agent that
has ended its turn (`SignalForIdle`); a loop that works on such an agent has only
its report and clean-up left and goes through them without yielding
(`EndedLoopsFinish`); a loop can leave its wait only by an answer, and the one
that takes it empties the inbox, so that a second finds none. `AwakeAtWork` says
that working loops are not in their wait, `UnbornAtRest` that an agent has no
loops before its spawn. `OutcomeTold` needs that an outcome not yet told has a
loop about to tell it (`OutcomeOnItsWay`). `IInv` is the conjunction;
`InvariantHolds` proves it action by action.

`AgentLifeProofs` assumes in addition `OneLoop`: one loop for each agent, and tools
that are there at once (`MaxTwins = 1`, `SlowTools = FALSE`, as in the run `agents`).
The refinement needs it: while `resumeSuspended()` waits for an answered agent's
tools, the archival can withdraw the agent, and the loop then runs it again. Under it, for any agents, messages and
crashes, it proves

- `LifeRefined`: `Spec => ImplementsLife`;
- `ParentsEndLast`: `Spec => []NoActiveChildOfEndedParent`;
- `ParentsHear`: `Spec => []ParentHeardAll`.

`Solo` ties the loop to the row (`LoopSound`): at work means running (or a table that
was cleared under it); waiting for an answer means suspended without an answer in
the inbox, or withdrawn in the table alone; a report still to come means a row
that nobody was told of. Each write of a row is then one step of `AgentLife`, or
writes what was there. `Family` adds that a loop at its steward, or with its result
to report, has sub-agents that are not at work and do not report (`EndSound`), and
has read what they did report, but for those that the head continued since the loop looked at
them (`revived`). Besides the head only the tools of the parent's own loop can get them
going again (`Rises`), and that loop is busy ending.

### `Schedules`

`SchedulesProofs` assumes `ConstantsAssumption` and `NoRowAssumption` (the value
for a missing row is not a row) and proves, for any schedules, queue, number of
edits, failed writes and crashes,

- `TypeCorrect`, `CancelledSilent`, `TimesFireOnce`, `OneTimeReminderAnswered`:
  the run's invariants;
- `KeptUntilActed`: `Spec => KeptUntilUserActs`, and `AckedSilent`:
  `Spec => AckedEnqueuesNothing`, two action properties.

Ids are never used twice, so a missing row names whoever deleted it
(`RemoverKnown`); from the look at the row to the delivery a head that asks no
steward does not yield (`OnlyProactiveDecides`); a time that has fired is still due
only if the row could not be advanced, and each such break is one more fire at most
(`FiredIsBreak`); a one-time reminder whose row the handler deleted has its answer or
is being delivered (`AnswerOnItsWay`); the trigger in hand is in the queue unless that was
emptied (`HandledIsQueued`, which keeps the count natural). For `AckedSilent` a second invariant says that an
acknowledged row is not due (`QuietRows`): whatever moves its time ahead of the
cron ends the quiet.

### `CliqChannel`

`CliqChannelProofs` assumes `BoundsAssumption` and `JobsAssumption` and proves, for any
number of adapters, messages, sends, reloads and crashes and any size of answer,

- `MessagesHandedOnce`: `Spec => []HandedOnce`;
- `HistoryKeptOut`: `Spec => []HistoryStaysOut`;
- `SkippedWithReason`: `Spec => []SkippedForAReason`;
- `EchoesKeptOut`: `Spec => []EchoesStayOut`;
- `TypeCorrect`: `Spec => []TypeOK`.

Messages are identified by rows that a pruning deletes, by time of marking and
not by age, while old answers may still be on their way. The invariant is that a message the
adapters are done with is *settled*: it has its row, or is too old for every
answer still to be read. What makes a pruning safe is `Ordered`: a message marked
later than `i` is at most `Window + Lag` older, because it came with an answer
asked for at most `Lag` messages before. So a row leaves the table only when
`Keep` others, all younger than `i - Window - Lag`, fill it, and with
`Keep >= 2 * (Window + Lag) - 1` message `i` is then out of reach (`PrunedRows`
counts them). `SettledStays` says that every step keeps messages settled,
`FreshUnsettled` that only others are handed over. In the run the table holds
all its rows; the theorem is what covers pruning (500 rows, answers of 20).

That a skipped message has a reason follows from one step: whoever marks an answer
also hands over, downloads or recognises each of its messages that says anything, and what a text is
recognised by was said (`Sound`). A table that loses a row cannot break the property,
which speaks of rows.

`Echo` is the invariant for the assistant's own posts. A text is remembered before it is
posted (`Announced`), and from then on one of these holds (`Remembered`): the adapter
that posted it remembers it, or is off, or forgot it to make room; the message is
settled, so that nobody will take it for new; or its text stands in the chat twice.
The last case is where one echo uses up the memory that the other would need. For a
reload it is also needed that only adapters that were constructed send and post, and that the
next one is new (`Started`, `Introduced`).

### `ToolLoop`

`ToolLoopProofs` assumes `ConstantsAssumption` (the triggers, the round limit and
the size of a round are positive) and proves, for any calls, rounds and triggers,

- `TypeCorrect`: `Spec => []TypeOK`;
- `SuspectedExactly`: `Spec => []SuspectsExactly`;
- `SpinnersStopped`: `Spec => []SpinnerStopped`;
- `ExplorersUndisturbed`: `Spec => []ExplorationUndisturbed`, for triggers above
  one. The defaults are 3 and 2 (`tool-loop.ts:256`); a trigger of one suspects the
  very first round, and the property is then false.

The detector sees one round at a time and forgets; the properties are about the whole
record. `Detecting` ties them together: the window is the last rounds since the nudge,
newest first (`Tracks`), and each counter is `FailuresInARow` since then. `WindowTracks`
and `CountErrors` say that one round more keeps this; the latter goes through the
results of the round one by one, since a call that a round repeats counts twice.
`Asking` says that the steward is asked if the detector is alarmed and only then, which
with `SuspicionFacts` gives `SuspectsExactly`. `Stopping` bounds how long an agent has
been failing by its counter, before the nudge (at most `ErrorTrigger`) and after it,
which resets the counter but not the record: hence the sum of both triggers in
`SpinnerStopped`.

### Recursion in the proofs

Two proofs are about what a recursive function computes: `Errors` and `Without`. Induction over a predicate is not available to the provers used here,
but a set of natural numbers that is not empty has a smallest element, which the
well-foundedness of `<` gives (`Smallest`), so a counterexample to what is to be shown
of every index is the smallest one (`UpTo`). That the recursive functions exist at all is
shown in the same way (`CountExists`, `LeftExists`). Definitions that the proofs do not
go through, such as `SelectSeq` and folds, are not used in these modules.

### `HeadAdmin`

`HeadAdminProofs` assumes `ConstantsAssumption` only (no head has the number of
`Nobody`, and the default id is an id) and proves all the invariants of the run, for
any ids, agents and schedules and any number of rows, requests and restarts:
`TypeCorrect`, `DataUnderHead`, `HeadsKeptApart`, `FreeIdsClean`, `NoneStranded`
and `DeadOnesReaped`.

The inductive invariant has three parts. `Control` is about the process: heads have
one id each (`HeadsDistinct`), a request between two of its writes names a configured
head and, when it renames, an id that is still free (`RequestKnown`); before a request is
made the loops are those of the configured heads (`LoopsKnown`); no agent is alive while heads
are set up (`AgentsKnown`, `OnlyDeadReaped`). `Storage` is about what lies under
every id. `DataFollowsHead` says nothing while a request is under way, so `DataWithHead`
speaks of the head that `Answers` under an id, which during a rename is the head
about to have it. `LoopsOwn` says that of the loops only that of its own head can reach a row
that is not astray; it gives `NoCrossTalk`. `CleanIds` says that ids
without a head are clean, but for the one a rename is moving data to, and
`OriginEmpty` that a request under way has left nothing under the id it takes away.
`InHand` says that after a restart a row under an id that has a loop is marked as
processing only if that loop has it in hand. `LocksTrue` says the same of the archival
locks: startup releases each before any loop is started, and from then on until the
first request a lock is held for just one archival.

### Only model-checked

Every safety invariant and every action property of the passing runs is proved.
Liveness (`EveryEventSettled`, `CancelEnds`, `AnswerResumes`, `NagsUntilAcked`)
under fairness is out of the prover's reach. `ImplementsLife` and what rests on it
are proved under the assumptions named above, and false without them.

## 10. Where the code and its documentation disagree

- **Triggers lost by coalescing** (`triggers`). A background event claims every
  pending row that is not a user message, including schedule and sensor
  triggers, and acknowledges them although `injectEvent` does nothing with them.
  `docs/internals/tasks-and-scheduling.md:40` says triggers are picked up and
  handled.
- **Primary events injected twice** (`duplicate`). The comment at
  `src/head/activation.ts:745` says injection and ack share a transaction so
  that no duplicates arise; the primary's ack does not, so a crash before it, or
  a retry after a provider error, injects again. Coalesced rows are safe
  (`CoalescedOnce`).
- **Instructions lost at the end** (`agents_lost`). `docs/overview.md:11` says that
  instructions are relayed to a running agent. One that arrives while the
  completion steward is awaited is accepted and then deleted with the inbox. A
  sub-agent's result cannot be lost in the same way (`ParentHeardAll`), since the
  steward is asked only when no child is active, unless the head continues that
  sub-agent meanwhile.
- **Two starts of a ring** (`ring_twice`). `src/ring/runner.ts:219` calls a second
  `start()` a no-op. During the first one's requests it is not, and one poll timer
  is left that no `stop()` clears.

No document speaks of it, but a live process leaves rows in `processing`, where
nothing looks for them until the next restart: a suppressed primary event leaves
the other coalesced rows there (`activation.ts:703` acknowledges the suppressed
ones only), and a slash command that throws inside a batch leaves what remains of
the batch, itself included. `StrandedForAReason` says that nothing else does.

Five more were met on the way and are in the models' behaviours, without a run of
their own:

- A nag that waits in the queue while its reminder is acknowledged is
  delivered nevertheless and marks the reminder as pending again, where
  `docs/internals/tasks-and-scheduling.md:78` says that it re-fires *until* it is
  acknowledged (`Schedules`; one-time reminders are safe, see `CancelledStaysSilent`).
- A write of the tick that fails after the enqueue leaves the row due
  (`scheduler/index.ts:138`), so the next tick fires it again, without a crash.
- A rename moves messages, queue rows and app state, but no schedule
  (`dashboard/routes/heads.ts:413`). The schedules go on firing for the old id, which
  no head has, or which another head gets later; `left` in `HeadAdmin` marks such
  ids. `docs/internals/tasks-and-scheduling.md:24` says that each schedule is
  handled by its head. PATCH of a schedule refuses to change its head.
- The reaping at startup asks for all agents that are marked as running
  (`index.ts:367`), although the comment calls it per-head: the first head is told
  of the agents of all others, and theirs are not.
- After a crash between the two writes of a rename the data are under the new id
  and the head under the old one. The next startup writes an archival lock for the
  old id, so that the same rename then fails on the key that is already there. An
  archival that ends after a rename leaves the same key under the id that is free by
  then (`activation.ts:1498`), and a rename of another head to that id fails likewise.

## 11. Not modelled, and what is left

The map covers the code that decides. Most of the repository's lines are
elsewhere: dashboard pages, HTTP routes, prompts, tool schemas, evaluation
scripts, adapters to chat and model services. They format, validate and pass on;
a model of them would repeat the text of the program, so the share of mapped
lines stays small by design.

Left for good: what a model answers, message history and its compaction, topic
memory, apps, MCP, skills, identity files, doctor, configuration, migrations,
the cron calculator (only that a next time is ahead), the dashboard's emergency
stop (`emergencyStop`, `cancelAllActive`: every active agent is marked and the
process ends), the other chat adapters, `AgentRunner.signal()` and
`checkStatus()` (nothing calls them), `~resetthedatabase...` (`~reset` and
`Deletes` together).

Left to do, in order of importance:

1. Results that are fanned out to several heads.
2. Thresholds and their periods; the wake latch without the poll.
3. The pure algorithms (output cap, message splitting, work-summary eviction) as
   operators checked against reference definitions.
