--------------------------- MODULE ActivationLoop ---------------------------
(***************************************************************************)
(* The head activation loops and the queue_events table they share:        *)
(* src/src/head/activation.ts over src/src/db/queue.ts.  One loop per head *)
(* runs in a single JavaScript thread, so loops, channel callbacks and     *)
(* commands interleave exactly at the awaits; every action below is the    *)
(* code between two awaits.  SQLite statements commit one by one, so a     *)
(* crash is possible between any two of them that are not in a             *)
(* transaction.                                                            *)
(***************************************************************************)
EXTENDS Naturals, FiniteSets

CONSTANTS
  Heads,          \* ids of the configured heads
  DefaultHead,    \* the headId that enqueue() falls back to
  Inputs,         \* kinds of event the outside may enqueue
  RelaySteward,   \* config.scheduledRelayStewardEnabled
  ServerRetries,  \* retries after a provider outage (3 in the code)
  MaxRows,        \* bound: events ever inserted
  MaxCrashes      \* bound: times the process may die

Background == {"agent_event", "background_completed", "schedule_trigger"}
Kinds == {"user_message", "command"} \cup Background

ASSUME ConstantsAssumption ==
  /\ DefaultHead \in Heads
  /\ Inputs \subseteq Kinds
  /\ RelaySteward \in BOOLEAN
  /\ ServerRetries \in Nat \ {0}
  /\ MaxRows \in Nat
  /\ MaxCrashes \in Nat

\* rowid order, which is also arrival order
Rows == 1 .. MaxRows
NoRow == 0

Priority == [k \in Kinds |-> CASE k \in {"user_message", "command"} -> 100
                               [] k \in {"agent_event", "background_completed"} -> 30
                               [] k = "schedule_trigger" -> 10]

\* The event kinds that injectEvent() writes into the head's history.
Injectable == {"agent_event", "background_completed"}

\* event.type of a slash command is also 'user_message'
FromUser == {"user_message", "command"}

Lifecycle == {"none", "pending", "processing", "done", "failed", "gone"}

PCs == {"idle", "blocked", "command", "trigger", "stewards", "llm", "batch",
        "rebatch", "deliver", "ack", "backoff", "apology"}

\* Which call of handleEvent() for the same event is running: the first, the
\* one after a rate limit, or the i-th after a server error.
First == 0
AfterRateLimit == 1
AfterOutage(i) == 1 + i
Stages == First .. AfterOutage(ServerRetries)

\* bound: appends of one event counted; more than one life can explain
SeenCap == MaxCrashes + 2

Errors == {"rate_limit", "quota", "server_error", "other"}

VARIABLES
  rows,        \* number of events inserted so far
  kind,        \* row -> kind of its event
  headOf,      \* row -> head_id
  status,      \* row -> status column
  seen,        \* row -> times its text was appended to the messages table
  ran,         \* rows whose command or trigger handler ran to completion
  muted,       \* rows the relay steward suppressed
  led,         \* rows that were the primary event of an activation
  up,          \* the process is alive
  crashes,     \* times it died
  overBudget,  \* findBlockingThresholds() is not empty
  running,     \* head -> ActivationLoop.running
  pc,          \* head -> where its loop is suspended
  primary,     \* head -> row claimed by claimNext(), or NoRow
  held,        \* head -> further rows claimed by this activation
  stage,       \* head -> which attempt of handleEvent() is running
  appended     \* head -> appendedEventIds

table == <<rows, kind, headOf>>
ledger == <<seen, ran, muted, led>>
process == <<up, crashes, overBudget>>
memory == <<pc, primary, held, stage, appended>>
vars == <<table, status, ledger, process, running, memory>>

-----------------------------------------------------------------------------
(* The table *)

Pending(h) == {r \in Rows : status[r] = "pending" /\ headOf[r] = h}

\* Mutant of PendingBackground: the coalescing claim forgets AND head_id = @headId.
PendingBackgroundAnyHead(h) == {r \in Rows : status[r] = "pending" /\ kind[r] \in Background}

PendingBackground(h) == {r \in Pending(h) : kind[r] \in Background}
PendingUser(h) == {r \in Pending(h) : kind[r] \in FromUser}

\* UPDATE queue_events SET status = v WHERE id IN S: no test of the old
\* status, and no effect on a row that is not in the table.
SetStatus(S, v) ==
  [r \in Rows |-> IF r \in S /\ status[r] \notin {"none", "gone"} THEN v ELSE status[r]]

\* Mutant of IsNext: newest first within a priority.
IsNextNewestFirst(h, r) ==
  /\ r \in Pending(h)
  /\ \A q \in Pending(h) : \/ Priority[kind[q]] < Priority[kind[r]]
                           \/ Priority[kind[q]] = Priority[kind[r]] /\ r >= q

\* ORDER BY priority DESC, created_at ASC LIMIT 1
IsNext(h, r) ==
  /\ r \in Pending(h)
  /\ \A q \in Pending(h) : \/ Priority[kind[q]] < Priority[kind[r]]
                           \/ Priority[kind[q]] = Priority[kind[r]] /\ r <= q

\* INSERT ... VALUES (..., 'pending', @headId)
Insert(h, k) ==
  /\ rows < MaxRows
  /\ rows' = rows + 1
  /\ kind' = [kind EXCEPT ![rows + 1] = k]
  /\ headOf' = [headOf EXCEPT ![rows + 1] = h]
  /\ status' = [status EXCEPT ![rows + 1] = "pending"]

\* messages.append() of the text of the rows in S
Append(S) ==
  seen' = [r \in Rows |-> IF r \in S /\ seen[r] < SeenCap THEN seen[r] + 1 ELSE seen[r]]

InHand(h) == held[h] \cup ({primary[h]} \ {NoRow})

Init ==
  /\ rows = 0
  /\ kind = [r \in Rows |-> "user_message"]
  /\ headOf = [r \in Rows |-> DefaultHead]
  /\ status = [r \in Rows |-> "none"]
  /\ seen = [r \in Rows |-> 0]
  /\ ran = {}
  /\ muted = {}
  /\ led = {}
  /\ up = TRUE
  /\ crashes = 0
  /\ overBudget = FALSE
  /\ running = [h \in Heads |-> TRUE]
  /\ pc = [h \in Heads |-> "idle"]
  /\ primary = [h \in Heads |-> NoRow]
  /\ held = [h \in Heads |-> {}]
  /\ stage = [h \in Heads |-> First]
  /\ appended = [h \in Heads |-> {}]

-----------------------------------------------------------------------------
(* One activation *)

Goto(h, l) == pc' = [pc EXCEPT ![h] = l]

Entry(r) == CASE kind[r] = "user_message" -> "llm"
              [] kind[r] = "command" -> "command"
              [] kind[r] = "schedule_trigger" -> "trigger"
              [] kind[r] \in Injectable -> "stewards"

Coalesced(h, r) == IF kind[r] \in Injectable THEN PendingBackground(h) \ {r} ELSE {}

\* Mutant of Begin: no appendedEventIds, so a retry appends again.
BeginForgetful(h, r, claimed) ==
  /\ status' = SetStatus(claimed \cup Coalesced(h, r), "processing")
  /\ held' = [held EXCEPT ![h] = Coalesced(h, r)]
  /\ Append({r} \ {q \in Rows : kind[q] # "user_message"})
  /\ Goto(h, Entry(r))
  /\ UNCHANGED appended

\* Mutant of Begin: coalesced rows are read but not marked 'processing'.
BeginUnclaimed(h, r, claimed) ==
  /\ status' = SetStatus(claimed, "processing")
  /\ held' = [held EXCEPT ![h] = Coalesced(h, r)]
  /\ Append({r} \ (appended[h] \cup {q \in Rows : kind[q] # "user_message"}))
  /\ Goto(h, Entry(r))
  /\ UNCHANGED appended

\* handleEvent() up to its first await, for primary row r: a user message is
\* appended to the history once per process; a background event claims every
\* other pending background event of the head.
Begin(h, r, claimed) ==
  LET fresh == kind[r] = "user_message" /\ r \notin appended[h]
  IN /\ status' = SetStatus(claimed \cup Coalesced(h, r), "processing")
     /\ held' = [held EXCEPT ![h] = Coalesced(h, r)]
     /\ Append(IF fresh THEN {r} ELSE {})
     /\ appended' = IF fresh THEN [appended EXCEPT ![h] = @ \cup {r}] ELSE appended
     /\ Goto(h, Entry(r))

\* processOne(): claimNext(), the threshold check, then handleEvent().
Claim(h) ==
  /\ running[h] /\ pc[h] = "idle"
  /\ ~overBudget
  /\ \E r \in Rows :
       /\ IsNext(h, r)
       /\ primary' = [primary EXCEPT ![h] = r]
       /\ led' = led \cup {r}
       /\ Begin(h, r, {r})
  /\ UNCHANGED <<table, ran, muted, process, running, stage>>

\* processOne() over budget: the row is claimed and released, a notice is
\* sent (the await), and the loop stops.
ClaimBlocked(h) ==
  /\ running[h] /\ pc[h] = "idle"
  /\ overBudget
  /\ Pending(h) # {}
  /\ Goto(h, "blocked")
  /\ UNCHANGED <<table, status, ledger, process, running, primary, held, stage, appended>>

StopBlocked(h) ==
  /\ pc[h] = "blocked"
  /\ Goto(h, "idle")
  /\ running' = [running EXCEPT ![h] = FALSE]
  /\ UNCHANGED <<table, status, ledger, process, primary, held, stage, appended>>

\* runCommand() or handleScheduleTrigger() returns; a reminder that fires does
\* so as a new message to its own head.
HandlerDone(h) ==
  /\ pc[h] \in {"command", "trigger"}
  /\ ran' = ran \cup {primary[h]}
  /\ \/ UNCHANGED <<table, status>>
     \/ pc[h] = "trigger" /\ Insert(h, "user_message")
  /\ Goto(h, "ack")
  /\ UNCHANGED <<seen, muted, led, process, running, primary, held, stage, appended>>

\* The completions the relay steward may refuse to surface.
Verdicts(h) ==
  IF RelaySteward
  THEN SUBSET {r \in InHand(h) : kind[r] = "background_completed"}
  ELSE {{}}

\* The primary event is suppressed: only the suppressed coalesced rows are
\* acknowledged before handleEvent() returns.
Suppress(h) ==
  /\ pc[h] = "stewards"
  /\ \E S \in Verdicts(h) :
       /\ primary[h] \in S
       /\ muted' = muted \cup S
       /\ status' = SetStatus(held[h] \cap S, "done")
  /\ held' = [held EXCEPT ![h] = {}]
  /\ Goto(h, "ack")
  /\ UNCHANGED <<table, seen, ran, led, process, running, primary, stage, appended>>

\* Mutant of Inject: coalesced rows are acknowledged but not injected.
InjectPrimaryOnly(h) ==
  /\ pc[h] = "stewards"
  /\ Append({primary[h]})
  /\ status' = SetStatus(held[h], "done")
  /\ held' = [held EXCEPT ![h] = {}]
  /\ Goto(h, "llm")
  /\ UNCHANGED <<table, ran, muted, led, process, running, primary, stage, appended>>

\* Mutant of Inject: the acknowledgement of coalesced rows is left for later.
InjectUnacked(h) ==
  /\ pc[h] = "stewards"
  /\ Append({r \in InHand(h) : kind[r] \in Injectable})
  /\ held' = [held EXCEPT ![h] = {}]
  /\ Goto(h, "llm")
  /\ UNCHANGED <<table, status, ran, muted, led, process, running, primary, stage, appended>>

\* One transaction: every coalesced row is injected (unless suppressed) and
\* acknowledged, and the primary is injected; its own row is not touched.
Inject(h) ==
  /\ pc[h] = "stewards"
  /\ \E S \in Verdicts(h) :
       LET injected == {r \in InHand(h) \ S : kind[r] \in Injectable}
       IN /\ primary[h] \notin S
          /\ muted' = muted \cup S
          /\ Append(injected)
  /\ status' = SetStatus(held[h], "done")
  /\ held' = [held EXCEPT ![h] = {}]
  /\ Goto(h, "llm")
  /\ UNCHANGED <<table, ran, led, process, running, primary, stage, appended>>

\* assemble() and runToolLoop() return.
Answer(h) ==
  /\ pc[h] = "llm"
  /\ Goto(h, IF kind[primary[h]] = "user_message" THEN "batch" ELSE "deliver")
  /\ UNCHANGED <<table, status, ledger, process, running, primary, held, stage, appended>>

\* claimAllPendingUserMessages(): fold what arrived during the LLM call.
BatchClaim(h) ==
  /\ pc[h] = "batch" /\ held[h] = {}
  /\ held' = [held EXCEPT ![h] = PendingUser(h)]
  /\ status' = SetStatus(PendingUser(h), "processing")
  /\ Goto(h, IF PendingUser(h) = {} THEN "deliver" ELSE "batch")
  /\ UNCHANGED <<table, ledger, process, running, primary, stage, appended>>

InBatch(h, r) ==
  /\ pc[h] \in {"batch", "rebatch"}
  /\ r \in held[h]
  /\ \A q \in held[h] : r <= q

\* The next buffered message joins the history and its row is acknowledged.
BatchAppend(h) ==
  /\ \E r \in held[h] :
       /\ InBatch(h, r)
       /\ kind[r] = "user_message"
       /\ Append({r})
       /\ status' = SetStatus({r}, "done")
       /\ held' = [held EXCEPT ![h] = @ \ {r}]
  /\ Goto(h, "rebatch")
  /\ UNCHANGED <<table, ran, muted, led, process, running, primary, stage, appended>>

\* A buffered command runs instead of joining the conversation.
BatchCommand(h) ==
  /\ \E r \in held[h] :
       /\ InBatch(h, r)
       /\ kind[r] = "command"
       /\ ran' = ran \cup {r}
       /\ status' = SetStatus({r}, "done")
       /\ held' = [held EXCEPT ![h] = @ \ {r}]
  /\ UNCHANGED <<table, seen, muted, led, process, running, pc, primary, stage, appended>>

\* Every buffered row is folded in and at least one was a message: the tool
\* loop runs again.
BatchRerun(h) ==
  /\ pc[h] = "rebatch" /\ held[h] = {}
  /\ Goto(h, "llm")
  /\ UNCHANGED <<table, status, ledger, process, running, primary, held, stage, appended>>

\* The reply is sent and the stewards run; one may enqueue a nudge, and does
\* so without a head id.
Deliver(h) ==
  /\ pc[h] = "deliver"
  /\ \/ UNCHANGED <<table, status>>
     \/ Insert(DefaultHead, "user_message")
  /\ Goto(h, "ack")
  /\ UNCHANGED <<ledger, process, running, primary, held, stage, appended>>

\* handleEvent() returned: ack(rowId), and the loop goes round.
Ack(h) ==
  /\ pc[h] = "ack"
  /\ status' = SetStatus({primary[h]}, "done")
  /\ primary' = [primary EXCEPT ![h] = NoRow]
  /\ stage' = [stage EXCEPT ![h] = First]
  /\ Goto(h, "idle")
  /\ UNCHANGED <<table, ledger, process, running, held, appended>>

-----------------------------------------------------------------------------
(* Errors and retries *)

\* Mutant of Following: outages are retried without end.
FollowingForever(s, err) ==
  CASE err = "rate_limit" /\ s = First -> AfterRateLimit
    [] err = "server_error" -> AfterOutage(1)
    [] OTHER -> First

\* Mutant of Following: one retry too many after an outage.
FollowingOneMore(s, err) ==
  CASE err = "rate_limit" /\ s = First -> AfterRateLimit
    [] err = "server_error" -> IF s = First THEN AfterOutage(1) ELSE s + 1
    [] OTHER -> First

\* The attempt that follows an error: one more after a rate limit that is
\* short enough, up to three more after server errors, otherwise none (First).
Following(s, err) ==
  CASE err = "rate_limit" /\ s = First -> AfterRateLimit
    [] err = "server_error" /\ s \in {First, AfterRateLimit} -> AfterOutage(1)
    [] err = "server_error" /\ s \in AfterOutage(1) .. AfterOutage(ServerRetries - 1) -> s + 1
    [] OTHER -> First

\* handleEvent() throws: whatever it had claimed beside the primary is
\* forgotten.  The primary is retried after a wait, or failed; a failed user
\* message is answered with an apology.
Throw(h, err) ==
  LET next == Following(stage[h], err)
  IN /\ held' = [held EXCEPT ![h] = {}]
     /\ IF next = First
        THEN /\ status' = SetStatus({primary[h]}, "failed")
             /\ primary' = [primary EXCEPT ![h] = NoRow]
             /\ stage' = [stage EXCEPT ![h] = First]
             /\ Goto(h, IF kind[primary[h]] \in FromUser THEN "apology" ELSE "idle")
        ELSE /\ stage' = [stage EXCEPT ![h] = next]
             /\ Goto(h, "backoff")
             /\ UNCHANGED <<status, primary>>

\* A provider call, a command handler or a spawn fails.  The trigger handlers
\* catch provider errors themselves.
HandlerFails(h) ==
  /\ pc[h] \in {"llm", "command", "trigger"}
  /\ \E err \in Errors :
       /\ pc[h] = "trigger" => err = "other"
       /\ Throw(h, err)
  /\ UNCHANGED <<table, ledger, process, running, appended>>

BatchCommandFails(h) ==
  /\ \E r \in held[h] : InBatch(h, r) /\ kind[r] = "command"
  /\ \E err \in Errors : Throw(h, err)
  /\ UNCHANGED <<table, ledger, process, running, appended>>

Retry(h) ==
  /\ pc[h] = "backoff"
  /\ Begin(h, primary[h], {})
  /\ UNCHANGED <<table, ran, muted, led, process, running, primary, stage>>

Apologise(h) ==
  /\ pc[h] = "apology"
  /\ Goto(h, "idle")
  /\ UNCHANGED <<table, status, ledger, process, running, primary, held, stage, appended>>

-----------------------------------------------------------------------------
(* The surroundings *)

\* A channel, an agent, the scheduler, a webhook or another head enqueues.
Enqueue(h, k) ==
  /\ up
  /\ Insert(h, k)
  /\ UNCHANGED <<ledger, process, running, memory>>

\* Spend crosses a block threshold, or the threshold or the period moves.
BudgetMoves ==
  /\ up
  /\ overBudget' = ~overBudget
  /\ UNCHANGED <<table, status, ledger, up, crashes, running, memory>>

\* ~stop and ~restart end the loop; the process exits soon after.
Stop(h) ==
  /\ up /\ running[h]
  /\ crashes < MaxCrashes
  /\ running' = [running EXCEPT ![h] = FALSE]
  /\ UNCHANGED <<table, status, ledger, process, memory>>

\* ~reset, which a channel runs beside the queue: the whole table is deleted.
Reset ==
  /\ up
  /\ status' = SetStatus(Rows, "gone")
  /\ UNCHANGED <<table, ledger, process, running, memory>>

Forget ==
  /\ running' = [h \in Heads |-> FALSE]
  /\ pc' = [h \in Heads |-> "idle"]
  /\ primary' = [h \in Heads |-> NoRow]
  /\ held' = [h \in Heads |-> {}]
  /\ stage' = [h \in Heads |-> First]
  /\ appended' = [h \in Heads |-> {}]

Die ==
  /\ up /\ crashes < MaxCrashes
  /\ up' = FALSE
  /\ crashes' = crashes + 1
  /\ Forget
  /\ UNCHANGED <<table, status, overBudget>>

Crash == Die /\ UNCHANGED ledger

\* The process dies between the two statements of a batched message: it is
\* in the history and its row is not acknowledged.
CrashMidBatch(h) ==
  /\ Die
  /\ \E r \in held[h] :
       /\ InBatch(h, r)
       /\ kind[r] = "user_message"
       /\ Append({r})
  /\ UNCHANGED <<ran, muted, led>>

\* Mutant of Stale: whatever did not succeed is requeued.
StaleUnlessDone == {r \in Rows : status[r] \in {"processing", "failed"}}

\* The rows requeueStale(head.id) resets, over all heads.
Stale == {r \in Rows : status[r] = "processing" /\ headOf[r] \in Heads}

\* Startup: requeueStale(head.id) for each head, then every loop starts.
Boot ==
  /\ ~up
  /\ up' = TRUE
  /\ status' = SetStatus(Stale, "pending")
  /\ running' = [h \in Heads |-> TRUE]
  /\ UNCHANGED <<table, ledger, crashes, overBudget, memory>>

LoopStep(h) ==
  \/ Claim(h) \/ ClaimBlocked(h) \/ StopBlocked(h)
  \/ HandlerDone(h) \/ Suppress(h) \/ Inject(h) \/ Answer(h)
  \/ BatchClaim(h) \/ BatchAppend(h) \/ BatchCommand(h) \/ BatchRerun(h)
  \/ Deliver(h) \/ Ack(h)
  \/ HandlerFails(h) \/ BatchCommandFails(h) \/ Retry(h) \/ Apologise(h)

Next ==
  \/ \E h \in Heads : LoopStep(h)
  \/ \E h \in Heads, k \in Inputs : Enqueue(h, k)
  \/ \E h \in Heads : Stop(h)
  \/ BudgetMoves
  \/ Reset
  \/ Crash
  \/ \E h \in Heads : CrashMidBatch(h)
  \/ Boot

Spec == Init /\ [][Next]_vars

\* Every await in a loop settles (provider calls, sends and waits all carry
\* timeouts) and the service manager restarts a dead process.
FairSpec == Spec /\ (\A h \in Heads : WF_vars(LoopStep(h))) /\ WF_vars(Boot)

-----------------------------------------------------------------------------
(* Properties *)

\* Every variable has its type.
TypeOK ==
  /\ rows \in 0 .. MaxRows
  /\ kind \in [Rows -> Kinds]
  /\ headOf \in [Rows -> Heads]
  /\ status \in [Rows -> Lifecycle]
  /\ seen \in [Rows -> 0 .. SeenCap]
  /\ ran \subseteq Rows
  /\ muted \subseteq Rows
  /\ led \subseteq Rows
  /\ up \in BOOLEAN
  /\ crashes \in 0 .. MaxCrashes
  /\ overBudget \in BOOLEAN
  /\ running \in [Heads -> BOOLEAN]
  /\ pc \in [Heads -> PCs]
  /\ primary \in [Heads -> Rows \cup {NoRow}]
  /\ held \in [Heads -> SUBSET Rows]
  /\ stage \in [Heads -> Stages]
  /\ appended \in [Heads -> SUBSET Rows]

\* ack() and fail() update a row by id whatever its status, so the queue is
\* sound only if a loop never has in hand a row that is not its own claim:
\* each row in hand belongs to that head and is still 'processing', or was
\* deleted under it by ~reset, and none is in hand twice.
HeldByOwner ==
  \A h \in Heads :
    /\ primary[h] \notin held[h]
    /\ \A r \in InHand(h) : headOf[r] = h /\ status[r] \in {"processing", "gone"}

\* A loop past its claim has a primary row.
BusyHasPrimary ==
  \A h \in Heads : pc[h] \notin {"idle", "blocked", "apology"} => primary[h] # NoRow

\* Rows above the counter are not in the table yet.
RowsInOrder == \A r \in Rows : r > rows => status[r] = "none"

\* A dead process runs nothing and remembers nothing.
DeadIsIdle ==
  ~up => \A h \in Heads : ~running[h] /\ pc[h] = "idle" /\ InHand(h) = {}

\* The inductive strengthening of HeldByOwner.
IInv == TypeOK /\ HeldByOwner /\ BusyHasPrimary /\ RowsInOrder

\* An event acknowledged as done had its effect: its text reached the history,
\* its command ran, or the relay steward chose to suppress it.  (Coalesced
\* schedule triggers are the exception; see TriggersRun.)
DoneMeansHandled ==
  \A r \in Rows :
    status[r] = "done" /\ kind[r] # "schedule_trigger" =>
      seen[r] > 0 \/ r \in ran \/ r \in muted

\* Retries and batching never append a user message twice in the life of one
\* process; only a restart can repeat it.
AppendedOncePerLife ==
  \A r \in Rows : kind[r] = "user_message" => seen[r] <= crashes + 1

\* A background event that only ever rode along with another one enters the
\* history at most once, crashes included: its injection and its
\* acknowledgement are one transaction.
CoalescedOnce ==
  \A r \in Rows : kind[r] \in Injectable /\ r \notin led => seen[r] <= 1

\* Done and failed are final: no retry, restart or late acknowledgement
\* revives an event or changes its outcome.
SettledForever ==
  [][\A r \in Rows :
       status[r] \in {"done", "failed"} => status'[r] \in {status[r], "gone"}]_vars

\* Messages of one head enter its history in the order they arrived: none is
\* appended while an earlier one still waits in the queue or in the batch.
ArrivalOrder ==
  [][\A q, r \in Rows :
       /\ q < r /\ headOf[q] = headOf[r]
       /\ kind[q] = "user_message" /\ kind[r] = "user_message"
       /\ seen'[r] > seen[r]
       => status'[q] # "pending" /\ q \notin held'[headOf[q]]]_vars

Ledger == INSTANCE EventLedger

\* The loops treat queue_events rows as the ledger promises.
ImplementsLedger == Ledger!Spec

\* A row that no loop of its head will settle before the next start
Stranded(r) == status[r] = "processing" /\ r \notin InHand(headOf[r])

\* A live process loses track of a row in two ways only: a background event that
\* was claimed along with one that the relay steward suppressed, and a message in a
\* batch in which a command threw, which leaves the command behind as well.
\* Retries, failures, other heads and ~reset strand nothing.
StrandedForAReason ==
  \A r \in Rows :
    up /\ Stranded(r) =>
      \/ /\ kind[r] \in Background
         /\ \E p \in muted \cap led : headOf[p] = headOf[r]
      \/ /\ kind[r] \in FromUser
         /\ \E c \in Rows : kind[c] = "command" /\ headOf[c] = headOf[r] /\ Stranded(c)

\* Every waiting event is settled as long as its head's loop runs and does not
\* lose track of it: no wait for the provider, no retry and no batch blocks
\* the loop for ever.
EveryEventSettled ==
  \A r \in Rows :
    status[r] = "pending" ~>
      status[r] \in {"done", "failed", "gone"} \/ Stranded(r) \/ ~running[headOf[r]]

-----------------------------------------------------------------------------
(* What the repository says and the code does not do *)

\* tasks-and-scheduling.md: a trigger the loop picks up is handled.
TriggersRun ==
  \A r \in Rows : kind[r] = "schedule_trigger" /\ status[r] = "done" => r \in ran

\* activation.ts on the injection transaction: no duplicate injections.
InjectedOnce == \A r \in Rows : kind[r] \in Injectable => seen[r] <= 1

=============================================================================
