------------------------------ MODULE Schedules ------------------------------
(***************************************************************************)
(* Schedules and reminders: the rows of the schedule store, the scheduler's *)
(* tick (src/src/scheduler/index.ts), a head's handling of the triggers it  *)
(* enqueues (handleScheduleTrigger in src/src/head/activation.ts), and what *)
(* users and agents do to the rows meanwhile.                               *)
(*                                                                          *)
(* Time is kept as whether a row's nextRun has come.  A trigger stays in    *)
(* the queue until it is handled to the end, so a restart handles it again, *)
(* unless it is coalesced with another event or the queue is emptied.       *)
(***************************************************************************)
EXTENDS Naturals, FiniteSets

CONSTANTS
  Schedules,   \* ids, one for every row that is ever created
  KindOf,      \* schedule -> its kind
  NoRow,
  NoSchedule,
  MaxRows,     \* bound: rows that are ever created
  MaxQueued,   \* bound: triggers of one schedule in the queue
  MaxEdits,    \* bound: changes that users make to rows
  MaxFaults,   \* bound: writes to the database that fail
  MaxCrashes   \* bound: times the process dies

Kinds == {"reminder", "task", "script"}

ASSUME ConstantsAssumption ==
  /\ KindOf \in [Schedules -> Kinds]
  /\ NoSchedule \notin Schedules
  /\ MaxRows \in Nat
  /\ MaxQueued \in Nat \ {0}
  /\ MaxEdits \in Nat
  /\ MaxFaults \in Nat
  /\ MaxCrashes \in Nat

NextRuns == {"never", "future", "due"}

\* The columns the code decides by; cron and ends say whether cron and endDate
\* are set, pending is ackPending.
Row == [cron : BOOLEAN, ack : BOOLEAN, ends : BOOLEAN, enabled : BOOLEAN,
        nextRun : NextRuns, pending : BOOLEAN]

ASSUME NoRowAssumption == NoRow \notin Row

\* Where the head is with the trigger it handles: at an await of the proactive
\* steward or of the agent's start, or about to do the next thing.
Places == {"none", "deciding", "spawning", "deliver", "finish"}

VARIABLES
  rows,       \* the store: schedule -> Row, or NoRow
  queued,     \* schedule -> its schedule_trigger events in the queue
  aside,      \* schedule -> those left in 'processing', which the next start requeues
  at,         \* where the head is
  handled,    \* the schedule whose trigger it handles, or NoSchedule
  held,       \* that trigger is still in the queue
  read,       \* the row as the handler read it
  proactive,  \* config.proactiveEnabled or proactiveShadow: a steward is asked
  reachable,  \* the head has a channel
  up,         \* the process is alive
  looping,    \* ActivationLoop.running: the head takes events
  edits,      \* changes by users so far
  crashes,    \* crashes so far
  faults,     \* writes that failed so far
  answered,   \* reminders that were delivered, or had a reason not to be (history)
  remover,    \* schedule -> who deleted its row (history)
  fired,      \* schedule -> the present nextRun was fired already (history)
  repeats,    \* schedule -> times that fired once more (history)
  breaks,     \* schedule -> times that it was fired and not advanced (history)
  quiet,      \* schedule -> acknowledged, and its cron time has not come (history)
  late,       \* schedules that were made ack-required after their creation (history)
  broken      \* schedules whose reminder was not delivered for a crash or a fault (history)

rowVars == <<rows, remover, fired, quiet, late>>
headVars == <<at, handled, held, read, answered>>
procVars == <<proactive, reachable, up, looping, crashes, broken>>
queueVars == <<queued, aside>>
tickVars == <<faults, repeats, breaks>>
vars == <<rowVars, headVars, procVars, queueVars, tickVars, edits>>

Removers == {"nobody", "unborn", "user", "ack", "handler"}

TypeOK ==
  /\ rows \in [Schedules -> Row \cup {NoRow}]
  /\ queued \in [Schedules -> Nat]
  /\ aside \in [Schedules -> Nat]
  /\ at \in Places
  /\ handled \in Schedules \cup {NoSchedule}
  /\ held \in BOOLEAN
  /\ read \in Row \cup {NoRow}
  /\ proactive \in BOOLEAN
  /\ reachable \in BOOLEAN
  /\ up \in BOOLEAN
  /\ looping \in BOOLEAN
  /\ edits \in Nat
  /\ crashes \in Nat
  /\ faults \in Nat
  /\ answered \in SUBSET Schedules
  /\ remover \in [Schedules -> Removers]
  /\ fired \in [Schedules -> BOOLEAN]
  /\ repeats \in [Schedules -> Nat]
  /\ breaks \in [Schedules -> Nat]
  /\ quiet \in [Schedules -> BOOLEAN]
  /\ late \in SUBSET Schedules
  /\ broken \in SUBSET Schedules
-----------------------------------------------------------------------------
(* The store *)

Exists(s) == rows[s] # NoRow
OneTime(row) == row # NoRow /\ ~row.cron

\* ScheduleStore.update() and its like do nothing for a row that is gone.
Write(s, row) ==
  /\ rows' = [rows EXCEPT ![s] = IF Exists(s) THEN row ELSE NoRow]
  /\ UNCHANGED remover

Remove(s, who) ==
  /\ rows' = [rows EXCEPT ![s] = NoRow]
  /\ remover' = [remover EXCEPT ![s] = IF Exists(s) THEN who ELSE @]

\* A new nextRun has not fired yet.
Rearmed(s) == fired' = [fired EXCEPT ![s] = FALSE]

\* JavaScript runs one thing at a time.
Free == up /\ at \notin {"deliver", "finish"}
-----------------------------------------------------------------------------
(* Users, their agents, the dashboard *)

Edit(s) == Free /\ edits < MaxEdits /\ edits' = edits + 1 /\ Exists(s)

untouched == <<late, headVars, procVars, queueVars, tickVars>>

\* A reminder has a time; a task made by an agent may have none, and a sensor's
\* first run is at once.
Create(s) ==
  /\ Free /\ remover[s] = "unborn"
  /\ Cardinality({t \in Schedules : remover[t] # "unborn"}) < MaxRows
  /\ \E cron, ack, ends \in BOOLEAN, n \in NextRuns :
        /\ n = "never" => KindOf[s] = "task" /\ ~cron /\ ~ack
        /\ rows' = [rows EXCEPT ![s] =
             [cron |-> cron, ack |-> ack, ends |-> ends, enabled |-> TRUE,
              nextRun |-> n, pending |-> FALSE]]
  /\ remover' = [remover EXCEPT ![s] = "nobody"]
  /\ UNCHANGED <<fired, quiet, edits, untouched>>

\* delete_schedule, cancel_reminder, DELETE, and the deletion of the head
Deletes(s) ==
  /\ Edit(s)
  /\ Remove(s, "user")
  /\ UNCHANGED <<fired, quiet, untouched>>

Enables(s) ==
  /\ Edit(s)
  /\ \E b \in BOOLEAN : Write(s, [rows[s] EXCEPT !.enabled = b])
  /\ UNCHANGED <<fired, quiet, untouched>>

\* A new cron expression points nextRun at its next time.
SetsCron(s) ==
  /\ Edit(s)
  /\ Write(s, [rows[s] EXCEPT !.cron = TRUE, !.nextRun = "future"])
  /\ Rearmed(s)
  /\ UNCHANGED <<quiet, untouched>>

\* PATCH of runAt moves nextRun, to the past if it says so.
SetsRunAt(s) ==
  /\ Edit(s)
  /\ \E n \in {"future", "due"} : Write(s, [rows[s] EXCEPT !.nextRun = n])
  /\ Rearmed(s)
  /\ quiet' = [quiet EXCEPT ![s] = FALSE]
  /\ UNCHANGED untouched

SetsEndDate(s) ==
  /\ Edit(s)
  /\ \E b \in BOOLEAN : Write(s, [rows[s] EXCEPT !.ends = b])
  /\ UNCHANGED <<fired, quiet, untouched>>

SetsAck(s) ==
  /\ Edit(s)
  /\ Write(s, [rows[s] EXCEPT !.ack = TRUE])
  /\ late' = late \cup {s}
  /\ UNCHANGED <<fired, quiet, headVars, procVars, queueVars, tickVars>>

\* Turning ack off while a nag is out puts the row back on its cron, on a runAt
\* that was moved ahead, or to rest.
ClearsAck(s) ==
  /\ Edit(s)
  /\ IF rows[s].pending
     THEN /\ \E n \in {"future"} \cup (IF rows[s].cron THEN {} ELSE {"never"}) :
                Write(s, [rows[s] EXCEPT !.ack = FALSE, !.pending = FALSE, !.nextRun = n])
          /\ Rearmed(s)
     ELSE Write(s, [rows[s] EXCEPT !.ack = FALSE]) /\ UNCHANGED fired
  /\ UNCHANGED <<quiet, untouched>>

\* Mutant of Acknowledges: the time of the next nag is left in place.
AcknowledgesAndNags(s) ==
  /\ Free /\ Exists(s)
  /\ KindOf[s] = "reminder" /\ rows[s].ack /\ rows[s].pending
  /\ IF rows[s].cron
     THEN /\ Write(s, [rows[s] EXCEPT !.pending = FALSE])
          /\ quiet' = [quiet EXCEPT ![s] = TRUE]
          /\ UNCHANGED fired
     ELSE Remove(s, "ack") /\ UNCHANGED <<fired, quiet>>
  /\ UNCHANGED <<edits, untouched>>

\* acknowledge_reminder: of the head that owns the reminder or another.  It
\* refuses a row that is not an ack-required reminder or has no nag out.
Acknowledges(s) ==
  /\ Free /\ Exists(s)
  /\ KindOf[s] = "reminder" /\ rows[s].ack /\ rows[s].pending
  /\ IF rows[s].cron
     THEN /\ Write(s, [rows[s] EXCEPT !.pending = FALSE, !.nextRun = "future"])
          /\ Rearmed(s)
          /\ quiet' = [quiet EXCEPT ![s] = TRUE]
     ELSE Remove(s, "ack") /\ UNCHANGED <<fired, quiet>>
  /\ UNCHANGED <<edits, untouched>>
-----------------------------------------------------------------------------
(* The scheduler *)

TimePasses(s) ==
  /\ Free /\ Exists(s) /\ rows[s].nextRun = "future"
  /\ Write(s, [rows[s] EXCEPT !.nextRun = "due"])
  /\ quiet' = [quiet EXCEPT ![s] = FALSE]
  /\ UNCHANGED <<fired, edits, untouched>>

Due(s) == Exists(s) /\ rows[s].enabled /\ rows[s].nextRun = "due"

\* A sensor is run at once, anything else goes through the head's queue.
Enqueue(s) ==
  /\ queued[s] < MaxQueued
  /\ queued' = [queued EXCEPT ![s] = IF KindOf[s] = "script" THEN @ ELSE @ + 1]

\* Mutant of Advance: a sensor enqueues nothing, so its one-time row stays armed.
AdvanceIfQueued(s) ==
  LET row == rows[s] IN
  IF row.ack \/ row.cron
  THEN Write(s, [row EXCEPT !.nextRun = "future"]) /\ Rearmed(s)
  ELSE IF KindOf[s] = "script"
  THEN UNCHANGED <<rows, remover>> /\ fired' = [fired EXCEPT ![s] = TRUE]
  ELSE Write(s, [row EXCEPT !.enabled = FALSE, !.nextRun = "never"]) /\ Rearmed(s)

\* Mutant of Advance: the one-time row is disabled before ack is looked at.
AdvanceForgetsNag(s) ==
  LET row == rows[s] IN
  /\ Write(s, IF row.cron THEN [row EXCEPT !.nextRun = "future"]
              ELSE [row EXCEPT !.enabled = FALSE, !.nextRun = "never"])
  /\ Rearmed(s)

\* The next nag, the next cron time or the end of the schedule; a one-time row
\* is kept for the head, disabled.
Advance(s) ==
  LET row == rows[s]
      off == [row EXCEPT !.enabled = FALSE, !.nextRun = "never"]
      on == [row EXCEPT !.nextRun = "future"]
  IN
  /\ Rearmed(s)
  /\ IF row.ack THEN Write(s, on)
     ELSE IF row.cron THEN Write(s, on) \/ (row.ends /\ Write(s, off))
     ELSE Write(s, off)

\* The trigger is enqueued; whether for a time that was fired already is recorded.
Fires(s) ==
  /\ Enqueue(s)
  /\ repeats' = [repeats EXCEPT ![s] = IF fired[s] THEN @ + 1 ELSE @]

\* The row is left as it is after it fired, so it is still due.
StaysDue(s) ==
  /\ fired' = [fired EXCEPT ![s] = TRUE]
  /\ breaks' = [breaks EXCEPT ![s] = @ + 1]
  /\ UNCHANGED rows

\* A write throws, which the tick logs and then goes on.
Fault == faults < MaxFaults /\ faults' = faults + 1

\* One due row of a tick.  A row is advanced also when nothing could be enqueued,
\* but for a one-time row.
Tick(s) ==
  /\ Free /\ Due(s)
  /\ \/ Fires(s) /\ Advance(s) /\ UNCHANGED <<faults, breaks>>
     \/ Fault /\ Fires(s) /\ StaysDue(s) /\ UNCHANGED remover
     \/ /\ Fault /\ KindOf[s] # "script"
        /\ \/ (rows[s].ack \/ rows[s].cron) /\ Advance(s)
           \/ UNCHANGED <<rows, remover, fired>>
        /\ UNCHANGED <<queued, repeats, breaks>>
  /\ UNCHANGED <<headVars, procVars, quiet, late, edits, aside>>
-----------------------------------------------------------------------------
(* The head handles a trigger *)

\* The trigger in hand stays in the queue until the end, unless ~reset empties it.
Goto(s, where) ==
  /\ at' = where /\ handled' = s
  /\ held' = (where # "none" /\ (at = "none" \/ held))

Took(s) == looping /\ at = "none" /\ queued[s] > 0

\* The reminder is done with.
Answer(s) == Goto(s, "finish") /\ answered' = answered \cup {s}

headRest == <<procVars, queueVars, tickVars, edits, fired, quiet, late>>

\* Mutant of Settle: whatever its kind, a reminder that fires is deleted.
SettleDeletes(s, row) == Remove(s, "handler")

\* What is written before a reminder is delivered: an ack-required one has a nag
\* out, a one-time one is deleted, and a repeating one gets its lastRun.
Settle(s, row) ==
  IF row.ack THEN Write(s, [rows[s] EXCEPT !.pending = TRUE])
  ELSE IF OneTime(row) THEN Remove(s, "handler")
  ELSE UNCHANGED <<rows, remover>>

\* Mutant of ReminderWithoutRow: the row is not looked at.
ReminderAnyway(s) ==
  /\ Took(s) /\ KindOf[s] = "reminder" /\ ~Exists(s)
  /\ Goto(s, "deliver")
  /\ UNCHANGED <<rows, remover, read, answered, headRest>>

ReminderWithoutRow(s) ==
  /\ Took(s) /\ KindOf[s] = "reminder" /\ ~Exists(s)
  /\ Goto(s, "finish")
  /\ UNCHANGED <<rows, remover, read, answered, headRest>>

\* Nobody to tell: an ack-required reminder waits for its next nag.
ReminderUnreachable(s) ==
  /\ Took(s) /\ KindOf[s] = "reminder" /\ Exists(s) /\ ~reachable
  /\ IF OneTime(rows[s]) /\ ~rows[s].ack THEN Remove(s, "handler")
                                         ELSE UNCHANGED <<rows, remover>>
  /\ Answer(s)
  /\ UNCHANGED <<read, headRest>>

\* Mutant of ReminderFires: only an ack-required reminder is enqueued.
ReminderFiresIfAck(s) ==
  /\ Took(s) /\ KindOf[s] = "reminder" /\ Exists(s) /\ reachable
  /\ rows[s].ack \/ ~proactive
  /\ Settle(s, rows[s])
  /\ Goto(s, IF rows[s].ack THEN "deliver" ELSE "finish")
  /\ UNCHANGED <<read, answered, headRest>>

ReminderFires(s) ==
  /\ Took(s) /\ KindOf[s] = "reminder" /\ Exists(s) /\ reachable
  /\ rows[s].ack \/ ~proactive
  /\ Settle(s, rows[s])
  /\ Goto(s, "deliver")
  /\ UNCHANGED <<read, answered, headRest>>

\* The steward is asked about a reminder that needs no acknowledgement, and about
\* any task.
Asks(s) ==
  /\ Took(s) /\ proactive
  /\ \/ KindOf[s] = "reminder" /\ Exists(s) /\ reachable /\ ~rows[s].ack
     \/ KindOf[s] = "task"
  /\ read' = rows[s]
  /\ Goto(s, "deciding")
  /\ UNCHANGED <<rows, remover, answered, headRest>>

Deciding(s, kind) == up /\ at = "deciding" /\ handled = s /\ KindOf[s] = kind

\* markSkipped() changes no column that matters here.
ReminderSkipped(s) ==
  /\ Deciding(s, "reminder")
  /\ IF OneTime(read) THEN Remove(s, "handler") ELSE UNCHANGED <<rows, remover>>
  /\ Answer(s)
  /\ read' = NoRow
  /\ UNCHANGED headRest

\* What was read before the steward was asked decides.
ReminderApproved(s) ==
  /\ Deciding(s, "reminder")
  /\ Settle(s, read)
  /\ Goto(s, "deliver")
  /\ read' = NoRow
  /\ UNCHANGED <<answered, headRest>>

\* The task is gone from the workspace.
TaskMissing(s) ==
  /\ Took(s) /\ KindOf[s] = "task"
  /\ Goto(s, "finish")
  /\ UNCHANGED <<rows, remover, read, answered, headRest>>

\* The steward said no, or the task has spent its monthly budget.
TaskSkipped(s) ==
  /\ Deciding(s, "task") \/ (Took(s) /\ KindOf[s] = "task" /\ ~proactive)
  /\ Goto(s, "finish")
  /\ read' = NoRow
  /\ UNCHANGED <<rows, remover, answered, headRest>>

\* A one-time row is deleted before the packages of the task are installed and
\* the agent is started; a row that is gone does not stop the agent.
Launches(s, row) ==
  /\ IF OneTime(row) THEN Remove(s, "handler") ELSE UNCHANGED <<rows, remover>>
  /\ Goto(s, "spawning")
  /\ read' = NoRow
  /\ UNCHANGED <<answered, headRest>>

TaskFires(s) == Took(s) /\ KindOf[s] = "task" /\ ~proactive /\ Launches(s, rows[s])

TaskApproved(s) == Deciding(s, "task") /\ Launches(s, read)

\* The agent is started, or the trigger is failed.
Spawns(s) ==
  /\ up /\ at = "spawning" /\ handled = s
  /\ Goto(s, "finish")
  /\ UNCHANGED <<rows, remover, read, answered, headRest>>

\* The reminder goes into the head's queue as a message.
Delivers(s) ==
  /\ up /\ at = "deliver" /\ handled = s
  /\ Answer(s)
  /\ UNCHANGED <<rows, remover, read, headRest>>

\* A read or a write of the handler throws: the trigger is failed, and a reminder whose
\* message could not be enqueued is lost.
ReminderFails(s) ==
  /\ Fault
  /\ \/ /\ (Took(s) /\ KindOf[s] = "reminder") \/ Deciding(s, "reminder")
        /\ UNCHANGED broken
     \/ up /\ at = "deliver" /\ handled = s /\ broken' = broken \cup {s}
  /\ Goto(s, "finish")
  /\ read' = NoRow
  /\ UNCHANGED <<rowVars, answered, queueVars, edits, repeats, breaks>>
  /\ UNCHANGED <<proactive, reachable, up, looping, crashes>>

\* Mutant of Finishes: the trigger is acknowledged a second time.
FinishesTwice(s) ==
  /\ up /\ at = "finish" /\ handled = s
  /\ queued' = [queued EXCEPT ![s] = IF held THEN @ - 2 ELSE @]
  /\ Goto(NoSchedule, "none")
  /\ UNCHANGED <<rowVars, read, answered, procVars, edits, aside, tickVars>>

Finishes(s) ==
  /\ up /\ at = "finish" /\ handled = s
  /\ queued' = [queued EXCEPT ![s] = IF held THEN @ - 1 ELSE @]
  /\ Goto(NoSchedule, "none")
  /\ UNCHANGED <<rowVars, read, answered, procVars, edits, aside, tickVars>>
-----------------------------------------------------------------------------
(* What else becomes of triggers *)

\* The head handles a background event and claims the triggers that wait along with
\* it.  They are acknowledged, and nobody looks at what they are about; when the
\* relay steward suppresses the event they are left where they are.
Coalesces ==
  /\ looping /\ at = "none"
  /\ \E s \in Schedules : queued[s] > 0
  /\ queued' = [s \in Schedules |-> 0]
  /\ \/ UNCHANGED aside
     \/ /\ \A s \in Schedules : queued[s] + aside[s] <= MaxQueued
        /\ aside' = [s \in Schedules |-> aside[s] + queued[s]]
  /\ UNCHANGED <<rowVars, headVars, procVars, tickVars, edits>>

\* ~reset deletes every event, that of a trigger in hand too.
Resets ==
  /\ Free
  /\ queued' = [s \in Schedules |-> 0]
  /\ aside' = [s \in Schedules |-> 0]
  /\ held' = FALSE
  /\ UNCHANGED <<rowVars, at, handled, read, answered, procVars, tickVars, edits>>

\* A blocked budget or ~stop ends the loop until the next start; what is in hand is
\* handled to the end.
Stops ==
  /\ Free /\ looping /\ looping' = FALSE
  /\ UNCHANGED <<rowVars, headVars, queueVars, tickVars, edits>>
  /\ UNCHANGED <<proactive, reachable, up, crashes, broken>>
-----------------------------------------------------------------------------
(* The process and its surroundings *)

Dies ==
  /\ up /\ up' = FALSE
  /\ crashes < MaxCrashes /\ crashes' = crashes + 1
  /\ broken' = broken \cup (IF at = "deliver" THEN {handled} ELSE {})
  /\ Goto(NoSchedule, "none")
  /\ read' = NoRow
  /\ looping' = FALSE
  /\ UNCHANGED <<answered, edits, remover, proactive, reachable, quiet, late, aside, faults>>

Crash == Dies /\ UNCHANGED <<rows, fired, queued, repeats, breaks>>

\* The trigger is in the queue and the row has not been advanced.
CrashInTick(s) ==
  /\ Free /\ Due(s)
  /\ Dies /\ Fires(s) /\ StaysDue(s)

\* requeueStale(), and the head's loop starts.
Boots ==
  /\ ~up /\ up' = TRUE
  /\ looping' = TRUE
  /\ queued' = [s \in Schedules |-> queued[s] + aside[s]]
  /\ aside' = [s \in Schedules |-> 0]
  /\ UNCHANGED <<rowVars, headVars, tickVars, edits, proactive, reachable, crashes, broken>>

\* A head's channels come and go with its configuration.
ChannelChanges ==
  /\ Free
  /\ reachable' = ~reachable
  /\ UNCHANGED <<rowVars, headVars, queueVars, tickVars, edits>>
  /\ UNCHANGED <<proactive, up, looping, crashes, broken>>
-----------------------------------------------------------------------------
Init ==
  /\ rows = [s \in Schedules |-> NoRow]
  /\ queued = [s \in Schedules |-> 0]
  /\ aside = [s \in Schedules |-> 0]
  /\ at = "none"
  /\ handled = NoSchedule
  /\ held = FALSE
  /\ read = NoRow
  /\ proactive \in BOOLEAN
  /\ reachable = TRUE
  /\ up = TRUE
  /\ looping = TRUE
  /\ edits = 0
  /\ crashes = 0
  /\ faults = 0
  /\ answered = {}
  /\ remover = [s \in Schedules |-> "unborn"]
  /\ fired = [s \in Schedules |-> FALSE]
  /\ repeats = [s \in Schedules |-> 0]
  /\ breaks = [s \in Schedules |-> 0]
  /\ quiet = [s \in Schedules |-> FALSE]
  /\ late = {}
  /\ broken = {}

UserStep(s) ==
  \/ Create(s) \/ Deletes(s) \/ Enables(s) \/ SetsCron(s) \/ SetsRunAt(s)
  \/ SetsEndDate(s) \/ SetsAck(s) \/ ClearsAck(s) \/ Acknowledges(s)

HeadStep(s) ==
  \/ ReminderWithoutRow(s) \/ ReminderUnreachable(s) \/ ReminderFires(s) \/ Asks(s)
  \/ ReminderSkipped(s) \/ ReminderApproved(s)
  \/ TaskMissing(s) \/ TaskSkipped(s) \/ TaskFires(s) \/ TaskApproved(s)
  \/ Spawns(s) \/ Delivers(s) \/ ReminderFails(s) \/ Finishes(s)

Next ==
  \/ \E s \in Schedules : UserStep(s) \/ HeadStep(s) \/ TimePasses(s) \/ Tick(s)
                          \/ CrashInTick(s)
  \/ Coalesces \/ Resets \/ Stops
  \/ Crash \/ Boots \/ ChannelChanges

\* Time passes and the tick runs, once the thread is free; the head's loop goes on
\* with what it has in hand, and takes an event if there is one.  That steward calls and
\* agent starts return or fail is part of it; that no trigger is coalesced or that
\* the loop is not stopped is not.
Fairness ==
  /\ \A s \in Schedules : SF_vars(TimePasses(s) \/ Tick(s))
  /\ WF_vars(\E s \in Schedules : HeadStep(s))

Spec == Init /\ [][Next]_vars /\ Fairness
-----------------------------------------------------------------------------
(* Properties *)

Delivering(s) == at = "deliver" /\ handled = s

\* A reminder that was cancelled, or acknowledged and so deleted, is not delivered
\* by a trigger that still was in the queue, when no steward has to be waited for.
CancelledStaysSilent ==
  \A s \in Schedules :
     Delivering(s) /\ ~proactive => remover[s] \notin {"user", "ack"}

\* The tick fires every time of a row once, of whatever kind the row is, and once
\* more only for each time that it fired the row and could not advance it, because
\* a write failed or the process died in between.
FiresOnce == \A s \in Schedules : repeats[s] <= breaks[s]

\* A one-time reminder whose row is gone was delivered, or there was a reason not
\* to, or somebody cancelled it; only that very reminder is lost which was about to
\* be delivered when the process died or its message could not be written.
OneTimeAnswered ==
  \A s \in Schedules \ broken :
     KindOf[s] = "reminder" /\ remover[s] = "handler" /\ handled # s
       => s \in answered

\* Firing never deletes the row of a repeating schedule, and never that of a
\* reminder that nobody has acknowledged, unless the row was made such a one while
\* the steward was asked about it.
KeptUntilUserActs ==
  [][\A s \in Schedules :
       /\ remover[s] = "nobody" /\ remover'[s] = "handler"
       /\ at = "deciding" => rows[s].cron = read.cron /\ rows[s].ack = read.ack
       => ~rows[s].cron /\ (KindOf[s] = "reminder" => ~rows[s].ack)]_vars

Nagging(s) ==
  /\ Exists(s)
  /\ rows[s].enabled /\ rows[s].ack /\ rows[s].pending

\* Why that is so.  A row is there until somebody is named who deleted it,
RemoverKnown == \A s \in Schedules : Exists(s) <=> remover[s] = "nobody"

\* the trigger in hand is in the queue unless that was emptied, and an agent is
\* started for a task,
HandledIsQueued ==
  at # "none" => /\ handled \in Schedules
                 /\ held => queued[handled] > 0
                 /\ at = "spawning" => KindOf[handled] = "task"

\* only a proactive head waits for a steward, which it asks about a reminder that
\* needs no acknowledgement,
OnlyProactiveDecides ==
  at = "deciding" => /\ proactive
                     /\ KindOf[handled] = "reminder" => read # NoRow /\ ~read.ack

\* a time that has fired is still due only if the row could not be advanced,
FiredIsBreak ==
  \A s \in Schedules : repeats[s] + (IF fired[s] THEN 1 ELSE 0) <= breaks[s]

\* and a one-time reminder whose row is gone has its answer or is being delivered.
AnswerOnItsWay ==
  \A s \in Schedules \ broken :
     KindOf[s] = "reminder" /\ remover[s] = "handler"
       => s \in answered \/ Delivering(s)

\* The inductive invariant of SchedulesProofs.
IInv == /\ TypeOK /\ CancelledStaysSilent /\ RemoverKnown /\ HandledIsQueued
        /\ OnlyProactiveDecides /\ FiredIsBreak /\ AnswerOnItsWay

\* Triggers leave the queue unhandled.
Loses == Coalesces \/ Resets

\* A reminder created to require acknowledgement keeps being delivered until
\* somebody acknowledges, cancels or disables it, also across times without a
\* channel, failed writes and lost triggers, if at last there is a channel and no
\* trigger is lost; and as long as the head's loop runs.
NagsUntilAcked ==
  \A s \in {t \in Schedules : KindOf[t] = "reminder"} :
     <>[]reachable /\ <>[][~Loses]_vars
       => (Nagging(s) /\ s \notin late
             ~> (Delivering(s) \/ ~Nagging(s) \/ ~looping))

\* An acknowledged reminder is not enqueued again before its next cron time; what
\* still may be delivered are triggers that were in the queue already.
AckedEnqueuesNothing ==
  [][\A s \in Schedules :
       quiet[s] /\ quiet'[s] => queued'[s] + aside'[s] <= queued[s] + aside[s]]_vars
=============================================================================
