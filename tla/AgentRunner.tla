----------------------------- MODULE AgentRunner -----------------------------
(***************************************************************************)
(* The background agents of one head: LocalAgentRunner in                  *)
(* src/src/sub-agents/local.ts over the agents and agent_inbox tables.     *)
(* Every agent has a row, an inbox and a loop; the head, the dashboard and *)
(* a parent agent act on it through the inbox and through two in-process   *)
(* maps, emitters and abortControllers, whose entries are set and deleted  *)
(* together (registered).  JavaScript runs one thing at a time: a loop     *)
(* that is not at an await holds the thread, and no other action of the    *)
(* process happens until it yields (Free).                                 *)
(***************************************************************************)
EXTENDS Naturals

CONSTANTS
  Agents,      \* agent ids
  NoAgent,
  Parent,      \* agent -> the agent that spawns it, or NoAgent for the head's
  Unattended,  \* agents with a background trigger (scheduled, sensor)
  Continuable, \* config.agentContinuationEnabled
  SlowTools,   \* assembleTools() may let others run: an MCP server is configured,
               \* or two message_agent calls share a round
  MaxTwins,    \* bound: loops of one agent alive at once
  MaxSent,     \* bound: messages and cancellations sent to agents
  MaxCrashes   \* bound: times the process stops

ASSUME ConstantsAssumption ==
  /\ NoAgent \notin Agents
  /\ Parent \in [Agents -> Agents \cup {NoAgent}]
  /\ \A a \in Agents : Parent[a] # NoAgent => Parent[Parent[a]] = NoAgent
  /\ Unattended \subseteq Agents
  /\ Continuable \in BOOLEAN
  /\ SlowTools \in BOOLEAN
  /\ MaxTwins \in Nat \ {0}
  /\ MaxSent \in Nat
  /\ MaxCrashes \in Nat

Loops == Agents \X (1 .. MaxTwins)
Owner(l) == l[1]
NoLoop == <<NoAgent, 0>>

Statuses == {"none", "running", "suspended", "completed", "failed", "retracted",
             "gone"}

\* The inbox rows that the code reads.  'result' stands for sub_agent_completed
\* and sub_agent_question, 'failure' for sub_agent_failed.
MessageKinds == {"update", "signal", "retract", "result", "failure"}

\* Where the row of the outcome is written and its report is next.
Reporting == {"ask", "done", "fail"}

PCs == {"none", "starting", "top", "waiting", "tools", "steward", "cleanup"}
         \cup Reporting

VARIABLES
  status,      \* agent -> status column
  asking,      \* agent -> pending_question column is not null
  unread,      \* agent -> kind -> unprocessed inbox rows
  registered,  \* agent -> the loop whose emitter and AbortController are in the maps
  pc,          \* loop -> where it is suspended, or what it does next without yielding
  isSuspended, \* loop -> the loop's local of that name
  nudged,      \* loop -> toolNudgeSent
  fired,       \* loop -> the AbortController made for it has fired
  watching,    \* loop -> the loop whose controller its tool loop was given
  checked,     \* agents a message_agent call has checked and not yet updated
  resetting,   \* ~reset has retracted the agents and not yet cleared the tables
  overBudget,  \* findBlockingThresholds() is not empty
  up,          \* the process is alive
  closing,     \* shutdown() has signalled the agents
  crashes,     \* times the process stopped
  sent,        \* messages and cancellations so far
  told,        \* agents whose present outcome was reported (history)
  cut,         \* the process died between an outcome and its report (history)
  revived      \* sub-agents that the head continued after their parent last looked
               \* for children at work (history)

rowVars == <<status, asking, told>>
loopVars == <<registered, pc, isSuspended, nudged, fired, watching>>
hostVars == <<checked, resetting, overBudget, up, closing, crashes, sent, cut>>
procVars == <<hostVars, revived>>
vars == <<rowVars, unread, loopVars, procVars>>

TypeOK ==
  /\ status \in [Agents -> Statuses]
  /\ asking \in [Agents -> BOOLEAN]
  /\ unread \in [Agents -> [MessageKinds -> Nat]]
  /\ registered \in [Agents -> Loops \cup {NoLoop}]
  /\ pc \in [Loops -> PCs]
  /\ isSuspended \in [Loops -> BOOLEAN]
  /\ nudged \in [Loops -> BOOLEAN]
  /\ fired \in [Loops -> BOOLEAN]
  /\ watching \in [Loops -> Loops \cup {NoLoop}]
  /\ checked \in SUBSET Agents
  /\ resetting \in BOOLEAN
  /\ overBudget \in BOOLEAN
  /\ up \in BOOLEAN
  /\ closing \in BOOLEAN
  /\ crashes \in Nat
  /\ sent \in Nat
  /\ told \in [Agents -> BOOLEAN]
  /\ cut \in BOOLEAN
  /\ revived \in SUBSET Agents
-----------------------------------------------------------------------------
(* Helpers *)

LoopsOf(a) == {l \in Loops : Owner(l) = a}
Children(a) == {c \in Agents : Parent[c] = a}
Active == {"running", "suspended"}

\* Loops at these points run on without an await.
Running == {"top", "cleanup"} \cup Reporting
             \cup (IF SlowTools THEN {} ELSE {"starting"})

\* The JavaScript thread is free for another task.
Free == up /\ \A l \in Loops : pc[l] \notin Running

Empty == [k \in MessageKinds |-> 0]
Pending(a) == \E k \in MessageKinds : unread[a][k] > 0
Has(a, k) == unread[a][k] > 0

Post(a, k) == unread' = [unread EXCEPT ![a][k] = @ + 1]

\* emitters.get(a)?.emit('inbox') for every a of S: a loop that waits on that
\* emitter is the next thing to run, before the process handles other events.
Woken(l, S) ==
  /\ Owner(l) \in S
  /\ pc[l] = "waiting"
  /\ registered[Owner(l)] = l

Emit(S) == pc' = [l \in Loops |-> IF Woken(l, S) THEN "top" ELSE pc[l]]

\* AgentStore.hasRunningChildren
HasRunningChildren(a) == \E c \in Children(a) : status[c] \in Active

\* An UPDATE of a row that a reset deleted changes nothing.
SetRow(a, v, q) ==
  IF status[a] = "gone" THEN UNCHANGED rowVars
  ELSE /\ status' = [status EXCEPT ![a] = v]
       /\ asking' = [asking EXCEPT ![a] = q]
       /\ told' = [told EXCEPT ![a] = FALSE]

Goto(l, where) == pc' = [pc EXCEPT ![l] = where]

Idle(l) == pc[l] = "none"

\* A loop of agent a is being set up: nothing is known of it but its place.
Place(a, l, where) ==
  /\ l \in LoopsOf(a)
  /\ Idle(l)
  /\ Goto(l, where)
-----------------------------------------------------------------------------
(* The runner's operations *)

\* spawn(): the row is inserted after assembleTools(), then the loop runs up to
\* its first await.
Spawn(a) ==
  /\ status[a] = "none"
  /\ SetRow(a, "running", FALSE)
  /\ \E l \in LoopsOf(a) :
        /\ Place(a, l, "top")
        /\ registered' = [registered EXCEPT ![a] = l]
  /\ UNCHANGED <<unread, isSuspended, nudged, fired, watching>>

\* Mutant of Update: an agent that failed is continued as well.
UpdateRevives(a) ==
  /\ status[a] # "none"
  /\ IF status[a] = "running"
     THEN Post(a, "update") /\ Emit({a}) /\ UNCHANGED rowVars
     ELSE /\ SetRow(a, "running", FALSE)
          /\ Post(a, "signal")
          /\ \E l \in LoopsOf(a) : Place(a, l, "starting")

\* update(): a completed agent is continued, a suspended one is answered, and
\* anything else just gets the message in its inbox.
Update(a) ==
  IF status[a] = "completed" \/ (status[a] = "suspended" /\ registered[a] = NoLoop)
  THEN /\ IF status[a] = "completed" THEN SetRow(a, "running", FALSE)
                                     ELSE UNCHANGED rowVars
       /\ Post(a, "signal")
       /\ \E l \in LoopsOf(a) : Place(a, l, "starting")
  ELSE /\ Post(a, IF status[a] = "suspended" THEN "signal" ELSE "update")
       /\ Emit({a})
       /\ UNCHANGED rowVars

\* abortControllers.get(a)?.abort() for every a of S
Fires(S) ==
  fired' = [l \in Loops |-> fired[l] \/ (Owner(l) \in S /\ registered[Owner(l)] = l)]

\* The signal that the tool loop looks at between its steps.
Aborted(l) == watching[l] # NoLoop /\ fired[watching[l]]

\* retract(): the row in the inbox, then the abort; without a loop only a
\* suspended agent is retracted, and a running one is left alone.
Retract(a) ==
  IF registered[a] # NoLoop
  THEN /\ Post(a, "retract")
       /\ Emit({a})
       /\ Fires({a})
       /\ UNCHANGED rowVars
  ELSE /\ UNCHANGED <<pc, fired>>
       /\ IF status[a] = "suspended"
          THEN /\ SetRow(a, "retracted", asking[a])
               /\ unread' = [unread EXCEPT ![a] = Empty]
          ELSE UNCHANGED <<rowVars, unread>>

\* resumeSuspended() after assembleTools(): a fresh emitter and controller take
\* the agent's place in the maps, and the loop starts as suspended.
Begin(l) ==
  /\ up /\ pc[l] = "starting"
  /\ \A m \in Loops \ {l} : pc[m] \notin Running
  /\ registered' = [registered EXCEPT ![Owner(l)] = l]
  /\ isSuspended' = [isSuspended EXCEPT ![l] = TRUE]
  /\ Goto(l, "top")
  /\ UNCHANGED <<rowVars, unread, nudged, fired, watching, procVars>>
-----------------------------------------------------------------------------
(* The head, the dashboard, a parent agent *)

Send == sent < MaxSent /\ sent' = sent + 1

\* spawn_agent of the head, a scheduled task or a sensor
HeadSpawns(a) ==
  /\ Free /\ Parent[a] = NoAgent
  /\ Spawn(a)
  /\ UNCHANGED procVars

\* The head's message_agent looks at the status, asks a steward if one is
\* configured, and only then calls update().  It does not ask whose agent it is.
HeadChecks(a) ==
  /\ Free /\ a \notin checked
  /\ \/ status[a] \in Active
     \/ status[a] = "completed" /\ Continuable
  /\ checked' = checked \cup {a}
  /\ Send
  /\ UNCHANGED <<rowVars, unread, loopVars, resetting, overBudget, up, closing, crashes, cut,
                 revived>>

HeadSends(a) ==
  /\ Free /\ a \in checked
  /\ checked' = checked \ {a}
  /\ Update(a)
  /\ revived' = revived \cup {c \in {a} : status[c] = "completed" /\ Parent[c] # NoAgent}
  /\ UNCHANGED <<registered, isSuspended, nudged, fired, watching, resetting, overBudget, up,
                 closing, crashes, sent, cut>>

StewardRefuses(a) ==
  /\ Free /\ a \in checked
  /\ checked' = checked \ {a}
  /\ UNCHANGED <<rowVars, unread, loopVars, resetting, overBudget, up, closing, crashes,
                 sent, cut, revived>>

\* cancel_agent of the head and the dashboard's cancel button ask for no status.
Cancels(a) ==
  /\ Free /\ status[a] # "none"
  /\ Send
  /\ Retract(a)
  /\ UNCHANGED <<registered, isSuspended, nudged, watching, checked, resetting, overBudget,
                 up, closing, crashes, cut, revived>>

\* maybeArchive() retracts suspended agents older than the oldest message kept,
\* in the table only.
ArchivalRetracts(a) ==
  /\ Free /\ status[a] = "suspended"
  /\ SetRow(a, "retracted", asking[a])
  /\ UNCHANGED <<unread, loopVars, procVars>>

\* ~reset: retractAllAgents() ...
ResetRetracts ==
  /\ Free /\ ~resetting
  /\ resetting' = TRUE
  /\ LET live == {a \in Agents : status[a] \in Active}
         reached == {a \in live : registered[a] # NoLoop}
         rest == {a \in live \ reached : status[a] = "suspended"}
     IN /\ unread' = [a \in Agents |->
                        IF a \in reached THEN [unread[a] EXCEPT !["retract"] = @ + 1]
                        ELSE IF a \in rest THEN Empty ELSE unread[a]]
        /\ Emit(reached)
        /\ Fires(reached)
        /\ status' = [a \in Agents |-> IF a \in rest THEN "retracted" ELSE status[a]]
        /\ told' = [a \in Agents |-> told[a] /\ a \notin rest]
  /\ UNCHANGED <<asking, registered, isSuspended, nudged, watching, checked,
                 overBudget, up, closing, crashes, sent, cut, revived>>

\* ... then clearAgents(): the loops that were waiting have ended by then, those
\* inside a provider or tool call have not.
ResetClears ==
  /\ Free /\ resetting
  /\ resetting' = FALSE
  /\ status' = [a \in Agents |-> IF status[a] = "none" THEN "none" ELSE "gone"]
  /\ asking' = [a \in Agents |-> FALSE]
  /\ told' = [a \in Agents |-> FALSE]
  /\ unread' = [a \in Agents |-> Empty]
  /\ UNCHANGED <<loopVars, checked, overBudget, up, closing, crashes, sent, cut, revived>>
-----------------------------------------------------------------------------
(* An agent's loop *)

\* The catch of runLoopFrom(): a retract in the inbox turns the error into a
\* cancellation, otherwise the agent has failed and that is reported.
Throws(l) ==
  LET a == Owner(l) IN
  /\ IF Has(a, "retract")
     THEN SetRow(a, "retracted", asking[a]) /\ Goto(l, "cleanup")
     ELSE SetRow(a, "failed", asking[a]) /\ Goto(l, "fail")
  /\ UNCHANGED <<unread, registered, isSuspended, nudged, fired, watching>>

TopBlocked(l) ==
  /\ up /\ pc[l] = "top" /\ overBudget
  /\ Throws(l)
  /\ UNCHANGED procVars

\* Mutant of TopRetracted: another row of the inbox is marked as processed.
TopMarksWrongRow(l) ==
  /\ up /\ pc[l] = "top" /\ ~overBudget
  /\ Has(Owner(l), "retract")
  /\ unread' = [unread EXCEPT ![Owner(l)]["update"] = @ - 1]
  /\ SetRow(Owner(l), "retracted", asking[Owner(l)])
  /\ Goto(l, "cleanup")
  /\ UNCHANGED <<registered, isSuspended, nudged, fired, watching, procVars>>

\* Mutant of TopRetracted: the loop goes on after it has read the retract.
TopForgetsRetract(l) ==
  /\ up /\ pc[l] = "top" /\ ~overBudget
  /\ Has(Owner(l), "retract")
  /\ unread' = [unread EXCEPT ![Owner(l)]["retract"] = @ - 1]
  /\ UNCHANGED <<rowVars, loopVars, procVars>>

TopRetracted(l) ==
  LET a == Owner(l) IN
  /\ up /\ pc[l] = "top" /\ ~overBudget
  /\ Has(a, "retract")
  /\ unread' = [unread EXCEPT ![a]["retract"] = @ - 1]
  /\ SetRow(a, "retracted", asking[a])
  /\ Goto(l, "cleanup")
  /\ UNCHANGED <<registered, isSuspended, nudged, fired, watching, procVars>>

\* Every message is taken from the inbox.  The first signal resumes a suspended
\* loop; any other signal is discarded.  A loop that is still suspended waits
\* for the emitter or the poll timer, any other enters its tool loop with the
\* controller that is in the map.
Takes(l, resumes) ==
  LET a == Owner(l)
      waits == isSuspended[l] /\ ~resumes
  IN
  /\ up /\ pc[l] = "top" /\ ~overBudget
  /\ ~ Has(a, "retract")
  /\ isSuspended' = [isSuspended EXCEPT ![l] = waits]
  /\ Goto(l, IF waits THEN "waiting" ELSE "tools")
  /\ watching' = [watching EXCEPT ![l] = IF waits THEN NoLoop ELSE registered[a]]
  /\ UNCHANGED <<registered, nudged, fired, procVars>>

Resumed(l) == isSuspended[l] /\ Has(Owner(l), "signal")

\* Mutant of Top: the signals after the first stay in the inbox.
TopTakesOneSignal(l) ==
  LET a == Owner(l) IN
  /\ Takes(l, Resumed(l))
  /\ unread' = [unread EXCEPT ![a] = [Empty EXCEPT !["signal"] =
                  IF Resumed(l) THEN unread[a]["signal"] - 1 ELSE 0]]
  /\ IF Resumed(l) THEN SetRow(a, "running", FALSE) ELSE UNCHANGED rowVars

\* Mutant of Top: the answer is not recorded in the row.
TopLeavesRow(l) ==
  /\ Takes(l, Resumed(l))
  /\ unread' = [unread EXCEPT ![Owner(l)] = Empty]
  /\ UNCHANGED rowVars

Top(l) ==
  LET a == Owner(l) IN
  /\ Takes(l, Resumed(l))
  /\ unread' = [unread EXCEPT ![a] = Empty]
  /\ IF Resumed(l) THEN SetRow(a, "running", FALSE) ELSE UNCHANGED rowVars

\* waitForInbox(): the poll timer
Wakes(l) ==
  /\ Free /\ pc[l] = "waiting"
  /\ Goto(l, "top")
  /\ UNCHANGED <<rowVars, unread, registered, isSuspended, nudged, fired, watching, procVars>>

\* A round of runToolLoop() with tool calls ends in onRoundComplete(): a retract
\* stops the loop and stays unread, updates are taken.
Round(l) ==
  LET a == Owner(l) IN
  /\ Free /\ pc[l] = "tools" /\ ~ Aborted(l)
  /\ ~ Has(a, "retract") /\ Has(a, "update")
  /\ unread' = [unread EXCEPT ![a]["update"] = 0]
  /\ UNCHANGED <<rowVars, loopVars, procVars>>

RoundAborts(l) ==
  /\ Free /\ pc[l] = "tools"
  /\ Aborted(l) \/ Has(Owner(l), "retract")
  /\ Throws(l)
  /\ UNCHANGED procVars

\* The provider failed, or the loop detector stopped the agent.
ToolsThrow(l) ==
  /\ Free /\ pc[l] = "tools"
  /\ Throws(l)
  /\ UNCHANGED procVars

\* Tools of the parent run inside its tool loop.
ParentSpawns(l, c) ==
  /\ Free /\ pc[l] = "tools" /\ Parent[c] = Owner(l)
  /\ Spawn(c)
  /\ UNCHANGED procVars

ParentSends(l, c) ==
  /\ Free /\ pc[l] = "tools" /\ Parent[c] = Owner(l)
  /\ status[c] \notin {"none", "gone"}
  /\ Send
  /\ Update(c)
  /\ UNCHANGED <<registered, isSuspended, nudged, fired, watching, checked, resetting,
                 overBudget, up, closing, crashes, cut, revived>>

ParentCancels(l, c) ==
  /\ Free /\ pc[l] = "tools" /\ Parent[c] = Owner(l)
  /\ status[c] \notin {"none", "gone"}
  /\ Send
  /\ Retract(c)
  /\ UNCHANGED <<registered, isSuspended, nudged, watching, checked, resetting, overBudget,
                 up, closing, crashes, cut, revived>>

\* respond_to_message of a sub-agent
Responds(l) ==
  /\ Free /\ pc[l] = "tools" /\ Parent[Owner(l)] # NoAgent
  /\ Send
  /\ Post(Parent[Owner(l)], "update")
  /\ Emit({Parent[Owner(l)]})
  /\ UNCHANGED <<rowVars, registered, isSuspended, nudged, watching, fired, checked,
                 resetting, overBudget, up, closing, crashes, cut, revived>>

\* The turn of the agent is over: it goes on to where, the steward if all is done.
EndsTurn(l, where) ==
  /\ Free /\ pc[l] = "tools"
  /\ Goto(l, where)
  /\ revived' = IF where = "steward" THEN revived \ Children(Owner(l)) ELSE revived
  /\ UNCHANGED <<rowVars, unread, registered, isSuspended, nudged, fired, watching, hostVars>>

\* Mutant of EndTurn: the children are not looked at.
EndTurnIgnoresChildren(l) ==
  EndsTurn(l, IF Pending(Owner(l)) THEN "top" ELSE "steward")

\* Mutant of EndTurn: the inbox is not looked at.
EndTurnIgnoresInbox(l) ==
  EndsTurn(l, IF HasRunningChildren(Owner(l)) THEN "waiting" ELSE "steward")

\* The model answers without a tool call: runToolLoop() returns.  The agent is
\* done only when its inbox is empty and no child of it is active.
EndTurn(l) ==
  EndsTurn(l, IF Pending(Owner(l)) THEN "top"
              ELSE IF HasRunningChildren(Owner(l)) THEN "waiting" ELSE "steward")

\* An agent that called no tool is told to once, and fails the second time.
EndTurnWithoutTools(l) ==
  LET a == Owner(l) IN
  /\ Free /\ pc[l] = "tools"
  /\ ~ Pending(a) /\ ~ HasRunningChildren(a)
  /\ IF nudged[l] THEN Throws(l)
     ELSE /\ nudged' = [nudged EXCEPT ![l] = TRUE]
          /\ Goto(l, "top")
          /\ UNCHANGED <<rowVars, unread, registered, isSuspended, fired, watching>>
  /\ UNCHANGED procVars

\* runCompletionSteward() says done, or it says question and nobody is there to
\* be asked: the agent completes.  The inbox is not looked at again.
Completes(l) ==
  /\ Free /\ pc[l] = "steward"
  /\ SetRow(Owner(l), "completed", asking[Owner(l)])
  /\ Goto(l, "done")
  /\ UNCHANGED <<unread, registered, isSuspended, nudged, fired, watching, procVars>>

Suspends(l) ==
  /\ Free /\ pc[l] = "steward" /\ Owner(l) \notin Unattended
  /\ SetRow(Owner(l), "suspended", TRUE)
  /\ Goto(l, "ask")
  /\ UNCHANGED <<unread, registered, isSuspended, nudged, fired, watching, procVars>>

\* Mutant of Tell: only an agent with a parent has somebody to tell.
TellParent(l, where) ==
  /\ told' = [told EXCEPT ![Owner(l)] = Parent[Owner(l)] # NoAgent]
  /\ IF Parent[Owner(l)] = NoAgent THEN UNCHANGED unread
     ELSE Post(Parent[Owner(l)], "result")
  /\ Goto(l, where)

\* The outcome goes to the parent's inbox, or to the head's queue; then the loop
\* runs on.
Tell(l, where) ==
  LET a == Owner(l) IN
  /\ told' = [told EXCEPT ![a] = status[a] # "gone"]
  /\ IF Parent[a] = NoAgent THEN UNCHANGED unread
     ELSE Post(Parent[a], IF pc[l] = "fail" THEN "failure" ELSE "result")
  /\ pc' = [m \in Loops |-> IF m = l THEN where
                            ELSE IF Woken(m, {Parent[a]}) THEN "top" ELSE pc[m]]

ReportsQuestion(l) ==
  /\ up /\ pc[l] = "ask"
  /\ Tell(l, "top")
  /\ isSuspended' = [isSuspended EXCEPT ![l] = TRUE]
  /\ UNCHANGED <<status, asking, registered, nudged, fired, watching, procVars>>

ReportsEnd(l) ==
  /\ up /\ pc[l] \in {"done", "fail"}
  /\ Tell(l, "cleanup")
  /\ UNCHANGED <<status, asking, registered, isSuspended, nudged, fired, watching, procVars>>

\* The finally of runLoopFrom() empties the inbox; that of the caller deletes
\* the agent's entries of the maps, whichever loop's they are.  A loop that looked
\* at this one's controller keeps it in place of its own, which nothing can reach.
CleansUp(l) ==
  LET a == Owner(l) IN
  /\ up /\ pc[l] = "cleanup"
  /\ unread' = [unread EXCEPT ![a] = Empty]
  /\ registered' = [registered EXCEPT ![a] = NoLoop]
  /\ Goto(l, "none")
  /\ isSuspended' = [isSuspended EXCEPT ![l] = FALSE]
  /\ nudged' = [nudged EXCEPT ![l] = FALSE]
  /\ watching' = [m \in Loops |-> IF m = l THEN NoLoop
                                  ELSE IF watching[m] = l THEN m ELSE watching[m]]
  /\ fired' = [m \in Loops |-> m # l /\ fired[IF watching[m] = l THEN l ELSE m]]
  /\ UNCHANGED <<rowVars, procVars>>
-----------------------------------------------------------------------------
(* The process, and the budget *)

\* Nothing in memory survives.
Gone ==
  /\ registered' = [a \in Agents |-> NoLoop]
  /\ pc' = [l \in Loops |-> "none"]
  /\ isSuspended' = [l \in Loops |-> FALSE]
  /\ nudged' = [l \in Loops |-> FALSE]
  /\ watching' = [l \in Loops |-> NoLoop]
  /\ fired' = [l \in Loops |-> FALSE]
  /\ checked' = {}
  /\ resetting' = FALSE
  /\ closing' = FALSE
  /\ up' = FALSE
  /\ crashes < MaxCrashes /\ crashes' = crashes + 1

\* The process dies, maybe between an outcome and its report.
Crash ==
  /\ up
  /\ Gone
  /\ cut' = (cut \/ \E l \in Loops : pc[l] \in Reporting)
  /\ UNCHANGED <<rowVars, unread, overBudget, sent, revived>>

\* Startup: agents that the last process left running are ended and reported to
\* the head, a parent's inbox gets nothing.
Boot ==
  /\ ~up /\ up' = TRUE
  /\ LET left == {a \in Agents : status[a] = "running"}
         withdrawn == {a \in left : Has(a, "retract")}
     IN /\ status' = [a \in Agents |-> IF a \in withdrawn THEN "retracted"
                                       ELSE IF a \in left THEN "failed" ELSE status[a]]
        /\ told' = [a \in Agents |-> IF a \in left THEN a \notin withdrawn ELSE told[a]]
  /\ UNCHANGED <<asking, unread, loopVars, checked, resetting, overBudget, closing,
                 crashes, sent, cut, revived>>

\* shutdown() retracts the running agents ...
Closes ==
  /\ Free /\ ~closing
  /\ closing' = TRUE
  /\ LET reached == {a \in Agents : status[a] = "running" /\ registered[a] # NoLoop}
     IN /\ unread' = [a \in Agents |->
                        IF a \in reached THEN [unread[a] EXCEPT !["retract"] = @ + 1]
                                         ELSE unread[a]]
        /\ Emit(reached)
        /\ Fires(reached)
  /\ UNCHANGED <<rowVars, registered, isSuspended, nudged, watching, checked,
                 resetting, overBudget, up, crashes, sent, cut, revived>>

\* ... and, when they have had their time, fails the rest without a report.
Exits ==
  /\ Free /\ closing
  /\ status' = [a \in Agents |-> IF status[a] = "running" THEN "failed" ELSE status[a]]
  /\ told' = [a \in Agents |-> told[a] /\ status[a] # "running"]
  /\ Gone
  /\ UNCHANGED <<asking, unread, overBudget, sent, cut, revived>>

\* Spending reaches a block threshold; a new period begins.
BudgetChanges ==
  /\ Free
  /\ overBudget' = ~overBudget
  /\ UNCHANGED <<rowVars, unread, loopVars, checked, resetting, up, closing, crashes, sent,
                 cut, revived>>
-----------------------------------------------------------------------------
Init ==
  /\ status = [a \in Agents |-> "none"]
  /\ asking = [a \in Agents |-> FALSE]
  /\ told = [a \in Agents |-> FALSE]
  /\ unread = [a \in Agents |-> Empty]
  /\ registered = [a \in Agents |-> NoLoop]
  /\ pc = [l \in Loops |-> "none"]
  /\ isSuspended = [l \in Loops |-> FALSE]
  /\ nudged = [l \in Loops |-> FALSE]
  /\ watching = [l \in Loops |-> NoLoop]
  /\ fired = [l \in Loops |-> FALSE]
  /\ checked = {}
  /\ resetting = FALSE
  /\ overBudget = FALSE
  /\ up = TRUE
  /\ closing = FALSE
  /\ crashes = 0
  /\ sent = 0
  /\ cut = FALSE
  /\ revived = {}

\* What a loop does without yielding.
RunsOn(l) ==
  \/ TopBlocked(l) \/ TopRetracted(l) \/ Top(l)
  \/ ReportsQuestion(l) \/ ReportsEnd(l) \/ CleansUp(l)

\* One step of a loop, in the order of the code.
LoopStep(l) ==
  RunsOn(l) \/ Begin(l) \/ Wakes(l) \/ RoundAborts(l) \/ EndTurn(l) \/ Completes(l)
    \/ Suspends(l)

\* What the model and its tools choose.
ToolStep(l) ==
  \/ Round(l) \/ ToolsThrow(l) \/ EndTurnWithoutTools(l) \/ Responds(l)
  \/ \E c \in Agents : ParentSpawns(l, c) \/ ParentSends(l, c) \/ ParentCancels(l, c)

HeadStep(a) ==
  \/ HeadSpawns(a) \/ HeadChecks(a) \/ HeadSends(a) \/ StewardRefuses(a)
  \/ Cancels(a) \/ ArchivalRetracts(a)

ProcessStep ==
  \/ ResetRetracts \/ ResetClears \/ Crash \/ Boot \/ Closes \/ Exits \/ BudgetChanges

Next ==
  \/ \E l \in Loops : LoopStep(l) \/ ToolStep(l)
  \/ \E a \in Agents : HeadStep(a)
  \/ ProcessStep

\* Timers fire, provider and steward calls return or time out, and the event loop
\* serves them all in turn however busy it is.  Nothing is assumed of users, of the
\* model's choice to answer or to call another tool, or of the budget.
Fairness ==
  \A l \in Loops :
     /\ WF_vars(RunsOn(l))
     /\ SF_vars(Begin(l) \/ Wakes(l) \/ RoundAborts(l) \/ Completes(l) \/ Suspends(l))

Spec == Init /\ [][Next]_vars /\ Fairness
-----------------------------------------------------------------------------
(* Properties *)

\* A loop that has left its wait and works on the agent.
Working(l) == pc[l] \in PCs \ {"none", "starting"} /\ ~isSuspended[l]

\* However answers, restarts and replaced emitters interleave, no two loops ever
\* work on one agent: they would spend its budget twice and write each other's
\* history (update() starts a loop whenever it finds no emitter).
OneActiveLoop ==
  \A a \in Agents : \A l, m \in LoopsOf(a) : Working(l) /\ Working(m) => l = m

\* Why that is so.  An answer is only written for an agent that has ended its turn,
SignalForIdle ==
  \A a \in Agents : Has(a, "signal") => \A l \in LoopsOf(a) : ~Working(l)

\* a loop that ended its agent's turn has only its report left to do,
EndedLoopsFinish ==
  \A a \in Agents : status[a] \in {"completed", "suspended"}
                     => \A l \in LoopsOf(a) : Working(l) => pc[l] \in Reporting \cup {"cleanup"}

\* a loop leaves its wait before it works,
AwakeAtWork ==
  \A l \in Loops : pc[l] \in {"tools", "steward", "ask", "done"} => ~isSuspended[l]

\* and before its spawn an agent has neither loop nor message.
UnbornAtRest ==
  \A a \in Agents : status[a] = "none"
                     => ~Has(a, "signal") /\ \A l \in LoopsOf(a) : pc[l] = "none"

\* Until an outcome is told, the loop that wrote it is about to tell it.
OutcomeOnItsWay ==
  \A a \in Agents : status[a] \in {"completed", "suspended"} /\ ~cut
                     => told[a] \/ \E l \in LoopsOf(a) : pc[l] \in {"ask", "done"}

\* The inductive invariant of AgentRunnerProofs.
IInv == /\ TypeOK /\ OneActiveLoop /\ SignalForIdle /\ EndedLoopsFinish
        /\ AwakeAtWork /\ UnbornAtRest /\ OutcomeOnItsWay

\* An agent that completed or asks has no sub-agent at work, although the steward
\* is awaited between hasRunningChildren() and the row, but one that the head itself
\* continued after it had completed.
NoActiveChildOfEndedParent ==
  \A a \in Agents :
     status[a] \in {"completed", "suspended"}
       => \A c \in Children(a) : status[c] \in Active => c \in revived

\* When an agent is reported as completed it has read every result and question
\* of its sub-agents, although the inbox was read before the steward was awaited,
\* if the head continued none of them meanwhile.
ParentHeardAll ==
  \A l \in Loops : pc[l] = "done" /\ status[Owner(l)] = "completed"
                     => \/ ~Has(Owner(l), "result")
                        \/ Children(Owner(l)) \cap revived # {}

\* Whoever waits for an agent has been told that it completed or asks, unless the
\* process died between the row and the report.
OutcomeTold ==
  \A a \in Agents : Free /\ status[a] \in {"completed", "suspended"} /\ ~cut => told[a]

\* A cancellation that reaches a loop ends the agent, wherever the loop was: in
\* its wait, in a provider call, or before the steward.
CancelEnds ==
  \A a \in Agents : Has(a, "retract") /\ registered[a] # NoLoop
                     ~> status[a] \notin Active \/ ~up

\* An answer to a question gets the agent going again, even when the loop that
\* waits listens to an emitter that was replaced.
AnswerResumes ==
  \A a \in Agents :
     status[a] = "suspended" /\ Has(a, "signal") /\ registered[a] # NoLoop
       ~> status[a] # "suspended" \/ ~up

\* The agents live the life that AgentLife promises.
Life == INSTANCE AgentLife WITH Agents <- Agents, status <- status,
                                asking <- asking, told <- told
ImplementsLife == Life!Spec

\* docs/overview.md: additional instructions are relayed to the agent, so none is
\* left unread when its result is reported.
MessageDelivered ==
  \A l \in Loops : pc[l] = "done" => ~Has(Owner(l), "update")
=============================================================================
