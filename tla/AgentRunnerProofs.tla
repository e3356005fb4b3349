------------------------- MODULE AgentRunnerProofs -------------------------
(***************************************************************************)
(* Proofs about AgentRunner for every set of agents, every number of loops *)
(* of one agent, and tools that wait or do not.  The argument: an answer   *)
(* is only written for an agent whose turn has ended, and the loop that    *)
(* takes it empties the inbox, so no second loop can be woken by it.       *)
(***************************************************************************)
EXTENDS AgentRunner, TLAPS

\* Every loop is some agent's.
LEMMA OwnerType == \A l \in Loops : Owner(l) \in Agents
BY DEF Loops, Owner

-----------------------------------------------------------------------------
(* What the shared operations write *)

\* A message in an inbox keeps its type.
LEMMA PostType ==
  ASSUME TypeOK, NEW a \in Agents, NEW k \in MessageKinds, Post(a, k)
  PROVE  unread' \in [Agents -> [MessageKinds -> Nat]]
BY DEF TypeOK, Post

\* It adds no answer unless it is one.
LEMMA PostKeeps ==
  ASSUME TypeOK, NEW a \in Agents, NEW k \in MessageKinds \ {"signal"}, Post(a, k)
  PROVE  \A b \in Agents : Has(b, "signal")' => Has(b, "signal")
BY DEF TypeOK, Post, Has, MessageKinds

\* Emitting only moves loops that wait.
LEMMA EmitMoves ==
  ASSUME TypeOK, NEW S, Emit(S)
  PROVE  /\ pc' \in [Loops -> PCs]
         /\ \A l \in Loops : pc'[l] = pc[l] \/ (pc[l] = "waiting" /\ pc'[l] = "top")
BY DEF TypeOK, Emit, Woken, PCs

\* Writing a row keeps the columns' types and the other rows.
LEMMA SetRowType ==
  ASSUME TypeOK, NEW a \in Agents, NEW v \in Statuses, NEW q \in BOOLEAN, SetRow(a, v, q)
  PROVE  /\ status' \in [Agents -> Statuses]
         /\ asking' \in [Agents -> BOOLEAN]
         /\ told' \in [Agents -> BOOLEAN]
BY DEF TypeOK, SetRow, rowVars

\* The same for the rows themselves: only a's changes, and a missing one does not.
LEMMA SetRowWrites ==
  ASSUME TypeOK, NEW a \in Agents, NEW v, NEW q, SetRow(a, v, q)
  PROVE  /\ \A b \in Agents : b # a => status'[b] = status[b] /\ told'[b] = told[b]
         /\ status'[a] = IF status[a] = "gone" THEN "gone" ELSE v
BY DEF TypeOK, SetRow, rowVars

\* A loop that goes on keeps the others where they are.
LEMMA GotoMoves ==
  ASSUME TypeOK, NEW l \in Loops, NEW where \in PCs, Goto(l, where)
  PROVE  /\ pc' \in [Loops -> PCs]
         /\ pc'[l] = where
         /\ \A m \in Loops : m # l => pc'[m] = pc[m]
BY DEF TypeOK, Goto

\* Aborting fires controllers, which keep their type.
LEMMA FiresType ==
  ASSUME TypeOK, NEW S, Fires(S)
  PROVE  fired' \in [Loops -> BOOLEAN]
BY DEF TypeOK, Fires

\* update() keeps the types of what it writes.
LEMMA UpdateType ==
  ASSUME TypeOK, NEW a \in Agents, Update(a)
  PROVE  /\ status' \in [Agents -> Statuses]
         /\ asking' \in [Agents -> BOOLEAN]
         /\ told' \in [Agents -> BOOLEAN]
         /\ unread' \in [Agents -> [MessageKinds -> Nat]]
         /\ pc' \in [Loops -> PCs]
<1> DEFINE Starts == status[a] = "completed" \/ (status[a] = "suspended" /\ registered[a] = NoLoop)
<1>1. {"signal", "update"} \subseteq MessageKinds /\ "running" \in Statuses /\ "starting" \in PCs
  BY DEF MessageKinds, Statuses, PCs
<1>2. CASE Starts
  <2>1. PICK l \in LoopsOf(a) : Place(a, l, "starting")
    BY <1>2 DEF Update
  <2>2. pc' \in [Loops -> PCs]
    BY <2>1, <1>1, GotoMoves DEF Place, LoopsOf
  <2>3. unread' \in [Agents -> [MessageKinds -> Nat]]
    BY <1>1, <1>2, PostType DEF Update
  <2>4. SetRow(a, "running", FALSE) \/ UNCHANGED rowVars
    BY <1>2 DEF Update
  <2> QED BY <1>1, <2>2, <2>3, <2>4, SetRowType DEF TypeOK, rowVars
<1>3. CASE ~Starts
  <2>1. pc' \in [Loops -> PCs]
    BY <1>3, EmitMoves DEF Update
  <2>2. unread' \in [Agents -> [MessageKinds -> Nat]]
    BY <1>1, <1>3, PostType DEF Update
  <2> QED BY <1>3, <2>1, <2>2 DEF Update, TypeOK, rowVars
<1> QED BY <1>2, <1>3

\* retract() keeps the types of what it writes.
LEMMA RetractType ==
  ASSUME TypeOK, NEW a \in Agents, Retract(a)
  PROVE  /\ status' \in [Agents -> Statuses]
         /\ asking' \in [Agents -> BOOLEAN]
         /\ told' \in [Agents -> BOOLEAN]
         /\ unread' \in [Agents -> [MessageKinds -> Nat]]
         /\ pc' \in [Loops -> PCs]
         /\ fired' \in [Loops -> BOOLEAN]
<1>1. "retract" \in MessageKinds /\ "retracted" \in Statuses
  BY DEF MessageKinds, Statuses
<1>2. CASE registered[a] # NoLoop
  BY <1>1, <1>2, PostType, EmitMoves, FiresType DEF Retract, TypeOK, rowVars
<1>3. CASE registered[a] = NoLoop /\ status[a] = "suspended"
  <2>1. Empty \in [MessageKinds -> Nat]
    BY DEF Empty
  <2>2. SetRow(a, "retracted", asking[a]) /\ asking[a] \in BOOLEAN
    BY <1>3 DEF Retract, TypeOK
  <2>3. /\ status' \in [Agents -> Statuses]
        /\ asking' \in [Agents -> BOOLEAN]
        /\ told' \in [Agents -> BOOLEAN]
    BY <1>1, <2>2, SetRowType
  <2>4. unread' \in [Agents -> [MessageKinds -> Nat]]
    BY <1>3, <2>1 DEF Retract, TypeOK
  <2> QED BY <1>3, <2>3, <2>4 DEF Retract, TypeOK
<1>4. CASE registered[a] = NoLoop /\ status[a] # "suspended"
  BY <1>4 DEF Retract, TypeOK, rowVars
<1> QED BY <1>2, <1>3, <1>4

\* spawn() keeps the types of what it writes.
LEMMA SpawnType ==
  ASSUME TypeOK, NEW a \in Agents, Spawn(a), UNCHANGED procVars
  PROVE  TypeOK'
<1>1. PICK l \in LoopsOf(a) : Place(a, l, "top") /\ registered' = [registered EXCEPT ![a] = l]
  BY DEF Spawn
<1>2. l \in Loops /\ "top" \in PCs /\ "running" \in Statuses
  BY DEF LoopsOf, PCs, Statuses
<1>3. pc' \in [Loops -> PCs]
  BY <1>1, <1>2, GotoMoves DEF Place
<1>4. registered' \in [Agents -> Loops \cup {NoLoop}]
  BY <1>1, <1>2 DEF TypeOK
<1> QED BY <1>2, <1>3, <1>4, SetRowType DEF Spawn, TypeOK, procVars, hostVars

\* So does the catch of the loop.
LEMMA ThrowsType ==
  ASSUME TypeOK, NEW l \in Loops, Throws(l), UNCHANGED procVars
  PROVE  TypeOK'
<1>1. Owner(l) \in Agents /\ asking[Owner(l)] \in BOOLEAN
  BY OwnerType DEF TypeOK
<1>2. {"retracted", "failed"} \subseteq Statuses /\ {"cleanup", "fail"} \subseteq PCs
  BY DEF Statuses, PCs, Reporting
<1>3. /\ \/ SetRow(Owner(l), "retracted", asking[Owner(l)])
         \/ SetRow(Owner(l), "failed", asking[Owner(l)])
      /\ Goto(l, "cleanup") \/ Goto(l, "fail")
  BY DEF Throws
<1>4. pc' \in [Loops -> PCs]
  BY <1>2, <1>3, GotoMoves
<1>5. /\ status' \in [Agents -> Statuses]
      /\ asking' \in [Agents -> BOOLEAN]
      /\ told' \in [Agents -> BOOLEAN]
  BY <1>1, <1>2, <1>3, SetRowType
<1> QED BY <1>4, <1>5 DEF Throws, TypeOK, procVars, hostVars

-----------------------------------------------------------------------------
(* The type invariant *)

\* Nothing that dies with the process leaves its type.
LEMMA GoneType ==
  ASSUME TypeOK, Gone
  PROVE  /\ registered' \in [Agents -> Loops \cup {NoLoop}]
         /\ pc' \in [Loops -> PCs]
         /\ isSuspended' \in [Loops -> BOOLEAN]
         /\ nudged' \in [Loops -> BOOLEAN]
         /\ watching' \in [Loops -> Loops \cup {NoLoop}]
         /\ fired' \in [Loops -> BOOLEAN]
         /\ checked' \in SUBSET Agents
         /\ resetting' \in BOOLEAN /\ closing' \in BOOLEAN /\ up' \in BOOLEAN
         /\ crashes' \in Nat
<1>1. "none" \in PCs
  BY DEF PCs
<1>2. pc' \in [Loops -> PCs]
  BY <1>1 DEF Gone
<1>3. crashes' \in Nat /\ registered' \in [Agents -> Loops \cup {NoLoop}]
  BY DEF Gone, TypeOK
<1>4. isSuspended' \in [Loops -> BOOLEAN] /\ nudged' \in [Loops -> BOOLEAN]
  BY DEF Gone
<1>5. watching' \in [Loops -> Loops \cup {NoLoop}] /\ fired' \in [Loops -> BOOLEAN]
  BY DEF Gone
<1> QED BY <1>2, <1>3, <1>4, <1>5 DEF Gone

\* The steps of a loop keep the types.
LEMMA LoopStepType ==
  ASSUME TypeOK, NEW l \in Loops, LoopStep(l)
  PROVE  TypeOK'
<1>1. Owner(l) \in Agents
  BY OwnerType
<1> USE <1>1
<1>2. CASE TopBlocked(l)
  BY <1>2, ThrowsType DEF TopBlocked
<1>3. CASE TopRetracted(l)
  <2>1. asking[Owner(l)] \in BOOLEAN /\ "retracted" \in Statuses /\ "cleanup" \in PCs
    BY DEF TypeOK, Statuses, PCs
  <2>2. unread' \in [Agents -> [MessageKinds -> Nat]]
    BY <1>3 DEF TopRetracted, Has, TypeOK, MessageKinds
  <2> QED BY <1>3, <2>1, <2>2, SetRowType, GotoMoves DEF TopRetracted, TypeOK, procVars, hostVars
<1>4. CASE Top(l)
  <2>1. {"waiting", "tools"} \subseteq PCs /\ "running" \in Statuses
    BY DEF PCs, Statuses
  <2>2. Empty \in [MessageKinds -> Nat]
    BY DEF Empty
  <2>3. unread' \in [Agents -> [MessageKinds -> Nat]]
    BY <1>4, <2>2 DEF Top, TypeOK
  <2>4. pc' \in [Loops -> PCs]
    BY <1>4, <2>1, GotoMoves DEF Top, Takes
  <2>5. isSuspended' \in [Loops -> BOOLEAN] /\ watching' \in [Loops -> Loops \cup {NoLoop}]
    BY <1>4 DEF Top, Takes, TypeOK, Resumed
  <2>6. /\ status' \in [Agents -> Statuses]
        /\ asking' \in [Agents -> BOOLEAN]
        /\ told' \in [Agents -> BOOLEAN]
    <3>1. SetRow(Owner(l), "running", FALSE) \/ UNCHANGED rowVars
      BY <1>4 DEF Top
    <3> QED BY <2>1, <3>1, SetRowType DEF TypeOK, rowVars
  <2> QED BY <1>4, <2>3, <2>4, <2>5, <2>6 DEF Top, Takes, TypeOK, procVars, hostVars
<1>5. CASE ReportsQuestion(l) \/ ReportsEnd(l)
  <2>1. {"result", "failure"} \subseteq MessageKinds /\ {"top", "cleanup"} \subseteq PCs
    BY DEF MessageKinds, PCs
  <2>2. PICK where \in {"top", "cleanup"} : Tell(l, where)
    BY <1>5 DEF ReportsQuestion, ReportsEnd
  <2>3. told' \in [Agents -> BOOLEAN] /\ pc' \in [Loops -> PCs]
    BY <2>1, <2>2 DEF Tell, TypeOK
  <2>4. unread' \in [Agents -> [MessageKinds -> Nat]]
    <3>1. CASE Parent[Owner(l)] = NoAgent
      BY <2>2, <3>1 DEF Tell, TypeOK
    <3>2. CASE Parent[Owner(l)] # NoAgent
      <4>1. Parent[Owner(l)] \in Agents
        BY <3>2, ConstantsAssumption
      <4>2. Post(Parent[Owner(l)], "failure") \/ Post(Parent[Owner(l)], "result")
        BY <2>2, <3>2 DEF Tell
      <4> QED BY <2>1, <4>1, <4>2, PostType
    <3> QED BY <3>1, <3>2
  <2>5. isSuspended' \in [Loops -> BOOLEAN]
    BY <1>5 DEF ReportsQuestion, ReportsEnd, TypeOK
  <2> QED BY <1>5, <2>3, <2>4, <2>5 DEF ReportsQuestion, ReportsEnd, TypeOK, procVars, hostVars
<1>6. CASE CleansUp(l)
  <2>1. Empty \in [MessageKinds -> Nat] /\ "none" \in PCs
    BY DEF Empty, PCs
  <2>2. unread' \in [Agents -> [MessageKinds -> Nat]]
    BY <1>6, <2>1 DEF CleansUp, TypeOK
  <2>3. pc' \in [Loops -> PCs]
    BY <1>6, <2>1, GotoMoves DEF CleansUp
  <2>4. /\ isSuspended' \in [Loops -> BOOLEAN]
        /\ nudged' \in [Loops -> BOOLEAN]
        /\ registered' \in [Agents -> Loops \cup {NoLoop}]
        /\ watching' \in [Loops -> Loops \cup {NoLoop}]
    BY <1>6 DEF CleansUp, TypeOK
  <2>5. fired' \in [Loops -> BOOLEAN]
    BY <1>6 DEF CleansUp, TypeOK
  <2> QED BY <1>6, <2>2, <2>3, <2>4, <2>5 DEF CleansUp, TypeOK, procVars, hostVars, rowVars
<1>7. CASE Begin(l)
  <2>1. "top" \in PCs
    BY DEF PCs
  <2>2. registered' \in [Agents -> Loops \cup {NoLoop}] /\ isSuspended' \in [Loops -> BOOLEAN]
    BY <1>7 DEF Begin, TypeOK
  <2> QED BY <1>7, <2>1, <2>2, GotoMoves DEF Begin, TypeOK, procVars, hostVars, rowVars
<1>8. CASE Wakes(l) \/ EndTurn(l)
  <2>1. {"top", "waiting", "steward"} \subseteq PCs
    BY DEF PCs
  <2>2. pc' \in [Loops -> PCs]
    BY <1>8, <2>1, GotoMoves DEF Wakes, EndTurn, EndsTurn
  <2> QED BY <1>8, <2>2 DEF Wakes, EndTurn, EndsTurn, TypeOK, procVars, hostVars, rowVars
<1>9. CASE RoundAborts(l)
  BY <1>9, ThrowsType DEF RoundAborts
<1>10. CASE Completes(l) \/ Suspends(l)
  <2>1. {"ask", "done"} \subseteq PCs /\ {"completed", "suspended"} \subseteq Statuses
    BY DEF PCs, Reporting, Statuses
  <2>2. pc' \in [Loops -> PCs]
    BY <1>10, <2>1, GotoMoves DEF Completes, Suspends
  <2>3. /\ status' \in [Agents -> Statuses]
        /\ asking' \in [Agents -> BOOLEAN]
        /\ told' \in [Agents -> BOOLEAN]
    <3>1. asking[Owner(l)] \in BOOLEAN
      BY DEF TypeOK
    <3> QED BY <1>10, <2>1, <3>1, SetRowType DEF Completes, Suspends
  <2> QED BY <1>10, <2>2, <2>3 DEF Completes, Suspends, TypeOK, procVars, hostVars
<1> QED BY <1>2, <1>3, <1>4, <1>5, <1>6, <1>7, <1>8, <1>9, <1>10 DEF LoopStep, RunsOn

\* So does what the model and its tools choose.
LEMMA ToolStepType ==
  ASSUME TypeOK, NEW l \in Loops, ToolStep(l)
  PROVE  TypeOK'
<1>1. Owner(l) \in Agents
  BY OwnerType
<1>2. CASE Round(l)
  <2>1. unread' \in [Agents -> [MessageKinds -> Nat]]
    BY <1>1, <1>2 DEF Round, TypeOK, MessageKinds
  <2> QED BY <1>2, <2>1 DEF Round, TypeOK, procVars, hostVars, rowVars, loopVars
<1>3. CASE ToolsThrow(l)
  BY <1>3, ThrowsType DEF ToolsThrow
<1>4. CASE EndTurnWithoutTools(l)
  <2>1. CASE nudged[l]
    BY <1>4, <2>1, ThrowsType DEF EndTurnWithoutTools
  <2>2. CASE ~nudged[l]
    <3>1. "top" \in PCs
      BY DEF PCs
    <3>2. pc' \in [Loops -> PCs] /\ nudged' \in [Loops -> BOOLEAN]
      BY <1>4, <2>2, <3>1, GotoMoves DEF EndTurnWithoutTools, TypeOK
    <3> QED BY <1>4, <2>2, <3>2 DEF EndTurnWithoutTools, TypeOK, procVars, hostVars, rowVars
  <2> QED BY <2>1, <2>2
<1>5. CASE Responds(l)
  <2>1. Parent[Owner(l)] \in Agents /\ "update" \in MessageKinds
    BY <1>1, <1>5, ConstantsAssumption DEF Responds, MessageKinds
  <2>2. unread' \in [Agents -> [MessageKinds -> Nat]] /\ pc' \in [Loops -> PCs]
    BY <1>5, <2>1, PostType, EmitMoves DEF Responds
  <2> QED BY <1>5, <2>2 DEF Responds, Send, TypeOK, rowVars
<1>6. ASSUME NEW c \in Agents, ParentSpawns(l, c) PROVE TypeOK'
  BY <1>6, SpawnType DEF ParentSpawns
<1>7. ASSUME NEW c \in Agents, ParentSends(l, c) PROVE TypeOK'
  <2>1. Update(c)
    BY <1>7 DEF ParentSends
  <2> QED BY <1>7, <2>1, UpdateType DEF ParentSends, Send, TypeOK
<1>8. ASSUME NEW c \in Agents, ParentCancels(l, c) PROVE TypeOK'
  <2>1. Retract(c)
    BY <1>8 DEF ParentCancels
  <2> QED BY <1>8, <2>1, RetractType DEF ParentCancels, Send, TypeOK
<1> QED BY <1>2, <1>3, <1>4, <1>5, <1>6, <1>7, <1>8 DEF ToolStep

\* So do the head and the dashboard.
LEMMA HeadStepType ==
  ASSUME TypeOK, NEW a \in Agents, HeadStep(a)
  PROVE  TypeOK'
<1>1. CASE HeadSpawns(a)
  BY <1>1, SpawnType DEF HeadSpawns
<1>2. CASE HeadChecks(a) \/ StewardRefuses(a)
  BY <1>2 DEF HeadChecks, StewardRefuses, Send, TypeOK, rowVars, loopVars
<1>3. CASE HeadSends(a)
  <2>1. Update(a)
    BY <1>3 DEF HeadSends
  <2> QED BY <1>3, <2>1, UpdateType DEF HeadSends, TypeOK
<1>4. CASE Cancels(a)
  <2>1. Retract(a)
    BY <1>4 DEF Cancels
  <2> QED BY <1>4, <2>1, RetractType DEF Cancels, Send, TypeOK
<1>5. CASE ArchivalRetracts(a)
  <2>1. asking[a] \in BOOLEAN /\ "retracted" \in Statuses
    BY DEF TypeOK, Statuses
  <2> QED BY <1>5, <2>1, SetRowType DEF ArchivalRetracts, TypeOK, loopVars, procVars, hostVars
<1> QED BY <1>1, <1>2, <1>3, <1>4, <1>5 DEF HeadStep

\* So do resets, restarts and the budget.
LEMMA ProcessStepType ==
  ASSUME TypeOK, ProcessStep
  PROVE  TypeOK'
<1>1. Empty \in [MessageKinds -> Nat] /\ "retract" \in MessageKinds
  BY DEF Empty, MessageKinds
<1>2. {"retracted", "none", "gone", "failed"} \subseteq Statuses
  BY DEF Statuses
<1>3. CASE ResetRetracts
  <2>1. pc' \in [Loops -> PCs] /\ fired' \in [Loops -> BOOLEAN]
    BY <1>3, EmitMoves, FiresType DEF ResetRetracts
  <2>2. unread' \in [Agents -> [MessageKinds -> Nat]]
    BY <1>1, <1>3 DEF ResetRetracts, TypeOK
  <2>3. status' \in [Agents -> Statuses] /\ told' \in [Agents -> BOOLEAN]
    BY <1>2, <1>3 DEF ResetRetracts, TypeOK
  <2> QED BY <1>3, <2>1, <2>2, <2>3 DEF ResetRetracts, TypeOK
<1>4. CASE ResetClears
  BY <1>1, <1>2, <1>4 DEF ResetClears, TypeOK, loopVars
<1>5. CASE Crash
  BY <1>5, GoneType DEF Crash, TypeOK, rowVars
<1>6. CASE Boot
  <2>1. status' \in [Agents -> Statuses] /\ told' \in [Agents -> BOOLEAN]
    BY <1>2, <1>6 DEF Boot, TypeOK
  <2> QED BY <1>6, <2>1 DEF Boot, TypeOK, loopVars
<1>7. CASE Closes
  <2>1. pc' \in [Loops -> PCs] /\ fired' \in [Loops -> BOOLEAN]
    BY <1>7, EmitMoves, FiresType DEF Closes
  <2>2. unread' \in [Agents -> [MessageKinds -> Nat]]
    BY <1>1, <1>7 DEF Closes, TypeOK
  <2> QED BY <1>7, <2>1, <2>2 DEF Closes, TypeOK, rowVars
<1>8. CASE Exits
  <2>1. status' \in [Agents -> Statuses] /\ told' \in [Agents -> BOOLEAN]
    BY <1>2, <1>8 DEF Exits, TypeOK
  <2> QED BY <1>8, <2>1, GoneType DEF Exits, TypeOK
<1>9. CASE BudgetChanges
  BY <1>9 DEF BudgetChanges, TypeOK, rowVars, loopVars
<1> QED BY <1>3, <1>4, <1>5, <1>6, <1>7, <1>8, <1>9 DEF ProcessStep

\* Every step keeps the types.
LEMMA TypeStep == TypeOK /\ [Next]_vars => TypeOK'
<1> SUFFICES ASSUME TypeOK, [Next]_vars PROVE TypeOK' OBVIOUS
<1>1. CASE UNCHANGED vars
  BY <1>1 DEF TypeOK, vars, rowVars, loopVars, procVars, hostVars
<1>2. CASE Next
  BY <1>2, LoopStepType, ToolStepType, HeadStepType, ProcessStepType DEF Next
<1> QED BY <1>1, <1>2

-----------------------------------------------------------------------------
(* The inductive invariant: two kinds of step *)

\* A loop that at most is woken.
AtMostWakes(l) == pc'[l] = pc[l] \/ (pc[l] = "waiting" /\ pc'[l] = "top")

\* A step that starts or ends no turn, writes no answer and no outcome.
LEMMA GentleStep ==
  ASSUME IInv, TypeOK',
         \A l \in Loops : AtMostWakes(l),
         isSuspended' = isSuspended,
         cut' = cut,
         \A a \in Agents : Has(a, "signal")' => Has(a, "signal"),
         \A a \in Agents : status'[a] = "none" => status[a] = "none",
         \A a \in Agents : status'[a] \in {"completed", "suspended"}
                            => status'[a] = status[a] /\ told'[a] = told[a]
  PROVE  IInv'
<1>1. \A l \in Loops : Working(l)' = Working(l)
  BY DEF IInv, AtMostWakes, Working, PCs
<1>2. OneActiveLoop'
  BY <1>1 DEF IInv, OneActiveLoop, LoopsOf
<1>3. SignalForIdle'
  BY <1>1 DEF IInv, SignalForIdle, LoopsOf
<1>4. EndedLoopsFinish'
  BY <1>1 DEF IInv, EndedLoopsFinish, LoopsOf, AtMostWakes, Reporting
<1>5. AwakeAtWork'
  BY DEF IInv, AwakeAtWork, AtMostWakes
<1>6. UnbornAtRest'
  BY DEF IInv, UnbornAtRest, LoopsOf, AtMostWakes
<1>7. OutcomeOnItsWay'
  BY DEF IInv, OutcomeOnItsWay, LoopsOf, AtMostWakes
<1> QED BY <1>2, <1>3, <1>4, <1>5, <1>6, <1>7 DEF IInv

\* A step of one loop that does not resume it: it may end the turn, and then
\* has nothing but its report left.
LEMMA LoneStep ==
  ASSUME IInv, TypeOK', NEW l \in Loops,
         pc[l] # "none",
         \A m \in Loops : m # l => AtMostWakes(m) /\ isSuspended'[m] = isSuspended[m],
         cut' = cut,
         \A a \in Agents : Has(a, "signal")' => Has(a, "signal"),
         \A a \in Agents : a # Owner(l) => status'[a] = status[a] /\ told'[a] = told[a],
         status'[Owner(l)] # "none",
         Working(l)' => Working(l),
         Working(l)' /\ status'[Owner(l)] \in {"completed", "suspended"}
           => pc'[l] \in Reporting \cup {"cleanup"},
         pc'[l] \in {"tools", "steward", "ask", "done"} => ~isSuspended'[l],
         status'[Owner(l)] \in {"completed", "suspended"}
           => status'[Owner(l)] = status[Owner(l)] \/ Working(l),
         status'[Owner(l)] \in {"completed", "suspended"}
           => \/ told'[Owner(l)]
              \/ pc'[l] \in {"ask", "done"}
              \/ /\ status'[Owner(l)] = status[Owner(l)]
                 /\ told'[Owner(l)] = told[Owner(l)]
                 /\ pc[l] \notin {"ask", "done"}
  PROVE  IInv'
<1>1. \A m \in Loops : m # l => Working(m)' = Working(m)
  BY DEF IInv, AtMostWakes, Working, PCs
<1>2. \A m \in Loops : Working(m)' => Working(m)
  BY <1>1
<1>3. OneActiveLoop'
  BY <1>2 DEF IInv, OneActiveLoop, LoopsOf
<1>4. SignalForIdle'
  BY <1>2 DEF IInv, SignalForIdle, LoopsOf
<1>5. EndedLoopsFinish'
  <2> SUFFICES ASSUME NEW a \in Agents, status'[a] \in {"completed", "suspended"},
                      NEW m \in LoopsOf(a), Working(m)'
               PROVE  pc'[m] \in Reporting \cup {"cleanup"}
    BY DEF EndedLoopsFinish, LoopsOf
  <2>1. m \in Loops /\ Owner(m) = a
    BY DEF LoopsOf
  <2>2. CASE m = l
    BY <2>1, <2>2
  <2>3. CASE m # l
    <3>1. Working(m) /\ AtMostWakes(m)
      BY <1>1, <2>1, <2>3
    <3>2. ~(Working(l) /\ Owner(l) = a)
      BY <2>1, <2>3, <3>1 DEF IInv, OneActiveLoop, LoopsOf
    <3>3. status[a] = status'[a]
      BY <3>2
    <3>4. pc[m] \in Reporting \cup {"cleanup"}
      BY <2>1, <3>1, <3>3 DEF IInv, EndedLoopsFinish
    <3> QED BY <3>1, <3>4 DEF AtMostWakes, Reporting
  <2> QED BY <2>2, <2>3
<1>6. AwakeAtWork'
  BY DEF IInv, AwakeAtWork, AtMostWakes
<1>7. UnbornAtRest'
  <2> SUFFICES ASSUME NEW a \in Agents, status'[a] = "none"
               PROVE  ~Has(a, "signal")' /\ \A m \in LoopsOf(a) : pc'[m] = "none"
    BY DEF UnbornAtRest, LoopsOf
  <2>1. a # Owner(l) /\ status[a] = "none"
    OBVIOUS
  <2> QED BY <2>1 DEF IInv, UnbornAtRest, LoopsOf, AtMostWakes
<1>8. OutcomeOnItsWay'
  <2> SUFFICES ASSUME NEW a \in Agents, status'[a] \in {"completed", "suspended"}, ~cut,
                      ~told'[a]
               PROVE  \E m \in LoopsOf(a) : pc'[m] \in {"ask", "done"}
    BY DEF OutcomeOnItsWay, LoopsOf
  <2>1. CASE a = Owner(l) /\ pc'[l] \in {"ask", "done"}
    BY <2>1 DEF LoopsOf
  <2>2. CASE ~(a = Owner(l) /\ pc'[l] \in {"ask", "done"})
    <3>1. status[a] = status'[a] /\ told[a] = told'[a]
          /\ (a = Owner(l) => pc[l] \notin {"ask", "done"})
      BY <2>2
    <3>2. PICK m \in LoopsOf(a) : pc[m] \in {"ask", "done"}
      BY <3>1 DEF IInv, OutcomeOnItsWay
    <3>3. m \in Loops /\ m # l
      BY <3>1, <3>2 DEF LoopsOf
    <3> QED BY <3>2, <3>3 DEF AtMostWakes
  <2> QED BY <2>1, <2>2
<1> QED BY <1>3, <1>4, <1>5, <1>6, <1>7, <1>8 DEF IInv

-----------------------------------------------------------------------------
(* The inductive invariant: where loops begin and end *)

\* No agent that may be answered has a loop at work while the thread is free.
LEMMA FreeMeansEnded ==
  ASSUME IInv, Free, NEW a \in Agents, status[a] \in {"completed", "suspended"}
  PROVE  \A l \in LoopsOf(a) : ~Working(l)
BY DEF IInv, EndedLoopsFinish, Free, Running, LoopsOf, Reporting

\* update() starts a loop or writes an answer only where none is at work.
LEMMA UpdateInv ==
  ASSUME IInv, TypeOK', Free, NEW a \in Agents, Update(a),
         UNCHANGED <<isSuspended, cut>>
  PROVE  IInv'
<1> DEFINE Starts == status[a] = "completed" \/ (status[a] = "suspended" /\ registered[a] = NoLoop)
<1> USE DEF IInv
<1>1. CASE ~Starts /\ status[a] # "suspended"
  <2>1. Post(a, "update") /\ Emit({a}) /\ UNCHANGED rowVars
    BY <1>1 DEF Update
  <2>2. \A l \in Loops : AtMostWakes(l)
    BY <2>1, EmitMoves DEF AtMostWakes
  <2>3. \A b \in Agents : Has(b, "signal")' => Has(b, "signal")
    BY <2>1 DEF Post, Has, TypeOK, MessageKinds
  <2> QED BY <2>1, <2>2, <2>3, GentleStep DEF rowVars
<1>2. CASE Starts \/ status[a] = "suspended"
  <2>1. \A l \in LoopsOf(a) : ~Working(l)
    BY <1>2, FreeMeansEnded
  <2>2. Post(a, "signal")
    BY <1>2 DEF Update
  <2>3. \A b \in Agents : b # a => (Has(b, "signal")' => Has(b, "signal"))
    BY <2>2 DEF Post, Has, TypeOK, MessageKinds
  <2>4. /\ \A b \in Agents : b # a => status'[b] = status[b] /\ told'[b] = told[b]
        /\ status'[a] = IF status[a] = "completed" THEN "running" ELSE status[a]
        /\ status[a] # "completed" => told'[a] = told[a]
    BY <1>2, SetRowWrites DEF Update, rowVars
  <2>5. \A l \in Loops : \/ AtMostWakes(l)
                         \/ Owner(l) = a /\ pc[l] = "none" /\ pc'[l] = "starting"
    <3>1. CASE Starts
      <4>1. PICK l \in LoopsOf(a) : Place(a, l, "starting")
        BY <3>1 DEF Update
      <4>2. l \in Loops /\ Owner(l) = a
        BY <4>1 DEF LoopsOf
      <4> QED BY <4>1, <4>2, GotoMoves DEF Place, Idle, AtMostWakes, PCs
    <3>2. CASE ~Starts
      BY <3>2, EmitMoves DEF Update, AtMostWakes
    <3> QED BY <3>1, <3>2
  <2>6. \A l \in Loops : Working(l)' = Working(l)
    BY <2>5 DEF AtMostWakes, Working, PCs
  <2>7. status[a] \in {"completed", "suspended"}
    BY <1>2
  <2>8. OneActiveLoop' /\ SignalForIdle'
    BY <2>1, <2>3, <2>6 DEF OneActiveLoop, SignalForIdle, LoopsOf
  <2>9. EndedLoopsFinish'
    BY <2>1, <2>4, <2>5, <2>6 DEF EndedLoopsFinish, LoopsOf, AtMostWakes, Reporting
  <2>10. AwakeAtWork'
    BY <2>5 DEF AwakeAtWork, AtMostWakes
  <2>11. UnbornAtRest'
    BY <2>3, <2>4, <2>5, <2>7 DEF UnbornAtRest, LoopsOf, AtMostWakes
  <2>12. OutcomeOnItsWay'
    BY <2>4, <2>5 DEF OutcomeOnItsWay, LoopsOf, AtMostWakes
  <2> QED BY <2>8, <2>9, <2>10, <2>11, <2>12
<1> QED BY <1>1, <1>2

\* spawn() starts the first loop of an agent.
LEMMA SpawnInv ==
  ASSUME IInv, TypeOK', NEW a \in Agents, Spawn(a), cut' = cut
  PROVE  IInv'
<1> USE DEF IInv
<1>1. PICK l \in LoopsOf(a) : Place(a, l, "top")
  BY DEF Spawn
<1>2. l \in Loops /\ Owner(l) = a
  BY <1>1 DEF LoopsOf
<1>3. \A m \in Loops : m # l => pc'[m] = pc[m]
  BY <1>1, <1>2, GotoMoves DEF Place, PCs
<1>4. pc'[l] = "top" /\ \A m \in LoopsOf(a) : pc[m] = "none"
  BY <1>1, <1>2, GotoMoves DEF Place, Spawn, UnbornAtRest, PCs
<1>5. status'[a] = "running" /\ \A b \in Agents : b # a => status'[b] = status[b] /\ told'[b] = told[b]
  BY SetRowWrites DEF Spawn
<1>6. unread' = unread /\ isSuspended' = isSuspended /\ ~Has(a, "signal")
  BY DEF Spawn, UnbornAtRest
<1>7. \A m \in Loops : Owner(m) # a => Working(m)' = Working(m)
  BY <1>2, <1>3, <1>6 DEF Working
<1>8. \A m \in LoopsOf(a) : Working(m)' => m = l
  BY <1>3, <1>4 DEF Working, LoopsOf
<1>9. OneActiveLoop'
  BY <1>7, <1>8 DEF OneActiveLoop, LoopsOf
<1>10. SignalForIdle'
  BY <1>6, <1>7 DEF SignalForIdle, LoopsOf, Has
<1>11. EndedLoopsFinish' /\ UnbornAtRest' /\ OutcomeOnItsWay'
  <2>1. \A b \in Agents : b # a => \A m \in LoopsOf(b) : pc'[m] = pc[m] /\ Working(m)' = Working(m)
    BY <1>2, <1>3, <1>7 DEF LoopsOf
  <2>2. \A b \in Agents : Has(b, "signal")' = Has(b, "signal")
    BY <1>6 DEF Has
  <2>3. EndedLoopsFinish'
    BY <1>5, <2>1 DEF EndedLoopsFinish, LoopsOf
  <2>4. UnbornAtRest'
    BY <1>5, <2>1, <2>2 DEF UnbornAtRest, LoopsOf
  <2>5. OutcomeOnItsWay'
    BY <1>5, <2>1 DEF OutcomeOnItsWay, LoopsOf
  <2> QED BY <2>3, <2>4, <2>5
<1>12. AwakeAtWork'
  BY <1>3, <1>4, <1>6 DEF AwakeAtWork
<1> QED BY <1>9, <1>10, <1>11, <1>12

\* The loop that takes an answer is the only one at work, and empties the inbox.
LEMMA ResumeInv ==
  ASSUME IInv, TypeOK', NEW l \in Loops, Top(l), Resumed(l)
  PROVE  IInv'
<1> USE DEF IInv
<1> DEFINE a == Owner(l)
<1>1. a \in Agents /\ l \in LoopsOf(a)
  BY OwnerType DEF LoopsOf
<1>2. \A m \in LoopsOf(a) : ~Working(m)
  BY <1>1 DEF Resumed, SignalForIdle
<1>3. /\ pc'[l] = "tools" /\ ~isSuspended'[l]
      /\ \A m \in Loops : m # l => pc'[m] = pc[m] /\ isSuspended'[m] = isSuspended[m]
  BY GotoMoves DEF Top, Takes, TypeOK, PCs
<1>4. ~Has(a, "signal")' /\ \A b \in Agents : b # a => Has(b, "signal")' = Has(b, "signal")
  BY <1>1 DEF Top, Has, TypeOK, Empty, MessageKinds
<1>5. /\ status'[a] \in {"running", "gone"}
      /\ \A b \in Agents : b # a => status'[b] = status[b] /\ told'[b] = told[b]
  BY <1>1, SetRowWrites DEF Top
<1>6. \A m \in Loops : m # l => Working(m)' = Working(m)
  BY <1>3 DEF Working
<1>7. cut' = cut
  BY DEF Top, Takes, procVars, hostVars
<1>8. OneActiveLoop' /\ SignalForIdle'
  BY <1>2, <1>4, <1>6 DEF OneActiveLoop, SignalForIdle, LoopsOf
<1>9. \A b \in Agents : b # a => \A m \in LoopsOf(b) : m # l
  BY DEF LoopsOf
<1>10. EndedLoopsFinish'
  BY <1>3, <1>5, <1>6, <1>9 DEF EndedLoopsFinish, LoopsOf
<1>11. AwakeAtWork'
  BY <1>3 DEF AwakeAtWork
<1>12. UnbornAtRest'
  BY <1>3, <1>4, <1>5, <1>9 DEF UnbornAtRest, LoopsOf
<1>13. OutcomeOnItsWay'
  BY <1>3, <1>5, <1>7, <1>9 DEF OutcomeOnItsWay, LoopsOf
<1> QED BY <1>8, <1>10, <1>11, <1>12, <1>13

\* A process that dies takes its loops along; an outcome it has written and not
\* told is what cut remembers.
LEMMA GoneInv ==
  ASSUME IInv, TypeOK', Gone,
         \A a \in Agents : status'[a] = "none" => status[a] = "none",
         \A a \in Agents : status'[a] \in {"completed", "suspended"}
                            => status'[a] = status[a] /\ told'[a] = told[a],
         unread' = unread,
         cut' = (cut \/ \E l \in Loops : pc[l] \in Reporting)
  PROVE  IInv'
<1> USE DEF IInv
<1>1. \A l \in Loops : pc'[l] = "none" /\ ~Working(l)'
  BY DEF Gone, Working
<1>2. OneActiveLoop' /\ SignalForIdle' /\ EndedLoopsFinish' /\ AwakeAtWork'
  BY <1>1 DEF OneActiveLoop, SignalForIdle, EndedLoopsFinish, AwakeAtWork, LoopsOf
<1>3. UnbornAtRest'
  BY <1>1 DEF UnbornAtRest, LoopsOf, Has
<1>4. OutcomeOnItsWay'
  BY DEF OutcomeOnItsWay, LoopsOf, Reporting
<1> QED BY <1>2, <1>3, <1>4

-----------------------------------------------------------------------------
(* The inductive invariant: every step *)

\* An error or a cancellation ends the agent, whoever else works on it.
LEMMA ThrowsInv ==
  ASSUME IInv, TypeOK', NEW l \in Loops, Throws(l), pc[l] \in {"top", "tools"}, cut' = cut
  PROVE  IInv'
<1> USE DEF IInv
<1>1. Owner(l) \in Agents
  BY OwnerType
<1>2. /\ \/ SetRow(Owner(l), "retracted", asking[Owner(l)])
         \/ SetRow(Owner(l), "failed", asking[Owner(l)])
      /\ Goto(l, "cleanup") \/ Goto(l, "fail")
      /\ unread' = unread /\ isSuspended' = isSuspended
  BY DEF Throws
<1>3. /\ status'[Owner(l)] \in {"retracted", "failed", "gone"}
      /\ \A b \in Agents : b # Owner(l) => status'[b] = status[b] /\ told'[b] = told[b]
  BY <1>1, <1>2, SetRowWrites
<1>4. pc'[l] \in {"cleanup", "fail"} /\ \A m \in Loops : m # l => AtMostWakes(m)
  BY <1>2, GotoMoves DEF AtMostWakes, PCs, Reporting
<1>5. Working(l)' => Working(l)
  BY <1>2 DEF Working, PCs
<1> QED BY <1>2, <1>3, <1>4, <1>5, LoneStep DEF Has

LEMMA LoopStepInv ==
  ASSUME IInv, TypeOK', NEW l \in Loops, LoopStep(l)
  PROVE  IInv'
<1> USE DEF IInv
<1>1. Owner(l) \in Agents /\ l \in LoopsOf(Owner(l))
  BY OwnerType DEF LoopsOf
<1>2. CASE TopBlocked(l)
  BY <1>2, ThrowsInv DEF TopBlocked, procVars, hostVars
<1>3. CASE TopRetracted(l)
  <2>1. /\ status'[Owner(l)] \in {"retracted", "gone"}
        /\ \A b \in Agents : b # Owner(l) => status'[b] = status[b] /\ told'[b] = told[b]
    BY <1>1, <1>3, SetRowWrites DEF TopRetracted
  <2>2. pc'[l] = "cleanup" /\ \A m \in Loops : m # l => AtMostWakes(m)
    BY <1>3, GotoMoves DEF TopRetracted, AtMostWakes, PCs
  <2>3. isSuspended' = isSuspended /\ cut' = cut /\ pc[l] = "top"
    BY <1>3 DEF TopRetracted, procVars, hostVars
  <2>4. \A a \in Agents : Has(a, "signal")' = Has(a, "signal")
    BY <1>1, <1>3 DEF TopRetracted, Has, TypeOK, MessageKinds
  <2>5. Working(l)' => Working(l)
    BY <2>3 DEF Working, PCs
  <2> QED BY <2>1, <2>2, <2>3, <2>4, <2>5, LoneStep
<1>4. CASE Top(l)
  <2>1. CASE Resumed(l)
    BY <1>4, <2>1, ResumeInv
  <2>2. CASE ~Resumed(l)
    <3>1. pc[l] = "top" /\ status' = status /\ told' = told /\ cut' = cut
      BY <1>4, <2>2 DEF Top, Takes, rowVars, procVars, hostVars
    <3>2. /\ pc'[l] = IF isSuspended[l] THEN "waiting" ELSE "tools"
          /\ isSuspended'[l] = isSuspended[l]
          /\ \A m \in Loops : m # l => AtMostWakes(m) /\ isSuspended'[m] = isSuspended[m]
      BY <1>4, <2>2, GotoMoves DEF Top, Takes, AtMostWakes, TypeOK, PCs
    <3>3. \A a \in Agents : Has(a, "signal")' => Has(a, "signal")
      BY <1>1, <1>4 DEF Top, Has, TypeOK, Empty, MessageKinds
    <3>4. Working(l)' => Working(l)
      BY <3>1, <3>2 DEF Working, PCs
    <3>5. Working(l) => status[Owner(l)] \notin {"completed", "suspended"}
      BY <1>1, <3>1 DEF EndedLoopsFinish, Reporting
    <3>6. status[Owner(l)] # "none"
      BY <1>1, <3>1 DEF UnbornAtRest
    <3> QED BY <3>1, <3>2, <3>3, <3>4, <3>5, <3>6, LoneStep
  <2> QED BY <2>1, <2>2
<1>5. CASE ReportsQuestion(l) \/ ReportsEnd(l)
  <2>1. PICK where \in {"top", "cleanup"} :
          /\ Tell(l, where)
          /\ where = "top" <=> ReportsQuestion(l)
    BY <1>5 DEF ReportsQuestion, ReportsEnd
  <2>2. /\ pc[l] \in Reporting /\ status' = status /\ cut' = cut
        /\ \A m \in Loops : m # l => isSuspended'[m] = isSuspended[m]
        /\ where = "top" => isSuspended'[l]
        /\ where = "cleanup" => isSuspended'[l] = isSuspended[l]
    BY <1>5, <2>1 DEF ReportsQuestion, ReportsEnd, Reporting, procVars, hostVars, TypeOK
  <2>3. pc'[l] = where /\ \A m \in Loops : m # l => AtMostWakes(m)
    BY <2>1 DEF Tell, AtMostWakes, Woken, TypeOK
  <2>4. /\ told'[Owner(l)] = (status[Owner(l)] # "gone")
        /\ \A b \in Agents : b # Owner(l) => told'[b] = told[b]
    BY <1>1, <2>1 DEF Tell, TypeOK
  <2>5. \A a \in Agents : Has(a, "signal")' => Has(a, "signal")
    <3>1. CASE Parent[Owner(l)] = NoAgent
      BY <2>1, <3>1 DEF Tell, Has
    <3>2. CASE Parent[Owner(l)] # NoAgent
      <4>1. Parent[Owner(l)] \in Agents
        BY <1>1, <3>2, ConstantsAssumption
      <4>2. Post(Parent[Owner(l)], "failure") \/ Post(Parent[Owner(l)], "result")
        BY <2>1, <3>2 DEF Tell
      <4> QED BY <4>1, <4>2, PostKeeps DEF MessageKinds
    <3> QED BY <3>1, <3>2
  <2>6. Working(l)' => Working(l)
    BY <2>2, <2>3 DEF Working, PCs, Reporting
  <2>7. Working(l)' => where = "cleanup"
    BY <2>2 DEF Working
  <2>8. status[Owner(l)] # "none"
    BY <1>1, <2>2 DEF UnbornAtRest, Reporting
  <2> QED BY <2>2, <2>3, <2>4, <2>5, <2>6, <2>7, <2>8, LoneStep DEF Reporting
<1>6. CASE CleansUp(l)
  <2>1. pc[l] = "cleanup" /\ status' = status /\ told' = told /\ cut' = cut
    BY <1>6 DEF CleansUp, rowVars, procVars, hostVars
  <2>2. pc'[l] = "none"
        /\ \A m \in Loops : m # l => AtMostWakes(m) /\ isSuspended'[m] = isSuspended[m]
    BY <1>6, GotoMoves DEF CleansUp, AtMostWakes, TypeOK, PCs
  <2>3. \A a \in Agents : Has(a, "signal")' => Has(a, "signal")
    BY <1>1, <1>6 DEF CleansUp, Has, TypeOK, Empty, MessageKinds
  <2>4. ~Working(l)'
    BY <2>2 DEF Working
  <2>5. status[Owner(l)] # "none"
    BY <1>1, <2>1 DEF UnbornAtRest
  <2> QED BY <2>1, <2>2, <2>3, <2>4, <2>5, LoneStep
<1>7. CASE Begin(l)
  <2>1. pc[l] = "starting" /\ status' = status /\ told' = told /\ cut' = cut /\ unread' = unread
    BY <1>7 DEF Begin, rowVars, procVars, hostVars
  <2>2. /\ pc'[l] = "top" /\ isSuspended'[l]
        /\ \A m \in Loops : m # l => AtMostWakes(m) /\ isSuspended'[m] = isSuspended[m]
    BY <1>7, GotoMoves DEF Begin, AtMostWakes, TypeOK, PCs
  <2>3. ~Working(l)'
    BY <2>2 DEF Working
  <2>4. status[Owner(l)] # "none"
    BY <1>1, <2>1 DEF UnbornAtRest
  <2> QED BY <2>1, <2>2, <2>3, <2>4, LoneStep DEF Has
<1>8. CASE Wakes(l)
  <2>1. \A m \in Loops : AtMostWakes(m)
    BY <1>8, GotoMoves DEF Wakes, AtMostWakes, PCs
  <2> QED BY <1>8, <2>1, GentleStep DEF Wakes, rowVars, procVars, hostVars, Has
<1>9. CASE EndTurn(l)
  <2>1. pc[l] = "tools" /\ status' = status /\ told' = told /\ cut' = cut /\ unread' = unread
        /\ isSuspended' = isSuspended
    BY <1>9 DEF EndTurn, EndsTurn, rowVars, procVars, hostVars
  <2>2. pc'[l] \in {"top", "waiting", "steward"} /\ \A m \in Loops : m # l => AtMostWakes(m)
    BY <1>9, GotoMoves DEF EndTurn, EndsTurn, AtMostWakes, PCs
  <2>3. Working(l) /\ ~isSuspended[l]
    BY <2>1 DEF Working, AwakeAtWork, PCs
  <2>4. status[Owner(l)] \notin {"completed", "suspended"}
    BY <1>1, <2>1, <2>3 DEF EndedLoopsFinish, Reporting
  <2>5. status[Owner(l)] # "none"
    BY <1>1, <2>1 DEF UnbornAtRest
  <2> QED BY <2>1, <2>2, <2>3, <2>4, <2>5, LoneStep DEF Has
<1>10. CASE RoundAborts(l)
  BY <1>10, ThrowsInv DEF RoundAborts, procVars, hostVars
<1>11. CASE Completes(l) \/ Suspends(l)
  <2>1. pc[l] = "steward" /\ unread' = unread /\ isSuspended' = isSuspended /\ cut' = cut
    BY <1>11 DEF Completes, Suspends, procVars, hostVars
  <2>2. pc'[l] \in {"ask", "done"} /\ \A m \in Loops : m # l => AtMostWakes(m)
    BY <1>11, GotoMoves DEF Completes, Suspends, AtMostWakes, PCs, Reporting
  <2>3. /\ status'[Owner(l)] \in {"completed", "suspended", "gone"}
        /\ \A b \in Agents : b # Owner(l) => status'[b] = status[b] /\ told'[b] = told[b]
    BY <1>1, <1>11, SetRowWrites DEF Completes, Suspends
  <2>4. Working(l) /\ ~isSuspended[l]
    BY <2>1 DEF Working, AwakeAtWork, PCs
  <2> QED BY <2>1, <2>2, <2>3, <2>4, LoneStep DEF Has, Reporting
<1> QED BY <1>2, <1>3, <1>4, <1>5, <1>6, <1>7, <1>8, <1>9, <1>10, <1>11 DEF LoopStep, RunsOn

\* A cancellation, of whoever, is a gentle step.
LEMMA RetractInv ==
  ASSUME IInv, TypeOK', NEW a \in Agents, status[a] # "none", Retract(a),
         UNCHANGED <<isSuspended, cut>>
  PROVE  IInv'
<1> USE DEF IInv
<1>1. \A l \in Loops : AtMostWakes(l)
  BY EmitMoves DEF Retract, AtMostWakes
<1>2. \A b \in Agents : Has(b, "signal")' => Has(b, "signal")
  <2>1. CASE registered[a] # NoLoop
    BY <2>1, PostKeeps DEF Retract, MessageKinds
  <2>2. CASE registered[a] = NoLoop /\ status[a] = "suspended"
    <3>1. unread' = [unread EXCEPT ![a] = Empty]
      BY <2>2 DEF Retract
    <3> QED BY <3>1 DEF Has, TypeOK, Empty, MessageKinds
  <2>3. CASE registered[a] = NoLoop /\ status[a] # "suspended"
    BY <2>3 DEF Retract, Has
  <2> QED BY <2>1, <2>2, <2>3
<1>3. \/ UNCHANGED rowVars
      \/ /\ status'[a] \in {"gone", "retracted"}
         /\ \A b \in Agents : b # a => status'[b] = status[b] /\ told'[b] = told[b]
  BY SetRowWrites DEF Retract
<1> QED BY <1>1, <1>2, <1>3, GentleStep DEF rowVars

LEMMA ToolStepInv ==
  ASSUME IInv, TypeOK', NEW l \in Loops, ToolStep(l)
  PROVE  IInv'
<1> USE DEF IInv
<1>1. Owner(l) \in Agents /\ l \in LoopsOf(Owner(l))
  BY OwnerType DEF LoopsOf
<1>2. CASE Round(l)
  <2>1. \A a \in Agents : Has(a, "signal")' => Has(a, "signal")
    BY <1>1, <1>2 DEF Round, Has, TypeOK, MessageKinds
  <2>2. UNCHANGED <<pc, isSuspended, cut, status, told>>
    BY <1>2 DEF Round, rowVars, loopVars, procVars, hostVars
  <2> QED BY <2>1, <2>2, GentleStep DEF AtMostWakes
<1>3. CASE ToolsThrow(l)
  BY <1>3, ThrowsInv DEF ToolsThrow, procVars, hostVars
<1>4. CASE EndTurnWithoutTools(l)
  <2>1. CASE nudged[l]
    BY <1>4, <2>1, ThrowsInv DEF EndTurnWithoutTools, procVars, hostVars
  <2>2. CASE ~nudged[l]
    <3>1. pc[l] = "tools" /\ status' = status /\ told' = told /\ cut' = cut /\ unread' = unread
          /\ isSuspended' = isSuspended
      BY <1>4, <2>2 DEF EndTurnWithoutTools, rowVars, procVars, hostVars
    <3>2. pc'[l] = "top" /\ \A m \in Loops : m # l => AtMostWakes(m)
      BY <1>4, <2>2, GotoMoves DEF EndTurnWithoutTools, AtMostWakes, PCs
    <3>3. Working(l) /\ ~isSuspended[l]
      BY <3>1 DEF Working, AwakeAtWork, PCs
    <3>4. status[Owner(l)] \notin {"completed", "suspended"}
      BY <1>1, <3>1, <3>3 DEF EndedLoopsFinish, Reporting
    <3>5. status[Owner(l)] # "none"
      BY <1>1, <3>1 DEF UnbornAtRest
    <3> QED BY <3>1, <3>2, <3>3, <3>4, <3>5, LoneStep DEF Has
  <2> QED BY <2>1, <2>2
<1>5. CASE Responds(l)
  <2>1. Parent[Owner(l)] \in Agents
    BY <1>1, <1>5, ConstantsAssumption DEF Responds
  <2>2. \A a \in Agents : Has(a, "signal")' => Has(a, "signal")
    BY <1>5, <2>1 DEF Responds, Post, Has, TypeOK, MessageKinds
  <2>3. \A m \in Loops : AtMostWakes(m)
    BY <1>5, EmitMoves DEF Responds, AtMostWakes
  <2> QED BY <1>5, <2>2, <2>3, GentleStep DEF Responds, rowVars
<1>6. ASSUME NEW c \in Agents, ParentSpawns(l, c) PROVE IInv'
  BY <1>6, SpawnInv DEF ParentSpawns, procVars, hostVars
<1>7. ASSUME NEW c \in Agents, ParentSends(l, c) PROVE IInv'
  BY <1>7, UpdateInv DEF ParentSends
<1>8. ASSUME NEW c \in Agents, ParentCancels(l, c) PROVE IInv'
  BY <1>8, RetractInv DEF ParentCancels
<1> QED BY <1>2, <1>3, <1>4, <1>5, <1>6, <1>7, <1>8 DEF ToolStep

LEMMA HeadStepInv ==
  ASSUME IInv, TypeOK', NEW a \in Agents, HeadStep(a)
  PROVE  IInv'
<1> USE DEF IInv
<1>1. CASE HeadSpawns(a)
  BY <1>1, SpawnInv DEF HeadSpawns, procVars, hostVars
<1>2. CASE HeadChecks(a) \/ StewardRefuses(a)
  <2>1. UNCHANGED <<pc, isSuspended, cut, status, told, unread>>
    BY <1>2 DEF HeadChecks, StewardRefuses, rowVars, loopVars
  <2> QED BY <2>1, GentleStep DEF AtMostWakes, Has
<1>3. CASE HeadSends(a)
  BY <1>3, UpdateInv DEF HeadSends
<1>4. CASE Cancels(a)
  BY <1>4, RetractInv DEF Cancels
<1>5. CASE ArchivalRetracts(a)
  <2>1. UNCHANGED <<pc, isSuspended, cut, unread>>
    BY <1>5 DEF ArchivalRetracts, loopVars, procVars, hostVars
  <2>2. /\ status'[a] \in {"gone", "retracted"}
        /\ \A b \in Agents : b # a => status'[b] = status[b] /\ told'[b] = told[b]
    BY <1>5, SetRowWrites DEF ArchivalRetracts
  <2> QED BY <2>1, <2>2, GentleStep DEF AtMostWakes, Has
<1> QED BY <1>1, <1>2, <1>3, <1>4, <1>5 DEF HeadStep

LEMMA ProcessStepInv ==
  ASSUME IInv, TypeOK', ProcessStep
  PROVE  IInv'
<1> USE DEF IInv
<1>1. CASE ResetRetracts
  <2>1. \A l \in Loops : AtMostWakes(l)
    BY <1>1, EmitMoves DEF ResetRetracts, AtMostWakes
  <2>2. \A a \in Agents : Has(a, "signal")' => Has(a, "signal")
    BY <1>1 DEF ResetRetracts, Has, TypeOK, Empty, MessageKinds
  <2>3. \A a \in Agents : \/ status'[a] = "retracted"
                          \/ status'[a] = status[a] /\ told'[a] = told[a]
    BY <1>1 DEF ResetRetracts, TypeOK
  <2> QED BY <1>1, <2>1, <2>2, <2>3, GentleStep DEF ResetRetracts
<1>2. CASE ResetClears
  <2>1. UNCHANGED <<pc, isSuspended, cut>>
    BY <1>2 DEF ResetClears, loopVars
  <2>2. \A a \in Agents : ~Has(a, "signal")'
    BY <1>2 DEF ResetClears, Has, Empty, MessageKinds
  <2>3. \A a \in Agents : status'[a] = IF status[a] = "none" THEN "none" ELSE "gone"
    BY <1>2 DEF ResetClears
  <2> QED BY <2>1, <2>2, <2>3, GentleStep DEF AtMostWakes
<1>3. CASE Crash
  BY <1>3, GoneInv DEF Crash, rowVars
<1>4. CASE Boot
  <2>1. UNCHANGED <<pc, isSuspended, cut, unread>>
    BY <1>4 DEF Boot, loopVars
  <2>2. \A a \in Agents : \/ status'[a] \in {"retracted", "failed"}
                          \/ status'[a] = status[a] /\ told'[a] = told[a]
    BY <1>4 DEF Boot, TypeOK
  <2> QED BY <2>1, <2>2, GentleStep DEF AtMostWakes, Has
<1>5. CASE Closes
  <2>1. \A l \in Loops : AtMostWakes(l)
    BY <1>5, EmitMoves DEF Closes, AtMostWakes
  <2>2. \A a \in Agents : Has(a, "signal")' => Has(a, "signal")
    BY <1>5 DEF Closes, Has, TypeOK, MessageKinds
  <2> QED BY <1>5, <2>1, <2>2, GentleStep DEF Closes, rowVars
<1>6. CASE Exits
  <2>1. \A l \in Loops : pc[l] \notin Reporting
    BY <1>6 DEF Exits, Free, Running
  <2>2. \A a \in Agents : \/ status'[a] = "failed"
                          \/ status'[a] = status[a] /\ told'[a] = told[a]
    BY <1>6 DEF Exits, TypeOK
  <2>3. cut' = (cut \/ \E l \in Loops : pc[l] \in Reporting)
    BY <1>6, <2>1 DEF Exits, TypeOK
  <2>4. Gone /\ unread' = unread
    BY <1>6 DEF Exits
  <2> QED BY <2>2, <2>3, <2>4, GoneInv
<1>7. CASE BudgetChanges
  <2>1. UNCHANGED <<pc, isSuspended, cut, status, told, unread>>
    BY <1>7 DEF BudgetChanges, rowVars, loopVars
  <2> QED BY <2>1, GentleStep DEF AtMostWakes, Has
<1> QED BY <1>1, <1>2, <1>3, <1>4, <1>5, <1>6, <1>7 DEF ProcessStep

-----------------------------------------------------------------------------
(* The theorems *)

LEMMA InitInv == Init => IInv
<1> SUFFICES ASSUME Init PROVE IInv OBVIOUS
<1>1. "none" \in Statuses /\ "none" \in PCs /\ Empty \in [MessageKinds -> Nat]
  BY DEF Statuses, PCs, Empty
<1>2. TypeOK
  BY <1>1 DEF Init, TypeOK
<1>3. OneActiveLoop /\ SignalForIdle /\ EndedLoopsFinish /\ AwakeAtWork /\ OutcomeOnItsWay
  BY DEF Init, OneActiveLoop, SignalForIdle, EndedLoopsFinish, AwakeAtWork, OutcomeOnItsWay,
         LoopsOf, Working
<1>4. UnbornAtRest
  BY DEF Init, UnbornAtRest, LoopsOf, Has, Empty, MessageKinds
<1> QED BY <1>2, <1>3, <1>4 DEF IInv

LEMMA StepInv == IInv /\ [Next]_vars => IInv'
<1> SUFFICES ASSUME IInv, [Next]_vars PROVE IInv' OBVIOUS
<1>1. TypeOK'
  BY TypeStep DEF IInv
<1>2. CASE UNCHANGED vars
  BY <1>2 DEF IInv, TypeOK, OneActiveLoop, SignalForIdle, EndedLoopsFinish, AwakeAtWork,
       UnbornAtRest, OutcomeOnItsWay, Working, Has, vars, rowVars, loopVars, procVars, hostVars
<1>3. CASE Next
  BY <1>1, <1>3, LoopStepInv, ToolStepInv, HeadStepInv, ProcessStepInv DEF Next
<1> QED BY <1>2, <1>3

\* The invariant of all runs of the agents.
THEOREM InvariantHolds == Spec => []IInv
<1> QED BY InitInv, StepInv, PTL DEF Spec

\* Every variable keeps its type, whatever the agents and however many loops.
THEOREM TypeCorrect == Spec => []TypeOK
<1>1. IInv => TypeOK
  BY DEF IInv
<1> QED BY <1>1, InvariantHolds, PTL

\* No two loops ever work on one agent, although update() starts a loop whenever
\* it finds no emitter, and a loop that ends takes the emitter of another along.
THEOREM OneLoopWorks == Spec => []OneActiveLoop
<1>1. IInv => OneActiveLoop
  BY DEF IInv
<1> QED BY <1>1, InvariantHolds, PTL

\* A completion or a question is always told, unless the process dies between the
\* row and the report.
THEOREM OutcomesTold == Spec => []OutcomeTold
<1>1. IInv => OutcomeTold
  BY DEF IInv, OutcomeOnItsWay, OutcomeTold, Free, Running, Reporting, LoopsOf
<1> QED BY <1>1, InvariantHolds, PTL
=============================================================================
