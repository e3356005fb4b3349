--------------------------- MODULE AgentLifeProofs ---------------------------
(***************************************************************************)
(* That the agents live the life of AgentLife, that a parent ends after    *)
(* its children and that it has heard them, for every set of agents and    *)
(* every number of messages and crashes, when resumeSuspended() does not   *)
(* yield before its loop starts, so that an agent has one loop (OneLoop).  *)
(***************************************************************************)
EXTENDS AgentRunnerProofs

\* assembleTools() is a promise that is already there; then no second loop of
\* an agent is ever set up.
OneLoop == MaxTwins = 1 /\ ~SlowTools

-----------------------------------------------------------------------------
(* The inductive invariant *)

\* A row of an agent that waits for an answer says so; nobody is told of an
\* agent that is not in the table.
RowSound(a) ==
  /\ status[a] = "suspended" => asking[a]
  /\ status[a] = "gone" => ~told[a]

\* The row was written and nobody was told of it.
Fresh(a, S) == status[a] = "gone" \/ (status[a] \in S /\ ~told[a])

AtWork(l) ==
  \/ pc[l] \in {"tools", "steward"}
  \/ pc[l] \in {"top", "waiting"} /\ ~isSuspended[l]

Returning(l) == pc[l] = "starting" \/ (pc[l] = "top" /\ isSuspended[l])

\* A loop that works has a running agent; one that waits for an answer has an
\* agent that asks, unless it was withdrawn in the table or the answer is there;
\* one that ended its agent's turn has not told it.
LoopSound(l) ==
  LET a == Owner(l) IN
  /\ registered[a] = IF pc[l] \in {"none", "starting"} THEN NoLoop ELSE l
  /\ pc[l] = "none" => ~isSuspended[l]
  /\ AtWork(l) => status[a] \in {"running", "gone"}
  /\ Returning(l)
       => \/ status[a] \in {"suspended", "gone"}
          \/ status[a] = "retracted" /\ asking[a] /\ ~told[a] /\ ~Has(a, "signal")
          \/ status[a] = "running" /\ ~asking[a] /\ ~told[a] /\ Has(a, "signal")
  /\ pc[l] = "waiting" /\ isSuspended[l]
       => /\ ~Has(a, "signal")
          /\ \/ status[a] \in {"suspended", "gone"}
             \/ status[a] = "retracted" /\ asking[a] /\ ~told[a]
  /\ pc[l] = "ask" => Fresh(a, {"suspended"})
  /\ pc[l] = "done" => Fresh(a, {"completed"})
  /\ pc[l] = "fail" => Fresh(a, {"failed"})

Solo ==
  /\ \A a \in Agents : RowSound(a)
  /\ \A l \in Loops : LoopSound(l)
  /\ ~up => \A l \in Loops : pc[l] = "none"

\* A sub-agent is in the table no longer than its parent, and a parent that
\* ends, or asks, has no sub-agent at work and has read what they reported, but for
\* those that the head got going again.
ChildSound(c) ==
  LET p == Parent[c] IN
  p # NoAgent =>
    /\ status[c] # "none" => status[p] # "none"
    /\ status[c] = "gone" => status[p] = "gone"

AtRest(c) ==
  /\ status[c] \notin Active
  /\ \A m \in LoopsOf(c) : pc[m] \notin {"ask", "done"}

Quiet(a) == \A c \in Children(a) \ revived : AtRest(c)

Heard(a) == Has(a, "result") => \E c \in Children(a) : c \in revived

EndSound(l) ==
  pc[l] \in {"steward", "done"} /\ status[Owner(l)] # "gone"
    => Heard(Owner(l)) /\ Quiet(Owner(l))

Family ==
  /\ \A c \in Agents : ChildSound(c)
  /\ \A l \in Loops : EndSound(l)
  /\ NoActiveChildOfEndedParent
-----------------------------------------------------------------------------
(* What a step leaves and what it writes *)

\* With one loop for each agent, a loop is known by its agent.
LEMMA LoopOfOne ==
  ASSUME OneLoop
  PROVE  /\ \A l, m \in Loops : Owner(l) = Owner(m) => l = m
         /\ \A a \in Agents : <<a, 1>> \in Loops /\ Owner(<<a, 1>>) = a
BY DEF OneLoop, Loops, Owner

SameRow(a) == status'[a] = status[a] /\ asking'[a] = asking[a] /\ told'[a] = told[a]

\* The row was written, if it is there; nobody was told of it yet.
Wrote(a, v, q) ==
  IF status[a] = "gone" THEN SameRow(a)
  ELSE status'[a] = v /\ asking'[a] = q /\ ~told'[a]

\* Writing a row writes all three columns of it, and no other.
LEMMA SetRowAll ==
  ASSUME TypeOK, NEW a \in Agents, NEW v, NEW q, SetRow(a, v, q)
  PROVE  Wrote(a, v, q) /\ \A b \in Agents : b # a => SameRow(b)
BY DEF TypeOK, SetRow, rowVars, Wrote, SameRow

\* A loop whose agent a step leaves alone, but for waking it.
Aside(l) ==
  /\ AtMostWakes(l)
  /\ isSuspended'[l] = isSuspended[l]
  /\ registered'[Owner(l)] = registered[Owner(l)]
  /\ SameRow(Owner(l))
  /\ Has(Owner(l), "signal")' = Has(Owner(l), "signal")

LEMMA AsideSound ==
  ASSUME NEW l \in Loops, LoopSound(l), Aside(l)
  PROVE  LoopSound(l)'
BY DEF LoopSound, AtWork, Returning, Aside, AtMostWakes, SameRow, Fresh, Has

LEMMA SameRowSound ==
  ASSUME NEW a \in Agents, RowSound(a), SameRow(a)
  PROVE  RowSound(a)'
BY DEF RowSound, SameRow

\* Among the loops, a step of one of them disturbs only its own agent.
LEMMA SoloStep ==
  ASSUME OneLoop, Solo, up', NEW l \in Loops,
         \A m \in Loops : Owner(m) # Owner(l) => Aside(m),
         \A a \in Agents : a # Owner(l) => SameRow(a),
         LoopSound(l)', RowSound(Owner(l))'
  PROVE  Solo'
<1>1. \A m \in Loops : LoopSound(m)'
  <2> SUFFICES ASSUME NEW m \in Loops, m # l PROVE LoopSound(m)'
    OBVIOUS
  <2>1. Owner(m) # Owner(l)
    BY LoopOfOne
  <2> QED BY <2>1, AsideSound DEF Solo
<1>2. \A a \in Agents : RowSound(a)'
  BY SameRowSound DEF Solo
<1> QED BY <1>1, <1>2 DEF Solo

\* The thread is free: loops wait, for their inbox or for somebody's answer.
LEMMA FreeLoops ==
  ASSUME OneLoop, TypeOK, Free
  PROVE  \A l \in Loops : pc[l] \in {"none", "waiting", "tools", "steward"}
BY DEF OneLoop, TypeOK, Free, Running, PCs, Reporting

-----------------------------------------------------------------------------
(* The steps of a loop *)

\* A row that is written is sound if it says whether its agent asks.
LEMMA WroteSound ==
  ASSUME NEW a \in Agents, RowSound(a), NEW v, NEW q, Wrote(a, v, q),
         v # "gone", v = "suspended" => q
  PROVE  RowSound(a)'
BY DEF RowSound, Wrote, SameRow

\* A message of another kind leaves the answers of an inbox alone.
LEMMA PostAside ==
  ASSUME TypeOK, NEW a \in Agents, NEW k \in MessageKinds \ {"signal"}, Post(a, k)
  PROVE  \A b \in Agents : Has(b, "signal")' = Has(b, "signal")
BY DEF TypeOK, Post, Has, MessageKinds

\* The catch writes the outcome of an agent, and the loop has only that to tell.
LEMMA ThrowsSolo ==
  ASSUME OneLoop, TypeOK, Solo, NEW l \in Loops, Throws(l), pc[l] \in {"top", "tools"}, up'
  PROVE  Solo'
<1> DEFINE a == Owner(l)
<1>1. a \in Agents
  BY OwnerType
<1>2. /\ UNCHANGED <<unread, registered, isSuspended>>
      /\ \/ SetRow(a, "retracted", asking[a]) /\ Goto(l, "cleanup")
         \/ SetRow(a, "failed", asking[a]) /\ Goto(l, "fail")
  BY DEF Throws
<1>3. /\ \/ Wrote(a, "retracted", asking[a]) /\ pc'[l] = "cleanup"
         \/ Wrote(a, "failed", asking[a]) /\ pc'[l] = "fail"
      /\ \A b \in Agents : b # a => SameRow(b)
      /\ \A m \in Loops : m # l => pc'[m] = pc[m]
  BY <1>1, <1>2, SetRowAll, GotoMoves DEF PCs, Reporting
<1>4. RowSound(a)'
  BY <1>1, <1>3, WroteSound DEF Solo
<1>5. LoopSound(l)'
  BY <1>1, <1>2, <1>3, <1>4 DEF Solo, LoopSound, AtWork, Returning, Fresh, RowSound, Wrote, SameRow
<1>6. \A m \in Loops : Owner(m) # a => Aside(m)
  BY <1>2, <1>3, OwnerType DEF Aside, AtMostWakes, Has
<1> QED BY <1>1, <1>3, <1>4, <1>5, <1>6, SoloStep

\* A loop that reads its inbox is cancelled, or goes on with it.
LEMMA TopSolo ==
  ASSUME OneLoop, TypeOK, Solo, NEW l \in Loops, TopRetracted(l) \/ Top(l)
  PROVE  Solo'
<1> DEFINE a == Owner(l)
<1>1. a \in Agents /\ pc[l] = "top" /\ LoopSound(l) /\ RowSound(a) /\ up'
  BY OwnerType DEF TopRetracted, Top, Takes, Solo, procVars, hostVars
<1>2. registered' = registered /\ \A m \in Loops : m # l => isSuspended'[m] = isSuspended[m]
  BY DEF TopRetracted, Top, Takes, TypeOK
<1>3. \A b \in Agents : b # a => Has(b, "signal")' = Has(b, "signal")
  BY DEF TopRetracted, Top, Has, TypeOK
<1>4. \A m \in Loops : m # l => pc'[m] = pc[m]
  BY GotoMoves DEF TopRetracted, Top, Takes, PCs
<1>5. /\ LoopSound(l)' /\ RowSound(a)'
      /\ \A b \in Agents : b # a => SameRow(b)
  <2>1. CASE TopRetracted(l)
    <3>1. Wrote(a, "retracted", asking[a]) /\ \A b \in Agents : b # a => SameRow(b)
      BY <1>1, <2>1, SetRowAll DEF TopRetracted
    <3>2. pc'[l] = "cleanup"
      BY <2>1, GotoMoves DEF TopRetracted, PCs
    <3>3. LoopSound(l)'
      BY <1>1, <1>2, <3>2 DEF LoopSound, AtWork, Returning
    <3> QED BY <1>1, <3>1, <3>3, WroteSound
  <2>2. CASE Top(l) /\ Resumed(l)
    <3>1. Wrote(a, "running", FALSE) /\ \A b \in Agents : b # a => SameRow(b)
      BY <1>1, <2>2, SetRowAll DEF Top
    <3>2. pc'[l] = "tools" /\ ~isSuspended'[l]
      BY <2>2, GotoMoves DEF Top, Takes, TypeOK, PCs
    <3>3. LoopSound(l)'
      BY <1>1, <1>2, <3>1, <3>2 DEF LoopSound, AtWork, Returning, Wrote, SameRow
    <3> QED BY <1>1, <3>1, <3>3, WroteSound
  <2>3. CASE Top(l) /\ ~Resumed(l)
    <3>1. \A b \in Agents : SameRow(b)
      BY <2>3 DEF Top, rowVars, SameRow
    <3>2. /\ pc'[l] = IF isSuspended[l] THEN "waiting" ELSE "tools"
          /\ isSuspended'[l] = isSuspended[l]
      BY <2>3, GotoMoves DEF Top, Takes, TypeOK, PCs
    <3>3. ~Has(a, "signal")'
      BY <1>1, <2>3 DEF Top, Has, Empty, MessageKinds, TypeOK
    <3>4. isSuspended[l] => ~Has(a, "signal")
      BY <2>3 DEF Resumed
    <3>5. LoopSound(l)'
      BY <1>1, <1>2, <3>1, <3>2, <3>3, <3>4 DEF LoopSound, AtWork, Returning, SameRow
    <3> QED BY <1>1, <3>1, <3>5, SameRowSound
  <2> QED BY <2>1, <2>2, <2>3
<1>6. \A m \in Loops : Owner(m) # a => Aside(m)
  BY <1>2, <1>3, <1>4, <1>5, OwnerType DEF Aside, AtMostWakes
<1> QED BY <1>1, <1>5, <1>6, SoloStep

\* Telling the outcome changes no other row, and answers nobody.
LEMMA TellSolo ==
  ASSUME OneLoop, TypeOK, Solo, NEW l \in Loops, ReportsQuestion(l) \/ ReportsEnd(l)
  PROVE  Solo'
<1> DEFINE a == Owner(l)
<1>1. a \in Agents /\ LoopSound(l) /\ RowSound(a) /\ up'
  BY OwnerType DEF Solo, ReportsQuestion, ReportsEnd, procVars, hostVars
<1>2. PICK where \in {"top", "cleanup"} :
        /\ Tell(l, where)
        /\ where = "top" => ReportsQuestion(l)
  BY DEF ReportsQuestion, ReportsEnd
<1>3. /\ UNCHANGED <<status, asking, registered>>
      /\ \A m \in Loops : m # l => isSuspended'[m] = isSuspended[m]
      /\ where = "top" => pc[l] = "ask" /\ isSuspended'[l]
      /\ pc[l] \in Reporting
  BY <1>2 DEF ReportsQuestion, ReportsEnd, TypeOK, Reporting
<1>4. /\ pc'[l] = where
      /\ \A m \in Loops : m # l => AtMostWakes(m)
      /\ told'[a] = (status[a] # "gone")
      /\ \A b \in Agents : b # a => told'[b] = told[b]
  BY <1>1, <1>2 DEF Tell, TypeOK, AtMostWakes, Woken
<1>5. \A b \in Agents : Has(b, "signal")' = Has(b, "signal")
  <2>1. CASE Parent[a] = NoAgent
    BY <1>2, <2>1 DEF Tell, Has
  <2>2. CASE Parent[a] # NoAgent
    <3>1. Parent[a] \in Agents
      BY <1>1, <2>2, ConstantsAssumption
    <3>2. Post(Parent[a], "failure") \/ Post(Parent[a], "result")
      BY <1>2, <2>2 DEF Tell
    <3> QED BY <3>1, <3>2, PostAside DEF MessageKinds
  <2> QED BY <2>1, <2>2
<1>6. RowSound(a)'
  BY <1>1, <1>3, <1>4 DEF RowSound
<1>7. LoopSound(l)'
  BY <1>1, <1>3, <1>4 DEF LoopSound, AtWork, Returning, Fresh, Reporting
<1>8. \A b \in Agents : b # a => SameRow(b)
  BY <1>3, <1>4 DEF SameRow
<1>9. \A m \in Loops : Owner(m) # a => Aside(m)
  BY <1>3, <1>4, <1>5, <1>8, OwnerType DEF Aside
<1> QED BY <1>1, <1>6, <1>7, <1>8, <1>9, SoloStep

\* A step that disturbs nobody.
LEMMA AsideSolo ==
  ASSUME Solo, up', \A l \in Loops : Aside(l), \A a \in Agents : SameRow(a)
  PROVE  Solo'
BY AsideSound, SameRowSound DEF Solo

\* Waking up, starting, ending a turn and leaving.
LEMMA MoveSolo ==
  ASSUME OneLoop, IInv, Solo, NEW l \in Loops,
         \/ Begin(l) \/ Wakes(l) \/ EndTurn(l) \/ CleansUp(l)
         \/ EndTurnWithoutTools(l) /\ ~nudged[l]
  PROVE  Solo'
<1> DEFINE a == Owner(l)
<1>1. /\ a \in Agents /\ LoopSound(l) /\ RowSound(a) /\ TypeOK /\ up'
      /\ pc[l] = "tools" => ~isSuspended[l]
  BY OwnerType DEF Solo, IInv, AwakeAtWork, Begin, Wakes, EndTurn, EndsTurn, CleansUp,
                   EndTurnWithoutTools, Free, procVars, hostVars
<1>2. \A b \in Agents : SameRow(b)
  BY DEF Begin, Wakes, EndTurn, EndsTurn, CleansUp, EndTurnWithoutTools, rowVars, SameRow
<1>3. \A m \in Loops : m # l => pc'[m] = pc[m] /\ isSuspended'[m] = isSuspended[m]
  BY <1>1, GotoMoves DEF Begin, Wakes, EndTurn, EndsTurn, CleansUp, EndTurnWithoutTools, PCs, TypeOK
<1>4. \A b \in Agents : b # a => /\ registered'[b] = registered[b]
                                 /\ Has(b, "signal")' = Has(b, "signal")
  BY <1>1 DEF Begin, Wakes, EndTurn, EndsTurn, CleansUp, EndTurnWithoutTools, TypeOK, Has
<1>5. LoopSound(l)'
  <2>1. CASE Begin(l)
    <3>1. pc'[l] = "top" /\ registered'[a] = l /\ isSuspended'[l] /\ unread' = unread /\ pc[l] = "starting"
      BY <1>1, <2>1, GotoMoves DEF Begin, TypeOK, PCs
    <3> QED BY <1>1, <1>2, <3>1 DEF LoopSound, AtWork, Returning, SameRow, Has
  <2>2. CASE Wakes(l)
    <3>1. pc'[l] = "top" /\ pc[l] = "waiting" /\ UNCHANGED <<registered, isSuspended, unread>>
      BY <1>1, <2>2, GotoMoves DEF Wakes, PCs
    <3> QED BY <1>1, <1>2, <3>1 DEF LoopSound, AtWork, Returning, SameRow, Has
  <2>3. CASE EndTurn(l) \/ (EndTurnWithoutTools(l) /\ ~nudged[l])
    <3>1. /\ pc[l] = "tools" /\ pc'[l] \in {"top", "waiting", "steward"}
          /\ UNCHANGED <<registered, isSuspended>>
      BY <1>1, <2>3, GotoMoves DEF EndTurn, EndsTurn, EndTurnWithoutTools, PCs
    <3> QED BY <1>1, <1>2, <3>1 DEF LoopSound, AtWork, Returning, SameRow
  <2>4. CASE CleansUp(l)
    <3>1. pc'[l] = "none" /\ ~isSuspended'[l] /\ registered'[a] = NoLoop
      BY <1>1, <2>4, GotoMoves DEF CleansUp, PCs, TypeOK
    <3> QED BY <3>1 DEF LoopSound, AtWork, Returning
  <2> QED BY <2>1, <2>2, <2>3, <2>4
<1>6. \A m \in Loops : Owner(m) # a => Aside(m)
  BY <1>2, <1>3, <1>4, OwnerType DEF Aside, AtMostWakes
<1>7. RowSound(a)'
  BY <1>1, <1>2, SameRowSound
<1> QED BY <1>1, <1>2, <1>5, <1>6, <1>7, SoloStep

\* The steward's verdict is written, and the loop has it to tell.
LEMMA VerdictSolo ==
  ASSUME OneLoop, TypeOK, Solo, NEW l \in Loops, Completes(l) \/ Suspends(l)
  PROVE  Solo'
<1> DEFINE a == Owner(l)
<1>1. /\ a \in Agents /\ LoopSound(l) /\ RowSound(a) /\ up'
      /\ pc[l] = "steward" /\ UNCHANGED <<registered, isSuspended, unread>>
  BY OwnerType DEF Solo, Completes, Suspends, Free, procVars, hostVars
<1>2. /\ \/ Wrote(a, "completed", asking[a]) /\ pc'[l] = "done"
         \/ Wrote(a, "suspended", TRUE) /\ pc'[l] = "ask"
      /\ \A b \in Agents : b # a => SameRow(b)
      /\ \A m \in Loops : m # l => pc'[m] = pc[m]
  BY <1>1, SetRowAll, GotoMoves DEF Completes, Suspends, PCs, Reporting
<1>3. RowSound(a)'
  BY <1>1, <1>2, WroteSound
<1>4. LoopSound(l)'
  BY <1>1, <1>2 DEF LoopSound, AtWork, Returning, Fresh, Wrote, SameRow, RowSound
<1>5. \A m \in Loops : Owner(m) # a => Aside(m)
  BY <1>1, <1>2, OwnerType DEF Aside, AtMostWakes, Has
<1> QED BY <1>1, <1>2, <1>3, <1>4, <1>5, SoloStep

-----------------------------------------------------------------------------
(* What others do to an agent *)

\* update(): the loop that waits is woken by the answer, or one is started.
LEMMA UpdateSolo ==
  ASSUME OneLoop, TypeOK, Solo, Free, up', NEW a \in Agents, Update(a),
         UNCHANGED <<registered, isSuspended>>
  PROVE  Solo'
<1> DEFINE Starts == status[a] = "completed" \/ (status[a] = "suspended" /\ registered[a] = NoLoop)
           l == <<a, 1>>
<1>1. /\ l \in Loops /\ Owner(l) = a /\ LoopSound(l) /\ RowSound(a)
      /\ \A m \in LoopsOf(a) : m = l
  BY LoopOfOne DEF Solo, LoopsOf
<1>2. pc[l] \in {"none", "waiting", "tools", "steward"}
  BY <1>1, FreeLoops
<1>3. \A b \in Agents : b # a => SameRow(b)
  BY SetRowAll DEF Update, rowVars, SameRow
<1>4. \A b \in Agents : b # a => Has(b, "signal")' = Has(b, "signal")
  BY DEF Update, Post, Has, TypeOK, MessageKinds
<1>5. \A m \in Loops : m # l => AtMostWakes(m)
  <2>1. CASE Starts
    BY <1>1, <2>1, GotoMoves DEF Update, Place, AtMostWakes, PCs
  <2>2. CASE ~Starts
    BY <2>2, EmitMoves DEF Update, AtMostWakes
  <2> QED BY <2>1, <2>2
<1>6. LoopSound(l)' /\ RowSound(a)'
  <2>1. CASE Starts
    <3>1. Post(a, "signal") /\ pc[l] = "none" /\ pc'[l] = "starting"
      BY <1>1, <2>1, GotoMoves DEF Update, Place, Idle, PCs
    <3>2. Has(a, "signal")'
      BY <3>1 DEF Post, Has, TypeOK, MessageKinds
    <3>3. \/ status[a] = "completed" /\ Wrote(a, "running", FALSE)
          \/ status[a] = "suspended" /\ SameRow(a)
      BY <2>1, SetRowAll DEF Update, rowVars, SameRow
    <3>4. RowSound(a)'
      BY <1>1, <3>3, WroteSound, SameRowSound
    <3> QED BY <1>1, <3>1, <3>2, <3>3, <3>4 DEF LoopSound, AtWork, Returning, Wrote, SameRow
  <2>2. CASE ~Starts /\ status[a] = "suspended"
    <3>1. pc[l] = "waiting" /\ isSuspended[l] /\ registered[a] = l
      BY <1>1, <1>2, <2>2 DEF LoopSound, AtWork
    <3>2. pc'[l] = "top"
      BY <1>1, <2>2, <3>1 DEF Update, Emit, Woken
    <3>3. SameRow(a)
      BY <2>2 DEF Update, rowVars, SameRow
    <3>4. RowSound(a)'
      BY <1>1, <3>3, SameRowSound
    <3> QED BY <1>1, <2>2, <3>1, <3>2, <3>3, <3>4 DEF LoopSound, AtWork, Returning, SameRow
  <2>3. CASE ~Starts /\ status[a] # "suspended"
    <3>1. Post(a, "update") /\ Emit({a}) /\ SameRow(a)
      BY <2>3 DEF Update, rowVars, SameRow
    <3>2. Has(a, "signal")' = Has(a, "signal")
      BY <3>1, PostAside DEF MessageKinds
    <3>3. Aside(l)
      BY <1>1, <3>1, <3>2, EmitMoves DEF Aside, AtMostWakes
    <3> QED BY <1>1, <3>1, <3>3, AsideSound, SameRowSound
  <2> QED BY <2>1, <2>2, <2>3
<1>7. \A m \in Loops : Owner(m) # a => Aside(m)
  BY <1>1, <1>3, <1>4, <1>5, OwnerType DEF Aside
<1> QED BY <1>1, <1>3, <1>6, <1>7, SoloStep

\* retract(): a loop is told, a question that nobody waits with is withdrawn.
LEMMA RetractSolo ==
  ASSUME OneLoop, TypeOK, Solo, Free, up', NEW a \in Agents, Retract(a),
         UNCHANGED <<registered, isSuspended>>
  PROVE  Solo'
<1> DEFINE l == <<a, 1>>
<1>1. l \in Loops /\ Owner(l) = a /\ LoopSound(l) /\ RowSound(a)
  BY LoopOfOne DEF Solo
<1>2. CASE registered[a] # NoLoop
  <2>1. Post(a, "retract") /\ Emit({a}) /\ UNCHANGED rowVars
    BY <1>2 DEF Retract
  <2>2. \A b \in Agents : SameRow(b) /\ Has(b, "signal")' = Has(b, "signal")
    BY <2>1, PostAside DEF MessageKinds, SameRow, rowVars
  <2>3. \A m \in Loops : Aside(m)
    BY <2>1, <2>2, EmitMoves, OwnerType DEF Aside, AtMostWakes
  <2> QED BY <2>2, <2>3, AsideSolo
<1>3. CASE registered[a] = NoLoop /\ status[a] # "suspended"
  <2>1. UNCHANGED <<rowVars, unread, pc>>
    BY <1>3 DEF Retract
  <2> QED BY <2>1, AsideSolo DEF Aside, AtMostWakes, SameRow, rowVars, Has
<1>4. CASE registered[a] = NoLoop /\ status[a] = "suspended"
  <2>1. /\ SetRow(a, "retracted", asking[a]) /\ pc' = pc
        /\ unread' = [unread EXCEPT ![a] = Empty]
    BY <1>4 DEF Retract
  <2>2. Wrote(a, "retracted", asking[a]) /\ \A b \in Agents : b # a => SameRow(b)
    BY <2>1, SetRowAll
  <2>3. pc[l] = "none"
    <3>1. pc[l] \in {"none", "waiting", "tools", "steward"}
      BY <1>1, FreeLoops
    <3>2. l # NoLoop
      BY ConstantsAssumption DEF NoLoop
    <3> QED BY <1>1, <1>4, <3>1, <3>2 DEF LoopSound
  <2>4. LoopSound(l)'
    BY <1>1, <2>1, <2>3 DEF LoopSound, AtWork, Returning
  <2>5. \A m \in Loops : Owner(m) # a => Aside(m)
    BY <2>1, <2>2, OwnerType DEF Aside, AtMostWakes, Has, TypeOK
  <2> QED BY <1>1, <2>2, <2>4, <2>5, WroteSound, SoloStep
<1> QED BY <1>2, <1>3, <1>4

\* spawn(): the first loop of an agent.
LEMMA SpawnSolo ==
  ASSUME OneLoop, TypeOK, Solo, up', NEW a \in Agents, Spawn(a)
  PROVE  Solo'
<1> DEFINE l == <<a, 1>>
<1>1. /\ l \in Loops /\ Owner(l) = a /\ LoopSound(l) /\ RowSound(a)
      /\ \A m \in LoopsOf(a) : m = l
  BY LoopOfOne DEF Solo, LoopsOf
<1>2. Place(a, l, "top") /\ registered' = [registered EXCEPT ![a] = l]
      /\ UNCHANGED <<unread, isSuspended>>
  BY <1>1 DEF Spawn
<1>3. pc[l] = "none" /\ pc'[l] = "top" /\ registered'[a] = l
      /\ \A m \in Loops : m # l => pc'[m] = pc[m]
  BY <1>1, <1>2, GotoMoves DEF Place, Idle, PCs, TypeOK
<1>4. Wrote(a, "running", FALSE) /\ \A b \in Agents : b # a => SameRow(b)
  BY SetRowAll DEF Spawn
<1>5. RowSound(a)'
  BY <1>1, <1>4, WroteSound
<1>6. LoopSound(l)'
  BY <1>1, <1>2, <1>3, <1>4 DEF LoopSound, AtWork, Returning, Wrote, SameRow
<1>7. \A m \in Loops : Owner(m) # a => Aside(m)
  BY <1>1, <1>2, <1>3, <1>4, OwnerType DEF Aside, AtMostWakes, Has, TypeOK
<1> QED BY <1>1, <1>4, <1>5, <1>6, <1>7, SoloStep

\* The archival withdraws a question in the table only; the loop still waits.
LEMMA ArchivalSolo ==
  ASSUME OneLoop, TypeOK, Solo, NEW a \in Agents, ArchivalRetracts(a)
  PROVE  Solo'
<1> DEFINE l == <<a, 1>>
<1>1. l \in Loops /\ Owner(l) = a /\ LoopSound(l) /\ RowSound(a)
  BY LoopOfOne DEF Solo
<1>2. Free /\ up' /\ status[a] = "suspended" /\ UNCHANGED <<unread, registered, pc, isSuspended>>
  BY DEF ArchivalRetracts, loopVars, procVars, hostVars, Free
<1>3. Wrote(a, "retracted", asking[a]) /\ \A b \in Agents : b # a => SameRow(b)
  BY SetRowAll DEF ArchivalRetracts
<1>4. pc[l] \in {"none", "waiting", "tools", "steward"}
  BY <1>1, <1>2, FreeLoops
<1>5. LoopSound(l)'
  BY <1>1, <1>2, <1>3, <1>4 DEF LoopSound, AtWork, Returning, Wrote, Has, RowSound
<1>6. \A m \in Loops : Owner(m) # a => Aside(m)
  BY <1>2, <1>3, OwnerType DEF Aside, AtMostWakes, Has
<1> QED BY <1>1, <1>2, <1>3, <1>5, <1>6, WroteSound, SoloStep

\* ~reset withdraws the questions that no loop waits with.
LEMMA ResetSolo ==
  ASSUME OneLoop, TypeOK, Solo, ResetRetracts
  PROVE  Solo'
<1> DEFINE live == {a \in Agents : status[a] \in Active}
           reached == {a \in live : registered[a] # NoLoop}
           rest == {a \in live \ reached : status[a] = "suspended"}
<1>1. /\ Emit(reached) /\ UNCHANGED <<asking, registered, isSuspended, up>> /\ Free
      /\ \A a \in Agents : a \notin rest => SameRow(a)
      /\ \A a \in rest : status'[a] = "retracted" /\ ~told'[a] /\ registered[a] = NoLoop
  BY DEF ResetRetracts, SameRow, TypeOK
<1>2. \A a \in Agents : a \notin rest => Has(a, "signal")' = Has(a, "signal")
  BY DEF ResetRetracts, Has, TypeOK, MessageKinds
<1>3. \A a \in Agents : RowSound(a)'
  BY <1>1 DEF Solo, RowSound, SameRow
<1>4. ASSUME NEW l \in Loops PROVE LoopSound(l)'
  <2>1. AtMostWakes(l) /\ Owner(l) \in Agents /\ LoopSound(l)
    BY <1>1, EmitMoves, OwnerType DEF AtMostWakes, Solo
  <2>2. CASE Owner(l) \notin rest
    BY <1>1, <1>2, <2>1, <2>2, AsideSound DEF Aside
  <2>3. CASE Owner(l) \in rest
    <3>1. pc[l] \in {"none", "waiting", "tools", "steward"} /\ l # NoLoop
      BY <1>1, <2>1, FreeLoops, ConstantsAssumption DEF NoLoop, Owner
    <3>2. pc[l] = "none"
      BY <1>1, <2>1, <2>3, <3>1 DEF LoopSound
    <3> QED BY <1>1, <2>1, <3>2 DEF LoopSound, AtWork, Returning, AtMostWakes
  <2> QED BY <2>2, <2>3
<1>5. up'
  BY <1>1 DEF Free
<1> QED BY <1>3, <1>4, <1>5 DEF Solo

\* The table is emptied under the loops.
LEMMA ClearSolo ==
  ASSUME OneLoop, TypeOK, IInv, Solo, ResetClears
  PROVE  Solo'
<1>1. /\ Free /\ up' /\ UNCHANGED <<registered, pc, isSuspended>>
      /\ \A a \in Agents : /\ status'[a] = IF status[a] = "none" THEN "none" ELSE "gone"
                           /\ ~told'[a] /\ ~Has(a, "signal")'
  BY DEF ResetClears, loopVars, Free, Has, Empty, MessageKinds
<1>2. \A a \in Agents : RowSound(a)'
  BY <1>1 DEF RowSound
<1>3. ASSUME NEW l \in Loops PROVE LoopSound(l)'
  <2>1. /\ Owner(l) \in Agents /\ LoopSound(l) /\ l \in LoopsOf(Owner(l))
        /\ pc[l] \in {"none", "waiting", "tools", "steward"}
    BY <1>1, OwnerType, FreeLoops DEF Solo, LoopsOf
  <2>2. status[Owner(l)] = "none" => pc[l] = "none"
    BY <2>1 DEF IInv, UnbornAtRest
  <2> QED BY <1>1, <2>1, <2>2 DEF LoopSound, AtWork, Returning
<1> QED BY <1>1, <1>2, <1>3 DEF Solo

\* A process that dies, in whatever way, leaves the rows sound.
LEMMA GoneSolo ==
  ASSUME Gone, \A a \in Agents : RowSound(a)'
  PROVE  Solo'
<1>1. \A l \in Loops : pc'[l] = "none" /\ ~isSuspended'[l] /\ registered'[Owner(l)] = NoLoop
  BY OwnerType DEF Gone
<1>2. \A l \in Loops : LoopSound(l)'
  BY <1>1 DEF LoopSound, AtWork, Returning
<1> QED BY <1>1, <1>2 DEF Solo

LEMMA ProcessSolo ==
  ASSUME OneLoop, IInv, Solo, ProcessStep
  PROVE  Solo'
<1>1. TypeOK /\ \A a \in Agents : RowSound(a)
  BY DEF IInv, Solo
<1>2. CASE ResetRetracts
  BY <1>1, <1>2, ResetSolo
<1>3. CASE ResetClears
  BY <1>1, <1>3, ClearSolo
<1>4. CASE Crash
  BY <1>1, <1>4, GoneSolo DEF Crash, rowVars, RowSound
<1>5. CASE Exits
  <2>1. \A a \in Agents : RowSound(a)'
    BY <1>1, <1>5 DEF Exits, RowSound, TypeOK
  <2> QED BY <1>5, <2>1, GoneSolo DEF Exits
<1>6. CASE Boot
  <2>1. /\ UNCHANGED <<asking, unread, registered, pc, isSuspended>> /\ up'
        /\ \A l \in Loops : pc[l] = "none"
    BY <1>6 DEF Boot, loopVars, Solo
  <2>2. \A a \in Agents : RowSound(a)'
    BY <1>1, <1>6 DEF Boot, RowSound, TypeOK
  <2>3. \A l \in Loops : LoopSound(l)'
    BY <2>1 DEF Solo, LoopSound, AtWork, Returning
  <2> QED BY <2>1, <2>2, <2>3 DEF Solo
<1>7. CASE Closes
  <2>1. /\ UNCHANGED <<rowVars, registered, isSuspended, up>> /\ up
        /\ \A l \in Loops : AtMostWakes(l)
    BY <1>1, <1>7, EmitMoves DEF Closes, Free, AtMostWakes
  <2>2. \A a \in Agents : SameRow(a) /\ Has(a, "signal")' = Has(a, "signal")
    BY <1>1, <1>7 DEF Closes, SameRow, rowVars, Has, TypeOK, MessageKinds
  <2> QED BY <2>1, <2>2, AsideSolo, OwnerType DEF Aside
<1>8. CASE BudgetChanges
  BY <1>8, AsideSolo DEF BudgetChanges, Aside, AtMostWakes, SameRow, rowVars, loopVars, Has, Free
<1> QED BY <1>2, <1>3, <1>4, <1>5, <1>6, <1>7, <1>8 DEF ProcessStep

\* A message to whomever, and what changes nothing that loops and rows show.
LEMMA PostSolo ==
  ASSUME TypeOK, Solo, up', NEW a \in Agents, NEW k \in MessageKinds \ {"signal"},
         Post(a, k), NEW S, Emit(S) \/ pc' = pc, UNCHANGED <<rowVars, registered, isSuspended>>
  PROVE  Solo'
<1>1. \A b \in Agents : SameRow(b) /\ Has(b, "signal")' = Has(b, "signal")
  BY PostAside DEF SameRow, rowVars
<1>2. \A l \in Loops : Aside(l)
  BY <1>1, EmitMoves, OwnerType DEF Aside, AtMostWakes
<1> QED BY <1>1, <1>2, AsideSolo

LEMMA SoloInductive ==
  ASSUME OneLoop, IInv, Solo, [Next]_vars
  PROVE  Solo'
<1>1. TypeOK
  BY DEF IInv
<1>2. CASE UNCHANGED vars
  BY <1>2 DEF Solo, RowSound, LoopSound, AtWork, Returning, Fresh, Has,
              vars, rowVars, loopVars, procVars, hostVars
<1>3. ASSUME NEW l \in Loops, LoopStep(l) PROVE Solo'
  <2>1. CASE TopBlocked(l) \/ RoundAborts(l)
    BY <1>1, <2>1, ThrowsSolo DEF TopBlocked, RoundAborts, Free, procVars, hostVars
  <2>2. CASE TopRetracted(l) \/ Top(l)
    BY <1>1, <2>2, TopSolo
  <2>3. CASE ReportsQuestion(l) \/ ReportsEnd(l)
    BY <1>1, <2>3, TellSolo
  <2>4. CASE CleansUp(l) \/ Begin(l) \/ Wakes(l) \/ EndTurn(l)
    BY <2>4, MoveSolo
  <2>5. CASE Completes(l) \/ Suspends(l)
    BY <1>1, <2>5, VerdictSolo
  <2> QED BY <1>3, <2>1, <2>2, <2>3, <2>4, <2>5 DEF LoopStep, RunsOn
<1>4. ASSUME NEW l \in Loops, ToolStep(l) PROVE Solo'
  <2>1. Owner(l) \in Agents
    BY OwnerType
  <2>2. CASE Round(l)
    <3>1. \A a \in Agents : Has(a, "signal")' = Has(a, "signal")
      BY <1>1, <2>1, <2>2 DEF Round, Has, TypeOK, MessageKinds
    <3> QED BY <2>2, <3>1, AsideSolo, OwnerType DEF Round, Aside, AtMostWakes, SameRow, rowVars,
                loopVars, procVars, hostVars, Free
  <2>3. CASE ToolsThrow(l) \/ (EndTurnWithoutTools(l) /\ nudged[l])
    BY <1>1, <2>3, ThrowsSolo DEF ToolsThrow, EndTurnWithoutTools, Free, procVars, hostVars
  <2>4. CASE EndTurnWithoutTools(l) /\ ~nudged[l]
    BY <2>4, MoveSolo
  <2>5. CASE Responds(l)
    <3>1. Parent[Owner(l)] \in Agents
      BY <2>1, <2>5, ConstantsAssumption DEF Responds
    <3> QED BY <1>1, <2>5, <3>1, PostSolo DEF Responds, Free, MessageKinds
  <2>6. ASSUME NEW c \in Agents, ParentSpawns(l, c) PROVE Solo'
    BY <1>1, <2>6, SpawnSolo DEF ParentSpawns, Free, procVars, hostVars
  <2>7. ASSUME NEW c \in Agents, ParentSends(l, c) PROVE Solo'
    BY <1>1, <2>7, UpdateSolo DEF ParentSends, Free
  <2>8. ASSUME NEW c \in Agents, ParentCancels(l, c) PROVE Solo'
    BY <1>1, <2>8, RetractSolo DEF ParentCancels, Free
  <2> QED BY <1>4, <2>2, <2>3, <2>4, <2>5, <2>6, <2>7, <2>8 DEF ToolStep
<1>5. ASSUME NEW a \in Agents, HeadStep(a) PROVE Solo'
  <2>1. CASE HeadSpawns(a)
    BY <1>1, <2>1, SpawnSolo DEF HeadSpawns, Free, procVars, hostVars
  <2>2. CASE HeadChecks(a) \/ StewardRefuses(a)
    BY <2>2, AsideSolo DEF HeadChecks, StewardRefuses, Aside, AtMostWakes, SameRow, rowVars,
                           loopVars, Has, Free
  <2>3. CASE HeadSends(a)
    BY <1>1, <2>3, UpdateSolo DEF HeadSends, Free
  <2>4. CASE Cancels(a)
    BY <1>1, <2>4, RetractSolo DEF Cancels, Free
  <2>5. CASE ArchivalRetracts(a)
    BY <1>1, <2>5, ArchivalSolo
  <2> QED BY <1>5, <2>1, <2>2, <2>3, <2>4, <2>5 DEF HeadStep
<1> QED BY <1>2, <1>3, <1>4, <1>5, ProcessSolo DEF Next

-----------------------------------------------------------------------------
(* The refinement *)

LifeStep == [Life!Next]_(Life!lifeVars)

\* A row that is not there is not written; the present one is.
LEMMA SetRowLife ==
  ASSUME NEW a \in Agents, NEW v, NEW q, SetRow(a, v, q)
  PROVE  \/ status[a] = "gone" /\ UNCHANGED rowVars
         \/ status[a] # "gone" /\ Life!Set(a, v, q, FALSE)
BY DEF SetRow, Life!Set

\* A row that is written as it was stays the same.
LEMMA Rewritten ==
  ASSUME TypeOK, NEW a \in Agents, NEW q \in BOOLEAN, SetRow(a, status[a], q),
         asking[a] = q, ~told[a]
  PROVE  UNCHANGED rowVars
<1>1. [status EXCEPT ![a] = status[a]] = status
  BY DEF TypeOK
<1>2. [asking EXCEPT ![a] = asking[a]] = asking
  BY DEF TypeOK
<1>3. told[a] = FALSE
  BY DEF TypeOK
<1>4. [told EXCEPT ![a] = told[a]] = told
  BY DEF TypeOK
<1> QED BY <1>1, <1>2, <1>3, <1>4 DEF SetRow, rowVars

LEMMA QuietLife ==
  ASSUME UNCHANGED rowVars
  PROVE  LifeStep
BY DEF LifeStep, rowVars, Life!lifeVars

\* Ending an agent that works, asks, or was withdrawn while its loop waited.
LEMMA EndLife ==
  ASSUME TypeOK, NEW a \in Agents, NEW v \in {"retracted", "failed", "completed"},
         SetRow(a, v, asking[a]),
         \/ status[a] \in {"running", "suspended", "gone"}
         \/ status[a] = "retracted" /\ asking[a] /\ ~told[a] /\ v \in {"retracted", "failed"}
  PROVE  LifeStep
<1>1. CASE status[a] = "gone"
  BY <1>1, SetRowLife, QuietLife
<1>2. CASE status[a] \in {"running", "suspended"}
  <2>1. Life!Set(a, v, asking[a], FALSE)
    BY <1>2, SetRowLife
  <2> QED BY <1>2, <2>1 DEF LifeStep, Life!Next, Life!End, Life!In, Life!Live, Life!Ended
<1>3. CASE status[a] = "retracted" /\ asking[a] /\ ~told[a] /\ v = "retracted"
  <2>1. asking[a] \in BOOLEAN
    BY DEF TypeOK
  <2>2. UNCHANGED rowVars
    BY <1>3, <2>1, Rewritten
  <2> QED BY <2>2, QuietLife
<1>4. CASE status[a] = "retracted" /\ asking[a] /\ ~told[a] /\ v = "failed"
  <2>1. Life!Set(a, "failed", TRUE, FALSE)
    <3>1. asking[a] = TRUE
      BY <1>4 DEF TypeOK
    <3> QED BY <1>4, <3>1, SetRowLife
  <2> QED BY <1>4, <2>1 DEF LifeStep, Life!Next, Life!Lapse, Life!In
<1> QED BY <1>1, <1>2, <1>3, <1>4

\* What a loop at work, or back from its wait, may end.
LEMMA Endable ==
  ASSUME IInv, Solo, NEW l \in Loops, pc[l] \in {"top", "tools", "steward"}
  PROVE  LET a == Owner(l) IN
         /\ a \in Agents
         /\ \/ status[a] \in {"running", "suspended", "gone"}
            \/ status[a] = "retracted" /\ asking[a] /\ ~told[a] /\ pc[l] = "top"
BY OwnerType DEF Solo, LoopSound, AtWork, Returning

\* The steps of a loop.
LEMMA LoopLife ==
  ASSUME OneLoop, IInv, Solo, NEW l \in Loops, LoopStep(l)
  PROVE  LifeStep
<1> DEFINE a == Owner(l)
<1>1. a \in Agents /\ TypeOK /\ LoopSound(l) /\ RowSound(a)
  BY OwnerType DEF IInv, Solo
<1>2. CASE TopBlocked(l) \/ RoundAborts(l)
  <2>1. pc[l] \in {"top", "tools"}
    BY <1>2 DEF TopBlocked, RoundAborts
  <2>2. SetRow(a, "retracted", asking[a]) \/ SetRow(a, "failed", asking[a])
    BY <1>2 DEF TopBlocked, RoundAborts, Throws
  <2> QED BY <1>1, <2>1, <2>2, Endable, EndLife
<1>3. CASE TopRetracted(l)
  BY <1>1, <1>3, Endable, EndLife DEF TopRetracted
<1>4. CASE Top(l) /\ Resumed(l)
  <2>1. pc[l] = "top" /\ isSuspended[l] /\ Has(a, "signal") /\ SetRow(a, "running", FALSE)
    BY <1>4 DEF Top, Takes, Resumed
  <2>2. CASE status[a] = "gone"
    BY <1>1, <2>1, <2>2, SetRowLife, QuietLife
  <2>3. CASE status[a] = "suspended"
    <3>1. Life!Set(a, "running", FALSE, FALSE)
      BY <1>1, <2>1, <2>3, SetRowLife
    <3> QED BY <1>1, <2>3, <3>1 DEF LifeStep, Life!Next, Life!Resume, Life!In
  <2>4. CASE status[a] = "running" /\ ~asking[a] /\ ~told[a]
    <3>1. asking[a] = FALSE
      BY <1>1, <2>4 DEF TypeOK
    <3>2. UNCHANGED rowVars
      BY <1>1, <2>1, <2>4, <3>1, Rewritten
    <3> QED BY <3>2, QuietLife
  <2> QED BY <1>1, <2>1, <2>2, <2>3, <2>4 DEF LoopSound, Returning
<1>5. CASE (Top(l) /\ ~Resumed(l)) \/ Begin(l) \/ Wakes(l) \/ EndTurn(l) \/ CleansUp(l)
  BY <1>5, QuietLife DEF Top, Begin, Wakes, EndTurn, EndsTurn, CleansUp
<1>6. CASE ReportsQuestion(l) \/ ReportsEnd(l)
  <2>1. /\ pc[l] \in Reporting /\ UNCHANGED <<status, asking>>
        /\ told' = [told EXCEPT ![a] = (status[a] # "gone")]
    BY <1>6 DEF ReportsQuestion, ReportsEnd, Tell, Reporting
  <2>2. CASE status[a] = "gone"
    <3>1. told' = told
      BY <1>1, <2>1, <2>2 DEF TypeOK, RowSound
    <3> QED BY <2>1, <3>1, QuietLife DEF rowVars
  <2>3. CASE status[a] # "gone"
    <3>1. status[a] \in {"suspended", "completed", "failed"} /\ ~told[a]
      BY <1>1, <2>1, <2>3 DEF LoopSound, Fresh, Reporting
    <3>2. Life!Set(a, status[a], asking[a], TRUE)
      BY <1>1, <2>1, <2>3 DEF Life!Set, TypeOK
    <3> QED BY <1>1, <3>1, <3>2 DEF LifeStep, Life!Next, Life!Tell, Life!In
  <2> QED BY <2>2, <2>3
<1>7. CASE Completes(l)
  <2>1. pc[l] = "steward" /\ SetRow(a, "completed", asking[a])
    BY <1>7 DEF Completes
  <2> QED BY <1>1, <2>1, Endable, EndLife
<1>8. CASE Suspends(l)
  <2>1. pc[l] = "steward" /\ SetRow(a, "suspended", TRUE)
    BY <1>8 DEF Suspends
  <2>2. status[a] \in {"running", "gone"}
    BY <1>1, <2>1 DEF LoopSound, AtWork
  <2>3. CASE status[a] = "gone"
    BY <1>1, <2>1, <2>3, SetRowLife, QuietLife
  <2>4. CASE status[a] = "running"
    <3>1. Life!Set(a, "suspended", TRUE, FALSE)
      BY <1>1, <2>1, <2>4, SetRowLife
    <3> QED BY <1>1, <2>4, <3>1 DEF LifeStep, Life!Next, Life!Ask, Life!In
  <2> QED BY <2>2, <2>3, <2>4
<1> QED BY <1>2, <1>3, <1>4, <1>5, <1>6, <1>7, <1>8 DEF LoopStep, RunsOn

LEMMA UpdateLife ==
  ASSUME NEW a \in Agents, Update(a)
  PROVE  LifeStep
<1>1. CASE status[a] = "completed"
  <2>1. Life!Set(a, "running", FALSE, FALSE)
    BY <1>1, SetRowLife DEF Update
  <2> QED BY <1>1, <2>1 DEF LifeStep, Life!Next, Life!Resume, Life!In
<1>2. CASE status[a] # "completed"
  BY <1>2, QuietLife DEF Update
<1> QED BY <1>1, <1>2

LEMMA RetractLife ==
  ASSUME TypeOK, NEW a \in Agents, Retract(a)
  PROVE  LifeStep
BY EndLife, QuietLife DEF Retract

LEMMA SpawnLife ==
  ASSUME NEW a \in Agents, Spawn(a)
  PROVE  LifeStep
<1>1. status[a] = "none" /\ Life!Set(a, "running", FALSE, FALSE)
  BY SetRowLife DEF Spawn
<1> QED BY <1>1 DEF LifeStep, Life!Next, Life!Start, Life!In

\* The steps of the model, the head and the dashboard.
LEMMA OthersLife ==
  ASSUME OneLoop, IInv, Solo,
         \/ \E l \in Loops : ToolStep(l)
         \/ \E a \in Agents : HeadStep(a)
  PROVE  LifeStep
<1>1. TypeOK
  BY DEF IInv
<1>2. ASSUME NEW l \in Loops, ToolStep(l) PROVE LifeStep
  <2>1. CASE ToolsThrow(l) \/ (EndTurnWithoutTools(l) /\ nudged[l])
    <3>1. pc[l] = "tools"
      BY <2>1 DEF ToolsThrow, EndTurnWithoutTools
    <3>2. \/ SetRow(Owner(l), "retracted", asking[Owner(l)])
          \/ SetRow(Owner(l), "failed", asking[Owner(l)])
      BY <2>1 DEF ToolsThrow, EndTurnWithoutTools, Throws
    <3> QED BY <1>1, <3>1, <3>2, Endable, EndLife
  <2>2. CASE Round(l) \/ (EndTurnWithoutTools(l) /\ ~nudged[l]) \/ Responds(l)
    BY <2>2, QuietLife DEF Round, EndTurnWithoutTools, Responds
  <2>3. ASSUME NEW c \in Agents, ParentSpawns(l, c) \/ ParentSends(l, c) \/ ParentCancels(l, c)
        PROVE  LifeStep
    BY <1>1, <2>3, SpawnLife, UpdateLife, RetractLife DEF ParentSpawns, ParentSends, ParentCancels
  <2> QED BY <1>2, <2>1, <2>2, <2>3 DEF ToolStep
<1>3. ASSUME NEW a \in Agents, HeadStep(a) PROVE LifeStep
  <2>1. CASE HeadSpawns(a) \/ HeadSends(a) \/ Cancels(a)
    BY <1>1, <2>1, SpawnLife, UpdateLife, RetractLife DEF HeadSpawns, HeadSends, Cancels
  <2>2. CASE HeadChecks(a) \/ StewardRefuses(a)
    BY <2>2, QuietLife DEF HeadChecks, StewardRefuses
  <2>3. CASE ArchivalRetracts(a)
    BY <1>1, <2>3, EndLife DEF ArchivalRetracts
  <2> QED BY <1>3, <2>1, <2>2, <2>3 DEF HeadStep
<1> QED BY <1>2, <1>3

LEMMA ProcessLife ==
  ASSUME TypeOK, ProcessStep
  PROVE  LifeStep
<1>1. CASE ResetRetracts
  <2> DEFINE rest == {a \in Agents : registered[a] = NoLoop /\ status[a] = "suspended"}
  <2>1. /\ rest \subseteq Life!In({"suspended"})
        /\ status' = [a \in Agents |-> IF a \in rest THEN "retracted" ELSE status[a]]
        /\ told' = [a \in Agents |-> told[a] /\ a \notin rest]
        /\ UNCHANGED asking
    BY <1>1 DEF ResetRetracts, Life!In, Active
  <2> QED BY <2>1 DEF LifeStep, Life!Next, Life!Withdraw
<1>2. CASE ResetClears
  BY <1>2 DEF ResetClears, LifeStep, Life!Next, Life!Forget
<1>3. CASE Boot
  <2> DEFINE left == {a \in Agents : status[a] = "running"}
             withdrawn == {a \in left : Has(a, "retract")}
  <2>1. /\ left \in SUBSET Life!In({"running"}) /\ withdrawn \in SUBSET Agents /\ TRUE \in BOOLEAN
        /\ status' = [a \in Agents |-> IF a \notin left THEN status[a]
                                       ELSE IF a \in withdrawn THEN "retracted" ELSE "failed"]
        /\ told' = [a \in Agents |-> IF a \in left THEN TRUE /\ a \notin withdrawn ELSE told[a]]
        /\ UNCHANGED asking
    BY <1>3 DEF Boot, Life!In
  <2>2. Life!Sweep
    BY <2>1 DEF Life!Sweep
  <2> QED BY <2>2 DEF LifeStep, Life!Next
<1>4. CASE Exits
  <2> DEFINE left == {a \in Agents : status[a] = "running"}
  <2>1. /\ left \in SUBSET Life!In({"running"}) /\ {} \in SUBSET Agents /\ FALSE \in BOOLEAN
        /\ status' = [a \in Agents |-> IF a \notin left THEN status[a]
                                       ELSE IF a \in {} THEN "retracted" ELSE "failed"]
        /\ told' = [a \in Agents |-> IF a \in left THEN FALSE /\ a \notin {} ELSE told[a]]
        /\ UNCHANGED asking
    BY <1>4 DEF Exits, Life!In, TypeOK
  <2>2. Life!Sweep
    BY <2>1 DEF Life!Sweep
  <2> QED BY <2>2 DEF LifeStep, Life!Next
<1>5. CASE Crash \/ Closes \/ BudgetChanges
  BY <1>5, QuietLife DEF Crash, Closes, BudgetChanges
<1> QED BY <1>1, <1>2, <1>3, <1>4, <1>5 DEF ProcessStep

LEMMA NextLife ==
  ASSUME OneLoop, IInv, Solo, [Next]_vars
  PROVE  LifeStep
<1>1. CASE UNCHANGED vars
  BY <1>1, QuietLife DEF vars
<1>2. TypeOK
  BY DEF IInv
<1> QED BY <1>1, <1>2, LoopLife, OthersLife, ProcessLife DEF Next

LEMMA InitLife ==
  ASSUME Init
  PROVE  Solo /\ Life!Init
<1>1. \A a \in Agents : RowSound(a)
  BY DEF Init, RowSound
<1>2. \A l \in Loops : LoopSound(l)
  BY OwnerType DEF Init, LoopSound, AtWork, Returning
<1> QED BY <1>1, <1>2 DEF Init, Solo, Life!Init

\* Where a loop is and what the row of its agent says go together.
THEOREM LoopsAndRows == ASSUME OneLoop PROVE Spec => []Solo
<1>1. Init => Solo
  BY InitLife
<1>2. IInv /\ Solo /\ [Next]_vars => Solo'
  BY SoloInductive
<1> QED BY <1>1, <1>2, InvariantHolds, PTL DEF Spec

\* Agents start once, ask and are answered, end, are told of at most once, and
\* only the completed are continued, whatever their loops do.
THEOREM LifeRefined == ASSUME OneLoop PROVE Spec => ImplementsLife
<1>1. Init => Life!Init
  BY InitLife
<1>2. IInv /\ Solo /\ [Next]_vars => [Life!Next]_(Life!lifeVars)
  BY NextLife DEF LifeStep
<1> QED BY <1>1, <1>2, InvariantHolds, LoopsAndRows, PTL DEF Spec, ImplementsLife, Life!Spec

-----------------------------------------------------------------------------
(* Parents and their sub-agents *)

\* Only a parent's tools and the head get a sub-agent going that was not.
Rises(c) ==
  \/ /\ status'[c] \in Active => status[c] \in Active
     /\ status[c] = "none" => status'[c] = "none"
  \/ /\ status'[Parent[c]] = status[Parent[c]]
     /\ \E l \in LoopsOf(Parent[c]) : pc[l] = "tools"
  \/ c \in revived' /\ status[c] # "none"

\* A loop comes to its steward by the end of its turn, and to its report from there.
Ends(l) ==
  \/ pc'[l] = pc[l]
  \/ pc'[l] \notin {"steward", "ask", "done"}
  \/ pc[l] = "steward" /\ pc'[l] # "steward"
  \/ EndTurn(l) /\ pc'[l] = "steward"

\* A row says that its agent ended or asks when its loop's steward has said so.
Rules(a) ==
  status'[a] \in {"completed", "suspended"}
    => status'[a] = status[a] \/ \E l \in LoopsOf(a) : pc[l] = "steward"

\* Results come from the reports of sub-agents.
Hears(a) ==
  Has(a, "result")' => \/ Has(a, "result")
                       \/ \E m \in Loops : Parent[Owner(m)] = a /\ pc[m] \in {"ask", "done"}

\* That the head did is known until the parent has looked at its children.
Remembers ==
  \A c \in revived : \/ c \in revived'
                     \/ \E l \in LoopsOf(Parent[c]) : EndTurn(l) /\ pc'[l] = "steward"

Orderly ==
  /\ Remembers
  /\ \A a \in Agents : /\ status'[a] = "gone" <=> status[a] = "gone"
                       /\ status'[a] = "none" => status[a] = "none"
                       /\ Parent[a] # NoAgent => Rises(a)
                       /\ Rules(a) /\ Hears(a)
  /\ \A l \in Loops : Ends(l)

LEMMA OrderlyFamily ==
  ASSUME OneLoop, IInv, Solo, Family, Orderly
  PROVE  Family'
<1>2. \A c \in Agents : Parent[c] # NoAgent => Parent[c] \in Agents
  BY ConstantsAssumption
<1>3. ASSUME NEW c \in Agents PROVE ChildSound(c)'
  <2> SUFFICES ASSUME Parent[c] # NoAgent
               PROVE  /\ status'[c] # "none" => status'[Parent[c]] # "none"
                      /\ status'[c] = "gone" => status'[Parent[c]] = "gone"
    BY DEF ChildSound
  <2>1. Parent[c] \in Agents /\ ChildSound(c) /\ Rises(c)
    BY <1>2 DEF Family, Orderly
  <2>2. ASSUME NEW l \in LoopsOf(Parent[c]), pc[l] = "tools" PROVE status[Parent[c]] # "none"
    BY <2>1, <2>2 DEF IInv, UnbornAtRest
  <2>3. status'[c] # "none" => status[Parent[c]] # "none"
    BY <2>1, <2>2 DEF ChildSound, Rises
  <2> QED BY <2>1, <2>3 DEF ChildSound, Orderly
<1>4. ASSUME NEW l \in Loops PROVE EndSound(l)'
  <2> DEFINE a == Owner(l)
  <2> SUFFICES ASSUME pc'[l] \in {"steward", "done"}, status'[a] # "gone"
               PROVE  Heard(a)' /\ Quiet(a)'
    BY DEF EndSound
  <2>1. a \in Agents /\ status[a] # "gone" /\ l \in LoopsOf(a) /\ Ends(l) /\ Hears(a)
    BY OwnerType DEF Orderly, LoopsOf
  <2>2. CASE EndTurn(l) /\ pc'[l] = "steward"
    <3>1. /\ Free /\ ~Pending(a) /\ ~HasRunningChildren(a) /\ UNCHANGED <<status, unread>>
          /\ \A m \in Loops : m # l => pc'[m] = pc[m]
      <4>1. pc'[l] = IF Pending(a) THEN "top" ELSE IF HasRunningChildren(a) THEN "waiting" ELSE "steward"
        BY <2>2, GotoMoves DEF EndTurn, EndsTurn, IInv, PCs
      <4> QED BY <2>2, <4>1, GotoMoves DEF EndTurn, EndsTurn, rowVars, IInv, PCs
    <3>2. \A m \in Loops : pc[m] \notin {"ask", "done"}
      BY <3>1 DEF Free, Running, Reporting
    <3>3. ~Has(a, "result")'
      BY <3>1 DEF Pending, Has, MessageKinds
    <3>4. ASSUME NEW c \in Children(a) PROVE status'[c] \notin Active
      BY <3>1, <3>4 DEF HasRunningChildren
    <3>5. ASSUME NEW c \in Children(a), NEW m \in LoopsOf(c) PROVE pc'[m] \notin {"ask", "done"}
      BY <2>2, <3>1, <3>2, <3>5 DEF LoopsOf
    <3> QED BY <3>3, <3>4, <3>5 DEF Heard, Quiet, AtRest, Children, LoopsOf
  <2>3. CASE pc[l] \in {"steward", "done"}
    <3>1. Heard(a) /\ Quiet(a)
      BY <2>1, <2>3 DEF Family, EndSound
    <3>2. \A m \in LoopsOf(a) : pc[m] # "tools"
      BY <2>1, <2>3, LoopOfOne DEF LoopsOf
    <3>3. ASSUME NEW c \in Children(a), c \in revived PROVE c \in revived'
      <4>1. Parent[c] = a /\ ~ \E m \in LoopsOf(a) : EndTurn(m)
        BY <3>2 DEF Children, EndTurn, EndsTurn
      <4> QED BY <3>3, <4>1 DEF Orderly, Remembers
    <3>4. Heard(a)'
      <4> SUFFICES ASSUME Has(a, "result")'
                   PROVE  \E c \in Children(a) : c \in revived'
        BY DEF Heard, Children
      <4>1. CASE Has(a, "result")
        BY <3>1, <3>3, <4>1 DEF Heard
      <4>2. ASSUME NEW m \in Loops, Parent[Owner(m)] = a, pc[m] \in {"ask", "done"}
            PROVE  Owner(m) \in Children(a) /\ Owner(m) \in revived'
        <5>1. Owner(m) \in Children(a) /\ m \in LoopsOf(Owner(m))
          BY <4>2, OwnerType DEF Children, LoopsOf
        <5> QED BY <3>1, <3>3, <4>2, <5>1 DEF Quiet, AtRest
      <4> QED BY <2>1, <4>1, <4>2 DEF Hears
    <3>5. ASSUME NEW c \in Children(a), c \notin revived'
          PROVE  status'[c] \notin Active /\ \A m \in LoopsOf(c) : pc'[m] \notin {"ask", "done"}
      <4>1. /\ c \in Agents /\ Parent[c] = a /\ a # NoAgent /\ Rises(c) /\ c \notin revived
            /\ status[c] \notin Active /\ \A m \in LoopsOf(c) : pc[m] \notin {"ask", "done"}
        BY <2>1, <3>1, <3>3, <3>5, ConstantsAssumption DEF Children, Quiet, AtRest, Orderly
      <4>3. status'[c] \notin Active
        BY <3>2, <3>5, <4>1 DEF Rises
      <4>4. status[c] \notin {"running", "gone"}
        BY <2>1, <4>1 DEF Family, ChildSound, Active
      <4>5. ASSUME NEW m \in LoopsOf(c) PROVE pc'[m] \notin {"ask", "done"}
        <5>1. m \in Loops /\ Owner(m) = c /\ Ends(m) /\ LoopSound(m)
          BY DEF LoopsOf, Orderly, Solo
        <5>2. pc[m] # "steward"
          BY <4>4, <5>1 DEF LoopSound, AtWork
        <5> QED BY <4>1, <5>1, <5>2 DEF Ends
      <4> QED BY <4>3, <4>5
    <3> QED BY <3>4, <3>5 DEF Quiet, AtRest, Children, LoopsOf
  <2> QED BY <2>1, <2>2, <2>3 DEF Ends
<1>5. NoActiveChildOfEndedParent'
  <2> SUFFICES ASSUME NEW a \in Agents, status'[a] \in {"completed", "suspended"},
                      NEW c \in Children(a), status'[c] \in Active, c \notin revived'
               PROVE  FALSE
    BY DEF NoActiveChildOfEndedParent, Children
  <2>1. c \in Agents /\ Parent[c] = a /\ a # NoAgent /\ Rises(c) /\ Rules(a) /\ status[a] # "gone"
    BY ConstantsAssumption DEF Children, Orderly
  <2>2. ASSUME status'[a] = status[a] PROVE \A l \in LoopsOf(a) : pc[l] # "tools"
    BY <2>2 DEF Solo, LoopSound, AtWork, LoopsOf
  <2>3. c \notin revived
    <3> SUFFICES ASSUME NEW l \in LoopsOf(a), EndTurn(l) PROVE FALSE
      BY <2>1 DEF Orderly, Remembers
    <3>1. status' = status /\ pc[l] = "tools"
      BY DEF EndTurn, EndsTurn, rowVars
    <3> QED BY <2>2, <3>1
  <2>4. CASE status[c] \in Active
    <3>1. status'[a] # status[a]
      BY <2>1, <2>3, <2>4 DEF Family, NoActiveChildOfEndedParent
    <3>2. PICK l \in LoopsOf(a) : pc[l] = "steward"
      BY <3>1, <2>1 DEF Rules
    <3>3. Quiet(a)
      BY <2>1, <3>2 DEF Family, EndSound, LoopsOf
    <3> QED BY <2>3, <2>4, <3>3 DEF Quiet, AtRest
  <2> QED BY <2>1, <2>2, <2>4 DEF Rises
<1> QED BY <1>3, <1>4, <1>5 DEF Family

\* A step that writes no status.
LEMMA CalmOrderly ==
  ASSUME status' = status, Remembers,
         \A l \in Loops : Ends(l), \A a \in Agents : Hears(a)
  PROVE  Orderly
BY DEF Orderly, Rises, Rules

\* A step that writes the row of one agent.
LEMMA WriteOrderly ==
  ASSUME NEW a \in Agents, NEW v \in Statuses \ {"none", "gone"}, NEW q, Wrote(a, v, q),
         \A b \in Agents : b # a => SameRow(b),
         revived \subseteq revived',
         Parent[a] # NoAgent => Rises(a), Rules(a),
         \A l \in Loops : Ends(l), \A b \in Agents : Hears(b)
  PROVE  Orderly
<1>1. \A b \in Agents : b # a => Rises(b) /\ Rules(b)
  BY DEF Rises, Rules, SameRow
<1>2. \A b \in Agents : /\ status'[b] = "gone" <=> status[b] = "gone"
                        /\ status'[b] = "none" => status[b] = "none"
  BY DEF Wrote, SameRow
<1> QED BY <1>1, <1>2 DEF Orderly, Remembers

LEMMA WakeEnds ==
  ASSUME NEW l \in Loops, AtMostWakes(l)
  PROVE  Ends(l)
BY DEF AtMostWakes, Ends

\* Only a report puts a result in an inbox.
LEMMA PostHears ==
  ASSUME TypeOK, NEW a \in Agents, NEW k \in MessageKinds \ {"result"}, Post(a, k)
  PROVE  \A b \in Agents : Hears(b)
BY DEF TypeOK, Post, Has, Hears, MessageKinds

LEMMA LoopOrderly ==
  ASSUME OneLoop, IInv, Solo, NEW l \in Loops, LoopStep(l)
  PROVE  Orderly
<1> DEFINE a == Owner(l)
<1>1. /\ a \in Agents /\ TypeOK /\ LoopSound(l) /\ l \in LoopsOf(a)
      /\ pc[l] # "none" => status[a] # "none"
  BY OwnerType DEF IInv, Solo, LoopsOf, UnbornAtRest
<1>2. {"retracted", "failed", "running", "completed", "suspended"} \subseteq Statuses \ {"none", "gone"}
  BY DEF Statuses
<1>3. CASE TopBlocked(l) \/ RoundAborts(l) \/ TopRetracted(l)
  <2>1. /\ revived' = revived /\ pc[l] # "none"
        /\ \/ SetRow(a, "retracted", asking[a]) /\ Goto(l, "cleanup")
           \/ SetRow(a, "failed", asking[a]) /\ Goto(l, "fail")
    BY <1>3 DEF TopBlocked, RoundAborts, TopRetracted, Throws, procVars, hostVars
  <2>2. \A b \in Agents : Hears(b)
    <3>1. CASE TopBlocked(l) \/ RoundAborts(l)
      BY <3>1 DEF TopBlocked, RoundAborts, Throws, Hears, Has
    <3>2. CASE TopRetracted(l)
      <4>1. unread' = [unread EXCEPT ![a]["retract"] = @ - 1]
        BY <3>2 DEF TopRetracted
      <4> QED BY <1>1, <4>1 DEF Hears, Has, TypeOK, MessageKinds
    <3> QED BY <1>3, <3>1, <3>2
  <2>3. \A m \in Loops : Ends(m)
    BY <1>1, <2>1, GotoMoves DEF Ends, PCs, Reporting
  <2>4. /\ Wrote(a, "retracted", asking[a]) \/ Wrote(a, "failed", asking[a])
        /\ \A b \in Agents : b # a => SameRow(b)
    BY <1>1, <2>1, SetRowAll
  <2>5. Rises(a) /\ Rules(a)
    BY <1>1, <2>1, <2>4 DEF Rises, Rules, Wrote, SameRow, Active
  <2> QED BY <1>1, <1>2, <2>1, <2>2, <2>3, <2>4, <2>5, WriteOrderly
<1>4. CASE Top(l)
  <2>1. revived' = revived /\ pc[l] = "top" /\ (Goto(l, "waiting") \/ Goto(l, "tools"))
    BY <1>4 DEF Top, Takes, procVars, hostVars
  <2>2. \A b \in Agents : Hears(b)
    BY <1>1, <1>4 DEF Top, Hears, Has, Empty, TypeOK, MessageKinds
  <2>3. \A m \in Loops : Ends(m)
    BY <1>1, <2>1, GotoMoves DEF Ends, PCs
  <2>4. CASE Resumed(l)
    <3>1. Wrote(a, "running", FALSE) /\ \A b \in Agents : b # a => SameRow(b)
      BY <1>1, <1>4, <2>4, SetRowAll DEF Top
    <3>2. status[a] \in {"suspended", "running", "gone"}
      BY <1>1, <2>1, <2>4 DEF LoopSound, Returning, Resumed
    <3>3. Rises(a) /\ Rules(a)
      BY <1>1, <2>1, <3>1, <3>2 DEF Rises, Rules, Wrote, SameRow, Active
    <3> QED BY <1>1, <1>2, <2>1, <2>2, <2>3, <3>1, <3>3, WriteOrderly
  <2>5. CASE ~Resumed(l)
    BY <1>4, <2>1, <2>2, <2>3, <2>5, CalmOrderly DEF Remembers, Top, rowVars
  <2> QED BY <2>4, <2>5
<1>5. CASE ReportsQuestion(l) \/ ReportsEnd(l)
  <2>1. PICK where \in {"top", "cleanup"} : Tell(l, where)
    BY <1>5 DEF ReportsQuestion, ReportsEnd
  <2>2. revived' = revived /\ status' = status /\ pc[l] \in Reporting
    BY <1>5 DEF ReportsQuestion, ReportsEnd, procVars, hostVars, Reporting
  <2>3. \A m \in Loops : Ends(m)
    BY <1>1, <2>1 DEF Tell, Ends, TypeOK
  <2>4. \A b \in Agents : Hears(b)
    <3>1. CASE Parent[a] = NoAgent
      BY <2>1, <3>1 DEF Tell, Hears, Has
    <3>2. CASE Parent[a] # NoAgent /\ pc[l] = "fail"
      <4>1. Parent[a] \in Agents /\ Post(Parent[a], "failure")
        BY <1>1, <2>1, <3>2, ConstantsAssumption DEF Tell
      <4> QED BY <1>1, <4>1, PostHears DEF MessageKinds
    <3>3. CASE Parent[a] # NoAgent /\ pc[l] # "fail"
      <4>1. Parent[a] \in Agents /\ Post(Parent[a], "result") /\ pc[l] \in {"ask", "done"}
        BY <1>1, <2>1, <2>2, <3>3, ConstantsAssumption DEF Tell, Reporting
      <4> QED BY <1>1, <4>1 DEF Hears, Post, Has, TypeOK
    <3> QED BY <3>1, <3>2, <3>3
  <2> QED BY <2>2, <2>3, <2>4, CalmOrderly DEF Remembers
<1>6. CASE CleansUp(l) \/ Begin(l) \/ Wakes(l)
  <2>1. revived' = revived /\ status' = status /\ (Goto(l, "none") \/ Goto(l, "top"))
    BY <1>6 DEF CleansUp, Begin, Wakes, procVars, hostVars, rowVars
  <2>2. \A m \in Loops : Ends(m)
    BY <1>1, <2>1, GotoMoves DEF Ends, PCs
  <2>3. \A b \in Agents : Hears(b)
    <3>1. unread' = unread \/ unread' = [unread EXCEPT ![a] = Empty]
      BY <1>6 DEF CleansUp, Begin, Wakes
    <3> QED BY <1>1, <3>1 DEF Hears, Has, Empty, TypeOK, MessageKinds
  <2> QED BY <2>1, <2>2, <2>3, CalmOrderly DEF Remembers
<1>7. CASE EndTurn(l)
  <2>1. status' = status /\ unread' = unread
    BY <1>7 DEF EndTurn, EndsTurn, rowVars
  <2>2. \A m \in Loops : m # l => pc'[m] = pc[m]
    BY <1>1, <1>7, GotoMoves DEF EndTurn, EndsTurn, PCs
  <2>3. pc'[l] \in {"top", "waiting", "steward"}
    BY <1>1, <1>7, GotoMoves DEF EndTurn, EndsTurn, PCs
  <2>4. Remembers
    <3>1. revived' = IF pc'[l] = "steward" THEN revived \ Children(a) ELSE revived
      BY <1>1, <1>7, GotoMoves DEF EndTurn, EndsTurn, PCs
    <3>2. \A c \in Children(a) : l \in LoopsOf(Parent[c])
      BY <1>1 DEF Children
    <3> QED BY <1>7, <3>1, <3>2 DEF Remembers
  <2> QED BY <1>7, <2>1, <2>2, <2>3, <2>4, CalmOrderly DEF Ends, Hears, Has
<1>8. CASE Completes(l) \/ Suspends(l)
  <2>1. revived' = revived /\ pc[l] = "steward" /\ unread' = unread
    BY <1>8 DEF Completes, Suspends, procVars, hostVars
  <2>2. \A m \in Loops : Ends(m)
    BY <1>1, <1>8, GotoMoves DEF Completes, Suspends, Ends, PCs, Reporting
  <2>3. /\ Wrote(a, "completed", asking[a]) \/ Wrote(a, "suspended", TRUE)
        /\ \A b \in Agents : b # a => SameRow(b)
    BY <1>1, <1>8, SetRowAll DEF Completes, Suspends
  <2>4. Rises(a) /\ Rules(a)
    BY <1>1, <2>1, <2>3 DEF Rises, Rules, Wrote, SameRow, Active, LoopSound, AtWork
  <2> QED BY <1>1, <1>2, <2>1, <2>2, <2>3, <2>4, WriteOrderly DEF Hears, Has
<1> QED BY <1>3, <1>4, <1>5, <1>6, <1>7, <1>8 DEF LoopStep, RunsOn

\* A message comes from the parent's tools or from the head, who is remembered for
\* getting a sub-agent going; a spawn comes from the parent's tools.
LEMMA UpdateOrderly ==
  ASSUME TypeOK, NEW a \in Agents, Update(a), revived \subseteq revived',
         \/ Parent[a] = NoAgent
         \/ \E l \in LoopsOf(Parent[a]) : pc[l] = "tools"
         \/ status[a] = "completed" => a \in revived'
  PROVE  Orderly
<1>1. {"signal", "update"} \subseteq MessageKinds \ {"result"} /\ "running" \in Statuses \ {"none", "gone"}
  BY DEF MessageKinds, Statuses
<1>2. \A b \in Agents : Hears(b)
  BY <1>1, PostHears DEF Update
<1>3. \A m \in Loops : Ends(m)
  <2>1. CASE \E l \in LoopsOf(a) : Place(a, l, "starting")
    BY <2>1, GotoMoves DEF Place, Ends, PCs, LoopsOf
  <2>2. CASE Emit({a})
    BY <2>2, EmitMoves DEF Ends
  <2> QED BY <2>1, <2>2 DEF Update
<1>4. CASE status[a] = "completed"
  <2>1. Wrote(a, "running", FALSE) /\ \A b \in Agents : b # a => SameRow(b)
    BY <1>4, SetRowAll DEF Update
  <2>2. ASSUME Parent[a] # NoAgent PROVE Rises(a)
    <3>1. Parent[a] \in Agents /\ Parent[a] # a
      BY <2>2, ConstantsAssumption
    <3> QED BY <1>4, <2>1, <2>2, <3>1 DEF Rises, SameRow
  <2>3. Rules(a)
    BY <1>4, <2>1 DEF Rules, Wrote
  <2> QED BY <1>1, <1>2, <1>3, <2>1, <2>2, <2>3, WriteOrderly
<1>5. CASE status[a] # "completed"
  BY <1>2, <1>3, <1>5, CalmOrderly DEF Remembers, Update, rowVars
<1> QED BY <1>4, <1>5

LEMMA RetractOrderly ==
  ASSUME TypeOK, NEW a \in Agents, Retract(a), revived' = revived
  PROVE  Orderly
<1>1. "retract" \in MessageKinds \ {"result"} /\ "retracted" \in Statuses \ {"none", "gone"}
  BY DEF MessageKinds, Statuses
<1>2. CASE registered[a] # NoLoop
  <2>1. status' = status /\ \A b \in Agents : Hears(b)
    BY <1>1, <1>2, PostHears DEF Retract, rowVars
  <2>2. \A m \in Loops : Ends(m)
    BY <1>2, EmitMoves DEF Retract, Ends
  <2> QED BY <2>1, <2>2, CalmOrderly DEF Remembers
<1>3. CASE registered[a] = NoLoop /\ status[a] = "suspended"
  <2>1. Wrote(a, "retracted", asking[a]) /\ \A b \in Agents : b # a => SameRow(b)
    BY <1>3, SetRowAll DEF Retract
  <2>2. \A b \in Agents : Hears(b)
    BY <1>3 DEF Retract, Hears, Has, Empty, TypeOK, MessageKinds
  <2>3. Rises(a) /\ Rules(a)
    BY <1>3, <2>1 DEF Rises, Rules, Wrote, Active
  <2> QED BY <1>1, <1>3, <2>1, <2>2, <2>3, WriteOrderly DEF Retract, Ends
<1>4. CASE registered[a] = NoLoop /\ status[a] # "suspended"
  BY <1>4, CalmOrderly DEF Remembers, Retract, rowVars, Ends, Hears, Has
<1> QED BY <1>2, <1>3, <1>4

LEMMA SpawnOrderly ==
  ASSUME TypeOK, NEW a \in Agents, Spawn(a), revived' = revived,
         Parent[a] = NoAgent \/ \E l \in LoopsOf(Parent[a]) : pc[l] = "tools"
  PROVE  Orderly
<1>1. Wrote(a, "running", FALSE) /\ \A b \in Agents : b # a => SameRow(b)
  BY SetRowAll DEF Spawn
<1>2. \A m \in Loops : Ends(m)
  BY GotoMoves DEF Spawn, Place, Ends, PCs, LoopsOf
<1>3. Parent[a] # NoAgent => Rises(a)
  BY <1>1, ConstantsAssumption DEF Rises, SameRow
<1>4. status[a] = "none" /\ Rules(a)
  BY <1>1 DEF Spawn, Rules, Wrote
<1> QED BY <1>1, <1>2, <1>3, <1>4, WriteOrderly DEF Spawn, Hears, Has, Statuses

LEMMA FamilyInductive ==
  ASSUME OneLoop, IInv, Solo, Family, [Next]_vars
  PROVE  Family'
<1>1. TypeOK
  BY DEF IInv
<1>2. CASE UNCHANGED vars
  BY <1>2 DEF Family, ChildSound, EndSound, Quiet, Heard, AtRest,
              NoActiveChildOfEndedParent, Has, vars, rowVars, loopVars, procVars, hostVars
<1>3. ASSUME NEW l \in Loops, LoopStep(l) PROVE Orderly
  BY <1>3, LoopOrderly
<1>4. ASSUME NEW l \in Loops, ToolStep(l) PROVE Orderly
  <2> DEFINE a == Owner(l)
  <2>1. /\ a \in Agents /\ l \in LoopsOf(a) /\ LoopSound(l)
        /\ pc[l] # "none" => status[a] # "none"
    BY OwnerType DEF IInv, Solo, LoopsOf, UnbornAtRest
  <2>2. CASE Round(l)
    BY <1>1, <2>1, <2>2, CalmOrderly DEF Remembers, Round, Ends, Hears, Has, TypeOK, MessageKinds,
       rowVars, loopVars, procVars, hostVars
  <2>3. CASE ToolsThrow(l) \/ (EndTurnWithoutTools(l) /\ nudged[l])
    <3>1. /\ revived' = revived /\ pc[l] = "tools" /\ unread' = unread
          /\ \/ SetRow(a, "retracted", asking[a]) /\ Goto(l, "cleanup")
             \/ SetRow(a, "failed", asking[a]) /\ Goto(l, "fail")
      BY <2>3 DEF ToolsThrow, EndTurnWithoutTools, Throws, procVars, hostVars
    <3>2. \A m \in Loops : Ends(m)
      BY <1>1, <3>1, GotoMoves DEF Ends, PCs, Reporting
    <3>3. /\ Wrote(a, "retracted", asking[a]) \/ Wrote(a, "failed", asking[a])
          /\ \A b \in Agents : b # a => SameRow(b)
      BY <1>1, <2>1, <3>1, SetRowAll
    <3>4. Rises(a) /\ Rules(a)
      BY <2>1, <3>1, <3>3 DEF Rises, Rules, Wrote, SameRow, Active
    <3> QED BY <2>1, <3>1, <3>2, <3>3, <3>4, WriteOrderly DEF Hears, Has, Statuses
  <2>4. CASE EndTurnWithoutTools(l) /\ ~nudged[l]
    <3>1. \A m \in Loops : Ends(m)
      BY <1>1, <2>4, GotoMoves DEF EndTurnWithoutTools, Ends, PCs
    <3> QED BY <2>4, <3>1, CalmOrderly DEF Remembers, EndTurnWithoutTools, Hears, Has, rowVars,
       procVars, hostVars
  <2>5. CASE Responds(l)
    <3>1. Parent[a] \in Agents /\ Post(Parent[a], "update")
      BY <2>1, <2>5, ConstantsAssumption DEF Responds
    <3>2. \A b \in Agents : Hears(b)
      BY <1>1, <3>1, PostHears DEF MessageKinds
    <3>3. \A m \in Loops : Ends(m)
      BY <1>1, <2>5, EmitMoves DEF Responds, Ends
    <3> QED BY <2>5, <3>2, <3>3, CalmOrderly DEF Remembers, Responds, rowVars
  <2>6. ASSUME NEW c \in Agents, ParentSpawns(l, c) PROVE Orderly
    BY <1>1, <2>1, <2>6, SpawnOrderly DEF ParentSpawns, procVars, hostVars
  <2>7. ASSUME NEW c \in Agents, ParentSends(l, c) PROVE Orderly
    BY <1>1, <2>1, <2>7, UpdateOrderly DEF ParentSends
  <2>8. ASSUME NEW c \in Agents, ParentCancels(l, c) PROVE Orderly
    BY <1>1, <2>8, RetractOrderly DEF ParentCancels
  <2> QED BY <1>4, <2>2, <2>3, <2>4, <2>5, <2>6, <2>7, <2>8 DEF ToolStep
<1>5. ASSUME NEW a \in Agents, HeadStep(a) PROVE Orderly
  <2>1. CASE HeadSpawns(a)
    BY <1>1, <2>1, SpawnOrderly DEF HeadSpawns, procVars, hostVars
  <2>2. CASE HeadChecks(a) \/ StewardRefuses(a)
    BY <2>2, CalmOrderly DEF Remembers, HeadChecks, StewardRefuses, Ends, Hears, Has, rowVars,
       loopVars
  <2>3. CASE HeadSends(a)
    <3>1. revived \subseteq revived' /\ Update(a)
      BY <2>3 DEF HeadSends
    <3>2. Parent[a] # NoAgent /\ status[a] = "completed" => a \in revived'
      BY <2>3 DEF HeadSends
    <3> QED BY <1>1, <3>1, <3>2, UpdateOrderly
  <2>4. CASE Cancels(a)
    BY <1>1, <2>4, RetractOrderly DEF Cancels
  <2>5. CASE ArchivalRetracts(a)
    <3>1. Wrote(a, "retracted", asking[a]) /\ \A b \in Agents : b # a => SameRow(b)
      BY <1>1, <2>5, SetRowAll DEF ArchivalRetracts
    <3>2. status[a] = "suspended" /\ UNCHANGED <<unread, pc, revived>>
      BY <2>5 DEF ArchivalRetracts, loopVars, procVars, hostVars
    <3>3. Rises(a) /\ Rules(a)
      BY <3>1, <3>2 DEF Rises, Rules, Wrote, Active
    <3> QED BY <3>1, <3>2, <3>3, WriteOrderly DEF Ends, Hears, Has, Statuses
  <2> QED BY <1>5, <2>1, <2>2, <2>3, <2>4, <2>5 DEF HeadStep
<1>6. CASE ResetRetracts
  <2>1. \A m \in Loops : Ends(m)
    BY <1>1, <1>6, EmitMoves DEF ResetRetracts, Ends
  <2>2. \A b \in Agents : Hears(b)
    BY <1>1, <1>6 DEF ResetRetracts, Hears, Has, Empty, TypeOK, MessageKinds
  <2>3. revived' = revived
        /\ \A a \in Agents : status'[a] = status[a]
                             \/ (status[a] = "suspended" /\ status'[a] = "retracted")
    BY <1>6 DEF ResetRetracts
  <2>4. Orderly
    BY <2>1, <2>2, <2>3 DEF Orderly, Remembers, Rises, Rules, Active
  <2> QED BY <2>4, OrderlyFamily
<1>7. CASE ResetClears
  <2>1. /\ \A a \in Agents : status'[a] = IF status[a] = "none" THEN "none" ELSE "gone"
        /\ pc' = pc /\ revived' = revived
    BY <1>7 DEF ResetClears, loopVars
  <2>2. \A c \in Agents : ChildSound(c)'
    BY <2>1, ConstantsAssumption DEF Family, ChildSound
  <2>3. ASSUME NEW l \in Loops, pc[l] \in {"steward", "done"} PROVE status'[Owner(l)] = "gone"
    BY <2>1, <2>3, OwnerType DEF IInv, UnbornAtRest, LoopsOf
  <2>4. NoActiveChildOfEndedParent'
    BY <2>1 DEF NoActiveChildOfEndedParent
  <2> QED BY <2>1, <2>2, <2>3, <2>4 DEF Family, EndSound
<1>8. CASE Crash \/ Exits
  <2>1. (\A l \in Loops : Ends(l)) /\ revived' = revived /\ unread' = unread
    BY <1>8 DEF Crash, Exits, Gone, Ends
  <2>2. \A a \in Agents : status'[a] = status[a] \/ (status[a] = "running" /\ status'[a] = "failed")
    BY <1>8 DEF Crash, Exits, rowVars
  <2>3. Orderly
    BY <2>1, <2>2 DEF Orderly, Remembers, Rises, Rules, Active, Hears, Has
  <2> QED BY <2>3, OrderlyFamily
<1>9. CASE Boot
  <2>1. UNCHANGED <<pc, revived, unread>>
    BY <1>9 DEF Boot, loopVars
  <2>2. \A a \in Agents : \/ status'[a] = status[a]
                          \/ status[a] = "running" /\ status'[a] \in {"failed", "retracted"}
    BY <1>9 DEF Boot
  <2>3. Orderly
    BY <2>1, <2>2 DEF Orderly, Remembers, Rises, Rules, Active, Ends, Hears, Has
  <2> QED BY <2>3, OrderlyFamily
<1>10. CASE Closes \/ BudgetChanges
  <2>1. UNCHANGED <<status, revived>>
    BY <1>10 DEF Closes, BudgetChanges, rowVars
  <2>2. \A l \in Loops : Ends(l)
    BY <1>1, <1>10, EmitMoves DEF Closes, BudgetChanges, loopVars, Ends
  <2>3. \A a \in Agents : Hears(a)
    BY <1>1, <1>10 DEF Closes, BudgetChanges, Hears, Has, TypeOK, MessageKinds
  <2>4. Orderly
    BY <2>1, <2>2, <2>3, CalmOrderly DEF Remembers
  <2> QED BY <2>4, OrderlyFamily
<1> QED BY <1>2, <1>3, <1>4, <1>5, <1>6, <1>7, <1>8, <1>9, <1>10, OrderlyFamily
        DEF Next, ProcessStep

\* The invariant of parents and sub-agents.
THEOREM FamilySound == ASSUME OneLoop PROVE Spec => []Family
<1>1. Init => Family
  <2> SUFFICES ASSUME Init PROVE Family
    OBVIOUS
  <2>1. \A c \in Agents : ChildSound(c)
    BY DEF Init, ChildSound
  <2>2. \A l \in Loops : EndSound(l)
    BY DEF Init, EndSound
  <2>3. NoActiveChildOfEndedParent
    BY DEF Init, NoActiveChildOfEndedParent
  <2> QED BY <2>1, <2>2, <2>3 DEF Init, Family
<1>2. IInv /\ Solo /\ Family /\ [Next]_vars => Family'
  BY FamilyInductive
<1> QED BY <1>1, <1>2, InvariantHolds, LoopsAndRows, PTL DEF Spec

\* No agent that completed or asks has a sub-agent at work, although its steward
\* is awaited between the look at the children and the row, except for one that the
\* head continued after that look.
THEOREM ParentsEndLast == ASSUME OneLoop PROVE Spec => []NoActiveChildOfEndedParent
<1>1. Family => NoActiveChildOfEndedParent
  BY DEF Family
<1> QED BY <1>1, FamilySound, PTL

\* An agent that is reported as completed has read every result of its sub-agents,
\* unless the head continued one of them after the parent's last look.
THEOREM ParentsHear == ASSUME OneLoop PROVE Spec => []ParentHeardAll
<1>1. Family => ParentHeardAll
  BY OwnerType DEF Family, EndSound, Heard, ParentHeardAll
<1> QED BY <1>1, FamilySound, PTL
=============================================================================
