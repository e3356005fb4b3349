-------------------------- MODULE SchedulesProofs --------------------------
(***************************************************************************)
(* Proofs about Schedules for every set of schedules, every queue length,  *)
(* and every number of edits and crashes.  The argument: ids are never     *)
(* used twice, so a row that is missing names whoever deleted it; and from *)
(* a decision to the delivery a head that asks no steward does not yield.  *)
(***************************************************************************)
EXTENDS Schedules, TLAPS

\* A row that is there is a Row.
LEMMA RowThere ==
  ASSUME TypeOK, NEW s \in Schedules, Exists(s)
  PROVE  rows[s] \in Row
BY DEF TypeOK, Exists

\* What the code writes into a row is one.
LEMMA RowWith ==
  ASSUME NEW row \in Row, NEW b \in BOOLEAN, NEW n \in NextRuns
  PROVE  /\ [row EXCEPT !.enabled = b] \in Row
         /\ [row EXCEPT !.cron = TRUE, !.nextRun = n] \in Row
         /\ [row EXCEPT !.nextRun = n] \in Row
         /\ [row EXCEPT !.ends = b] \in Row
         /\ [row EXCEPT !.ack = b] \in Row
         /\ [row EXCEPT !.ack = FALSE, !.pending = FALSE, !.nextRun = n] \in Row
         /\ [row EXCEPT !.pending = FALSE, !.nextRun = n] \in Row
         /\ [row EXCEPT !.pending = TRUE] \in Row
         /\ [row EXCEPT !.enabled = FALSE, !.nextRun = n] \in Row
BY DEF Row

\* An update brings no row into being and takes none away.
LEMMA WriteKeeps ==
  ASSUME TypeOK, NEW s \in Schedules, NEW row, Exists(s) => row \in Row, Write(s, row)
  PROVE  /\ rows' \in [Schedules -> Row \cup {NoRow}]
         /\ remover' = remover
         /\ \A t \in Schedules : Exists(t)' = Exists(t)
BY NoRowAssumption DEF TypeOK, Write, Exists

\* A deletion says who deleted, unless there was nothing to delete.
LEMMA RemoveKeeps ==
  ASSUME TypeOK, RemoverKnown, NEW s \in Schedules, NEW who \in Removers \ {"nobody"},
         Remove(s, who)
  PROVE  /\ rows' \in [Schedules -> Row \cup {NoRow}]
         /\ remover' \in [Schedules -> Removers]
         /\ RemoverKnown'
         /\ \A t \in Schedules : t # s => remover'[t] = remover[t]
         /\ remover'[s] \in {who, remover[s]}
         /\ remover[s] # "nobody" => remover'[s] = remover[s]
BY DEF TypeOK, Remove, Exists, RemoverKnown

\* Moving nextRun makes nothing look as if it had fired.
LEMMA RearmedKeeps ==
  ASSUME TypeOK, NEW s \in Schedules, Rearmed(s)
  PROVE  /\ fired' \in [Schedules -> BOOLEAN]
         /\ \A t \in Schedules : fired'[t] => fired[t]
BY DEF TypeOK, Rearmed

-----------------------------------------------------------------------------
(* Steps on the rows *)

\* What a step of a user, an agent, the clock or the tick does to the rows: the
\* types are kept, a deletion is a user's,
StoreKept ==
  /\ rows' \in [Schedules -> Row \cup {NoRow}]
  /\ remover' \in [Schedules -> Removers]
  /\ RemoverKnown'
  /\ \A t \in Schedules : remover'[t] \in {remover[t], "nobody", "user", "ack"}
  /\ quiet' \in [Schedules -> BOOLEAN]
  /\ late' \in SUBSET Schedules

\* and nothing looks as if it had fired, unless the tick cannot advance a row.
RowsKept ==
  /\ StoreKept
  /\ fired' \in [Schedules -> BOOLEAN]
  /\ \A t \in Schedules : fired'[t] => fired[t]

\* An update of a row is such a step.
LEMMA WriteRowsKept ==
  ASSUME TypeOK, RemoverKnown, NEW s \in Schedules, NEW row, Exists(s) => row \in Row,
         Write(s, row),
         Rearmed(s) \/ fired' = fired,
         quiet' \in [Schedules -> BOOLEAN], late' \in SUBSET Schedules
  PROVE  RowsKept
<1>1. RemoverKnown'
  BY WriteKeeps DEF RemoverKnown
<1>2. fired' \in [Schedules -> BOOLEAN] /\ \A t \in Schedules : fired'[t] => fired[t]
  BY RearmedKeeps DEF TypeOK
<1> QED BY <1>1, <1>2, WriteKeeps DEF RowsKept, StoreKept, TypeOK

\* So is a deletion by a user.
LEMMA RemoveRowsKept ==
  ASSUME TypeOK, RemoverKnown, NEW s \in Schedules, NEW who \in {"user", "ack"},
         Remove(s, who), UNCHANGED <<fired, quiet, late>>
  PROVE  RowsKept
<1>1. who \in Removers \ {"nobody"}
  BY DEF Removers
<1> QED BY <1>1, RemoveKeeps DEF RowsKept, StoreKept, TypeOK

\* Users and agents keep the rows; nothing else of the head or process changes.
LEMMA UserStepKeeps ==
  ASSUME TypeOK, RemoverKnown, NEW s \in Schedules, UserStep(s)
  PROVE  /\ RowsKept
         /\ UNCHANGED <<headVars, procVars, queueVars, tickVars>>
         /\ edits' \in Nat
         /\ Free
<1> USE DEF untouched
<1>1. CASE Create(s)
  <2>1. PICK cron \in BOOLEAN, ack \in BOOLEAN, ends \in BOOLEAN, n \in NextRuns :
          rows' = [rows EXCEPT ![s] = [cron |-> cron, ack |-> ack, ends |-> ends,
                                       enabled |-> TRUE, nextRun |-> n, pending |-> FALSE]]
    BY <1>1 DEF Create
  <2>2. [cron |-> cron, ack |-> ack, ends |-> ends, enabled |-> TRUE, nextRun |-> n,
         pending |-> FALSE] \in Row
    BY DEF Row
  <2>3. remover' = [remover EXCEPT ![s] = "nobody"] /\ "nobody" \in Removers
    BY <1>1 DEF Create, Removers
  <2>4. rows' \in [Schedules -> Row \cup {NoRow}] /\ remover' \in [Schedules -> Removers]
    BY <2>1, <2>2, <2>3 DEF TypeOK
  <2>5. RemoverKnown'
    BY <2>1, <2>2, <2>3, NoRowAssumption DEF TypeOK, RemoverKnown, Exists
  <2>6. \A t \in Schedules : remover'[t] \in {remover[t], "nobody"}
    BY <2>3 DEF TypeOK
  <2> QED BY <1>1, <2>4, <2>5, <2>6 DEF Create, RowsKept, StoreKept, TypeOK
<1>2. CASE Deletes(s)
  BY <1>2, RemoveRowsKept DEF Deletes, Edit, TypeOK
<1>3. CASE Enables(s)
  <2>1. PICK b \in BOOLEAN : Write(s, [rows[s] EXCEPT !.enabled = b])
    BY <1>3 DEF Enables
  <2>2. [rows[s] EXCEPT !.enabled = b] \in Row
    BY <1>3, RowThere, RowWith DEF Enables, Edit, NextRuns
  <2>3. RowsKept
    BY <1>3, <2>1, <2>2, WriteRowsKept DEF Enables, TypeOK
  <2> QED BY <1>3, <2>3 DEF Enables, Edit, TypeOK
<1>4. CASE SetsCron(s)
  <2>1. [rows[s] EXCEPT !.cron = TRUE, !.nextRun = "future"] \in Row
    BY <1>4, RowThere, RowWith DEF SetsCron, Edit, NextRuns
  <2>2. RowsKept
    BY <1>4, <2>1, WriteRowsKept DEF SetsCron, TypeOK
  <2> QED BY <1>4, <2>2 DEF SetsCron, Edit, TypeOK
<1>5. CASE SetsRunAt(s)
  <2>1. PICK n \in {"future", "due"} : Write(s, [rows[s] EXCEPT !.nextRun = n])
    BY <1>5 DEF SetsRunAt
  <2>2. [rows[s] EXCEPT !.nextRun = n] \in Row
    BY <1>5, RowThere, RowWith DEF SetsRunAt, Edit, NextRuns
  <2>3. RowsKept
    BY <1>5, <2>1, <2>2, WriteRowsKept DEF SetsRunAt, TypeOK
  <2> QED BY <1>5, <2>3 DEF SetsRunAt, Edit, TypeOK
<1>6. CASE SetsEndDate(s)
  <2>1. PICK b \in BOOLEAN : Write(s, [rows[s] EXCEPT !.ends = b])
    BY <1>6 DEF SetsEndDate
  <2>2. [rows[s] EXCEPT !.ends = b] \in Row
    BY <1>6, RowThere, RowWith DEF SetsEndDate, Edit, NextRuns
  <2>3. RowsKept
    BY <1>6, <2>1, <2>2, WriteRowsKept DEF SetsEndDate, TypeOK
  <2> QED BY <1>6, <2>3 DEF SetsEndDate, Edit, TypeOK
<1>7. CASE SetsAck(s)
  <2>1. [rows[s] EXCEPT !.ack = TRUE] \in Row
    BY <1>7, RowThere, RowWith DEF SetsAck, Edit, NextRuns
  <2>2. late' \in SUBSET Schedules
    BY <1>7 DEF SetsAck, TypeOK
  <2>3. RowsKept
    BY <1>7, <2>1, <2>2, WriteRowsKept DEF SetsAck, TypeOK
  <2> QED BY <1>7, <2>3 DEF SetsAck, Edit, TypeOK
<1>8. CASE ClearsAck(s)
  <2>1. rows[s] \in Row
    BY <1>8, RowThere DEF ClearsAck, Edit
  <2>2. PICK row \in Row : Write(s, row)
    <3>1. CASE rows[s].pending
      <4>1. PICK n \in {"future", "never"} :
              Write(s, [rows[s] EXCEPT !.ack = FALSE, !.pending = FALSE, !.nextRun = n])
        BY <1>8, <3>1 DEF ClearsAck
      <4> QED BY <2>1, <4>1, RowWith DEF NextRuns
    <3>2. CASE ~rows[s].pending
      BY <1>8, <2>1, <3>2, RowWith DEF ClearsAck, NextRuns
    <3> QED BY <3>1, <3>2
  <2>3. Rearmed(s) \/ fired' = fired
    BY <1>8 DEF ClearsAck
  <2>4. RowsKept
    BY <1>8, <2>2, <2>3, WriteRowsKept DEF ClearsAck, TypeOK
  <2>5. Edit(s) /\ UNCHANGED untouched
    BY <1>8 DEF ClearsAck
  <2> QED BY <2>4, <2>5 DEF Edit, TypeOK
<1>9. CASE Acknowledges(s)
  <2>1. rows[s] \in Row
    BY <1>9, RowThere DEF Acknowledges
  <2>2. CASE rows[s].cron
    <3>1. [rows[s] EXCEPT !.pending = FALSE, !.nextRun = "future"] \in Row
      BY <2>1, RowWith DEF NextRuns
    <3>2. RowsKept
      BY <1>9, <2>2, <3>1, WriteRowsKept DEF Acknowledges, TypeOK
    <3> QED BY <1>9, <3>2 DEF Acknowledges, TypeOK
  <2>3. CASE ~rows[s].cron
    <3>1. RowsKept
      BY <1>9, <2>3, RemoveRowsKept DEF Acknowledges, TypeOK
    <3> QED BY <1>9, <3>1 DEF Acknowledges, TypeOK
  <2> QED BY <2>2, <2>3
<1> QED BY <1>1, <1>2, <1>3, <1>4, <1>5, <1>6, <1>7, <1>8, <1>9 DEF UserStep

\* The tick writes a row, or none.
LEMMA AdvanceKeeps ==
  ASSUME TypeOK, RemoverKnown, NEW s \in Schedules, Exists(s), Advance(s),
         UNCHANGED <<quiet, late>>
  PROVE  RowsKept
<1>1. rows[s] \in Row
  BY RowThere
<1>2. PICK row \in Row : Write(s, row)
  BY <1>1, RowWith DEF Advance, NextRuns
<1>3. Rearmed(s)
  BY DEF Advance
<1> QED BY <1>2, <1>3, WriteRowsKept DEF TypeOK

\* A trigger more.
LEMMA EnqueueKeeps ==
  ASSUME TypeOK, NEW s \in Schedules, Enqueue(s) \/ queued' = queued
  PROVE  /\ queued' \in [Schedules -> Nat]
         /\ \A t \in Schedules : queued[t] > 0 => queued'[t] > 0
BY DEF TypeOK, Enqueue

\* What one due row leaves of the counts of firings: a firing is followed by an
\* advance, or counted as a break.
LEMMA FiresKeeps ==
  ASSUME TypeOK, FiredIsBreak, NEW s \in Schedules,
         \/ Fires(s) /\ Rearmed(s) /\ breaks' = breaks
         \/ Fires(s) /\ StaysDue(s)
         \/ (Rearmed(s) \/ fired' = fired) /\ UNCHANGED <<repeats, breaks>>
  PROVE  /\ repeats' \in [Schedules -> Nat]
         /\ breaks' \in [Schedules -> Nat]
         /\ fired' \in [Schedules -> BOOLEAN]
         /\ FiredIsBreak'
<1>1. /\ repeats' \in [Schedules -> Nat]
      /\ breaks' \in [Schedules -> Nat]
      /\ fired' \in [Schedules -> BOOLEAN]
  <2>1. CASE Fires(s) /\ Rearmed(s) /\ breaks' = breaks
    BY <2>1 DEF TypeOK, Fires, Rearmed
  <2>2. CASE Fires(s) /\ StaysDue(s)
    BY <2>2 DEF TypeOK, Fires, StaysDue
  <2>3. CASE (Rearmed(s) \/ fired' = fired) /\ UNCHANGED <<repeats, breaks>>
    BY <2>3 DEF TypeOK, Rearmed
  <2> QED BY <2>1, <2>2, <2>3
<1>2. ASSUME NEW t \in Schedules
      PROVE  repeats'[t] + (IF fired'[t] THEN 1 ELSE 0) <= breaks'[t]
  <2>1. repeats[t] + (IF fired[t] THEN 1 ELSE 0) <= breaks[t]
    BY DEF FiredIsBreak
  <2>2. repeats[t] \in Nat /\ breaks[t] \in Nat /\ fired[t] \in BOOLEAN
    BY DEF TypeOK
  <2>3. CASE t # s
    <3>1. repeats'[t] = repeats[t] /\ breaks'[t] = breaks[t] /\ fired'[t] = fired[t]
      BY <2>3 DEF TypeOK, Fires, StaysDue, Rearmed
    <3> QED BY <2>1, <3>1
  <2>4. CASE t = s
    <3>1. CASE Fires(s) /\ Rearmed(s) /\ breaks' = breaks
      BY <2>1, <2>2, <2>4, <3>1 DEF TypeOK, Fires, Rearmed
    <3>2. CASE Fires(s) /\ StaysDue(s)
      BY <2>1, <2>2, <2>4, <3>2 DEF TypeOK, Fires, StaysDue
    <3>3. CASE (Rearmed(s) \/ fired' = fired) /\ UNCHANGED <<repeats, breaks>>
      BY <2>1, <2>2, <2>4, <3>3 DEF TypeOK, Rearmed
    <3> QED BY <3>1, <3>2, <3>3
  <2> QED BY <2>3, <2>4
<1> QED BY <1>1, <1>2 DEF FiredIsBreak

\* A step on the rows while the head is not between a decision and a delivery
\* keeps the invariant.
LEMMA RowsStepInv ==
  ASSUME IInv, StoreKept, Free, UNCHANGED <<headVars, procVars, aside>>,
         queued' \in [Schedules -> Nat], edits' \in Nat, faults' \in Nat,
         repeats' \in [Schedules -> Nat], breaks' \in [Schedules -> Nat],
         fired' \in [Schedules -> BOOLEAN], FiredIsBreak',
         \A t \in Schedules : queued[t] > 0 => queued'[t] > 0
  PROVE  IInv'
<1> USE DEF IInv
<1>1. TypeOK'
  BY DEF TypeOK, StoreKept, headVars, procVars
<1>2. CancelledStaysSilent' /\ OnlyProactiveDecides'
  BY DEF CancelledStaysSilent, OnlyProactiveDecides, Delivering, Free, headVars, procVars
<1>3. RemoverKnown'
  BY DEF StoreKept
<1>4. HandledIsQueued'
  BY DEF HandledIsQueued, headVars
<1>5. AnswerOnItsWay'
  BY DEF AnswerOnItsWay, Delivering, StoreKept, headVars, procVars, TypeOK
<1> QED BY <1>1, <1>2, <1>3, <1>4, <1>5

\* One that fires nothing.
LEMMA QuietRowsStepInv ==
  ASSUME IInv, RowsKept, Free, UNCHANGED <<headVars, procVars, queueVars, tickVars>>,
         edits' \in Nat
  PROVE  IInv'
<1> USE DEF IInv
<1>1. FiredIsBreak'
  <2> SUFFICES ASSUME NEW t \in Schedules
               PROVE  repeats[t] + (IF fired'[t] THEN 1 ELSE 0) <= breaks[t]
    BY DEF FiredIsBreak, tickVars
  <2> QED BY DEF FiredIsBreak, RowsKept, TypeOK
<1> QED BY <1>1, RowsStepInv DEF RowsKept, TypeOK, queueVars, tickVars

LEMMA UserStepInv ==
  ASSUME IInv, NEW s \in Schedules, UserStep(s)
  PROVE  IInv'
BY UserStepKeeps, QuietRowsStepInv DEF IInv

LEMMA TimePassesInv ==
  ASSUME IInv, NEW s \in Schedules, TimePasses(s)
  PROVE  IInv'
<1> USE DEF IInv
<1>1. [rows[s] EXCEPT !.nextRun = "due"] \in Row
  BY RowThere, RowWith DEF TimePasses, NextRuns
<1>2. RowsKept
  BY <1>1, WriteRowsKept DEF TimePasses, untouched, TypeOK
<1>3. Free /\ UNCHANGED <<headVars, procVars, queueVars, tickVars, edits>>
  BY DEF TimePasses, untouched
<1> QED BY <1>2, <1>3, QuietRowsStepInv DEF TypeOK

LEMMA TickInv ==
  ASSUME IInv, NEW s \in Schedules, Tick(s)
  PROVE  IInv'
<1> USE DEF IInv
<1>1. Free /\ UNCHANGED <<headVars, procVars, quiet, late, edits, aside>> /\ Exists(s)
  BY DEF Tick, Due
<1>2. CASE Fires(s) /\ Advance(s) /\ UNCHANGED <<faults, breaks>>
  <2>1. StoreKept
    BY <1>1, <1>2, AdvanceKeeps DEF RowsKept
  <2>2. Rearmed(s)
    BY <1>2 DEF Advance
  <2> QED BY <1>1, <1>2, <2>1, <2>2, FiresKeeps, EnqueueKeeps, RowsStepInv DEF Fires, TypeOK
<1>3. CASE Fault /\ Fires(s) /\ StaysDue(s) /\ UNCHANGED remover
  <2>1. StoreKept
    BY <1>1, <1>3 DEF StoreKept, StaysDue, TypeOK, RemoverKnown, Exists
  <2>2. faults' \in Nat
    BY <1>3 DEF Fault, TypeOK
  <2> QED BY <1>1, <1>3, <2>1, <2>2, FiresKeeps, EnqueueKeeps, RowsStepInv DEF Fires, TypeOK
<1>4. CASE /\ Fault /\ KindOf[s] # "script"
           /\ \/ (rows[s].ack \/ rows[s].cron) /\ Advance(s)
              \/ UNCHANGED <<rows, remover, fired>>
           /\ UNCHANGED <<queued, repeats, breaks>>
  <2>1. StoreKept /\ (Rearmed(s) \/ fired' = fired)
    <3>1. CASE Advance(s)
      BY <1>1, <3>1, AdvanceKeeps DEF RowsKept, Advance
    <3>2. CASE UNCHANGED <<rows, remover, fired>>
      BY <1>1, <3>2 DEF StoreKept, TypeOK, RemoverKnown, Exists
    <3> QED BY <1>4, <3>1, <3>2
  <2>2. faults' \in Nat
    BY <1>4 DEF Fault, TypeOK
  <2> QED BY <1>1, <1>4, <2>1, <2>2, FiresKeeps, EnqueueKeeps, RowsStepInv DEF TypeOK
<1> QED BY <1>2, <1>3, <1>4 DEF Tick

-----------------------------------------------------------------------------
(* Steps of the head *)

\* What the head does to the rows when it handles a trigger of s.
HandlerKept(s) ==
  /\ rows' \in [Schedules -> Row \cup {NoRow}]
  /\ remover' \in [Schedules -> Removers]
  /\ RemoverKnown'
  /\ \A t \in Schedules : t # s => remover'[t] = remover[t]
  /\ remover'[s] \in {"handler", remover[s]}
  /\ remover[s] # "nobody" => remover'[s] = remover[s]

\* Nothing, or a deletion.
LEMMA RemoveHandlerKept ==
  ASSUME TypeOK, RemoverKnown, NEW s \in Schedules,
         Remove(s, "handler") \/ UNCHANGED <<rows, remover>>
  PROVE  HandlerKept(s)
<1>1. "handler" \in Removers \ {"nobody"}
  BY DEF Removers
<1>2. CASE UNCHANGED <<rows, remover>>
  BY <1>2 DEF HandlerKept, TypeOK, RemoverKnown, Exists
<1>3. CASE Remove(s, "handler")
  BY <1>1, <1>3, RemoveKeeps DEF HandlerKept
<1> QED BY <1>2, <1>3

\* What is written before a delivery, whatever the row was read to be.
LEMMA SettleHandlerKept ==
  ASSUME TypeOK, RemoverKnown, NEW s \in Schedules, NEW row, Settle(s, row)
  PROVE  HandlerKept(s)
<1>1. CASE row.ack
  <2>1. Exists(s) => [rows[s] EXCEPT !.pending = TRUE] \in Row
    BY RowThere, RowWith DEF NextRuns
  <2>2. Write(s, [rows[s] EXCEPT !.pending = TRUE])
    BY <1>1 DEF Settle
  <2> QED BY <2>1, <2>2, WriteKeeps DEF HandlerKept, TypeOK, RemoverKnown
<1>2. CASE ~row.ack
  BY <1>2, RemoveHandlerKept DEF Settle
<1> QED BY <1>1, <1>2

\* A step of the head that goes on with s, to a delivery or with an answer where
\* one is promised.
HandlerStep(s, where) ==
  /\ HandlerKept(s)
  /\ Goto(s, where)
  /\ (at = "none" /\ queued[s] > 0) \/ (at # "none" /\ handled = s)
  /\ read' \in Row \cup {NoRow}
  /\ answered' = answered \/ answered' = answered \cup {s}
  /\ UNCHANGED headRest
  /\ where = "deciding" => /\ proactive
                           /\ KindOf[s] = "reminder" => read' # NoRow /\ ~read'.ack
  /\ where = "spawning" => KindOf[s] = "task"
  /\ where = "deliver" => proactive \/ remover'[s] \notin {"user", "ack"}
  /\ KindOf[s] = "reminder" /\ remover'[s] = "handler"
       => \/ s \in answered'
          \/ where = "deliver"
          \/ remover[s] = "handler" /\ at # "deliver"

\* It keeps the invariant.
LEMMA HandlerStepInv ==
  ASSUME IInv, NEW s \in Schedules, NEW where \in Places \ {"none"}, HandlerStep(s, where)
  PROVE  IInv'
<1> USE DEF IInv, HandlerStep
<1>1. /\ UNCHANGED <<procVars, queued, aside, faults, repeats, breaks, edits, fired, quiet, late>>
      /\ at' = where /\ handled' = s /\ held' \in BOOLEAN
  BY DEF headRest, queueVars, tickVars, Goto
<1>2. TypeOK'
  BY <1>1 DEF TypeOK, HandlerKept, procVars
<1>3. CancelledStaysSilent' /\ FiredIsBreak' /\ OnlyProactiveDecides'
  BY <1>1 DEF CancelledStaysSilent, Delivering, FiredIsBreak, OnlyProactiveDecides, procVars
<1>4. HandledIsQueued'
  BY <1>1 DEF HandledIsQueued, Goto
<1>5. AnswerOnItsWay'
  <2> SUFFICES ASSUME NEW t \in Schedules \ broken, KindOf[t] = "reminder",
                      remover'[t] = "handler"
               PROVE  t \in answered' \/ Delivering(t)'
    BY <1>1 DEF AnswerOnItsWay, procVars
  <2>1. CASE t = s
    BY <1>1, <2>1 DEF AnswerOnItsWay, Delivering
  <2>2. CASE t # s
    BY <1>1, <2>2 DEF AnswerOnItsWay, Delivering, HandlerKept
  <2> QED BY <2>1, <2>2
<1> QED BY <1>2, <1>3, <1>4, <1>5 DEF HandlerKept

\* The head has taken a trigger, or waits for the steward with it.
LEMMA HeadStepInv ==
  ASSUME IInv, NEW s \in Schedules, HeadStep(s)
  PROVE  IInv'
<1> USE DEF IInv
<1>1. {"deciding", "spawning", "deliver", "finish"} \subseteq Places \ {"none"}
  BY DEF Places
<1>2. remover[s] \in {"user", "ack"} => ~Exists(s)
  BY DEF RemoverKnown
<1>3. ASSUME Took(s) PROVE at = "none" /\ queued[s] > 0
  BY <1>3 DEF Took
<1>4. ASSUME NEW kind, Deciding(s, kind)
      PROVE  at = "deciding" /\ handled = s /\ proactive /\ KindOf[s] = kind
  BY <1>4 DEF Deciding, OnlyProactiveDecides
<1>5. CASE ReminderWithoutRow(s)
  <2>1. HandlerKept(s)
    BY <1>5, RemoveHandlerKept DEF ReminderWithoutRow
  <2>2. Goto(s, "finish") /\ Took(s) /\ UNCHANGED <<rows, remover, read, answered, headRest>>
    BY <1>5 DEF ReminderWithoutRow
  <2>9. HandlerStep(s, "finish")
    BY <1>3, <2>1, <2>2 DEF HandlerStep, AnswerOnItsWay, Delivering, TypeOK
  <2> QED BY <1>1, <2>9, HandlerStepInv
<1>6. CASE ReminderUnreachable(s)
  <2>1. HandlerKept(s)
    BY <1>6, RemoveHandlerKept DEF ReminderUnreachable
  <2>2. Goto(s, "finish") /\ Took(s) /\ answered' = answered \cup {s} /\ UNCHANGED <<read, headRest>>
    BY <1>6 DEF ReminderUnreachable, Answer
  <2>9. HandlerStep(s, "finish")
    BY <1>3, <2>1, <2>2 DEF HandlerStep, AnswerOnItsWay, Delivering, TypeOK
  <2> QED BY <1>1, <2>9, HandlerStepInv
<1>7. CASE ReminderFires(s)
  <2>1. HandlerKept(s)
    BY <1>7, SettleHandlerKept DEF ReminderFires
  <2>2. Goto(s, "deliver") /\ Took(s) /\ Exists(s) /\ UNCHANGED <<read, answered, headRest>>
    BY <1>7 DEF ReminderFires
  <2>3. remover'[s] \notin {"user", "ack"}
    BY <1>2, <2>1, <2>2 DEF HandlerKept
  <2>9. HandlerStep(s, "deliver")
    BY <1>3, <2>1, <2>2, <2>3 DEF HandlerStep, AnswerOnItsWay, Delivering, TypeOK
  <2> QED BY <1>1, <2>9, HandlerStepInv
<1>8. CASE Asks(s)
  <2>1. HandlerKept(s)
    BY <1>8, RemoveHandlerKept DEF Asks
  <2>2. /\ Goto(s, "deciding") /\ Took(s) /\ proactive /\ read' = rows[s]
        /\ UNCHANGED <<rows, remover, answered, headRest>>
    BY <1>8 DEF Asks
  <2>3. read' \in Row \cup {NoRow}
    BY <2>2 DEF TypeOK
  <2>4. KindOf[s] = "reminder" => read' # NoRow /\ ~read'.ack
    BY <1>8, <2>2 DEF Asks, Exists
  <2>9. HandlerStep(s, "deciding")
    BY <1>3, <2>1, <2>2, <2>3, <2>4 DEF HandlerStep, AnswerOnItsWay, Delivering
  <2> QED BY <1>1, <2>9, HandlerStepInv
<1>9. CASE ReminderSkipped(s)
  <2>1. HandlerKept(s)
    BY <1>9, RemoveHandlerKept DEF ReminderSkipped
  <2>2. /\ Goto(s, "finish") /\ Deciding(s, "reminder")
        /\ answered' = answered \cup {s} /\ read' = NoRow /\ UNCHANGED headRest
    BY <1>9 DEF ReminderSkipped, Answer
  <2>9. HandlerStep(s, "finish")
    BY <1>4, <2>1, <2>2 DEF HandlerStep, AnswerOnItsWay, Delivering
  <2> QED BY <1>1, <2>9, HandlerStepInv
<1>10. CASE ReminderApproved(s)
  <2>1. HandlerKept(s)
    BY <1>10, SettleHandlerKept DEF ReminderApproved
  <2>2. /\ Goto(s, "deliver") /\ Deciding(s, "reminder")
        /\ read' = NoRow /\ UNCHANGED <<answered, headRest>>
    BY <1>10 DEF ReminderApproved
  <2>9. HandlerStep(s, "deliver")
    BY <1>4, <2>1, <2>2 DEF HandlerStep, AnswerOnItsWay, Delivering
  <2> QED BY <1>1, <2>9, HandlerStepInv
<1>11. CASE TaskMissing(s)
  <2>1. HandlerKept(s)
    BY <1>11, RemoveHandlerKept DEF TaskMissing
  <2>2. /\ Goto(s, "finish") /\ Took(s) /\ KindOf[s] = "task"
        /\ UNCHANGED <<read, answered, headRest>>
    BY <1>11 DEF TaskMissing
  <2>9. HandlerStep(s, "finish")
    BY <1>3, <2>1, <2>2 DEF HandlerStep, AnswerOnItsWay, Delivering, TypeOK
  <2> QED BY <1>1, <2>9, HandlerStepInv
<1>12. CASE TaskSkipped(s)
  <2>1. HandlerKept(s)
    BY <1>12, RemoveHandlerKept DEF TaskSkipped
  <2>2. /\ Goto(s, "finish") /\ KindOf[s] = "task" /\ (Took(s) \/ Deciding(s, "task"))
        /\ read' = NoRow /\ UNCHANGED <<answered, headRest>>
    BY <1>12 DEF TaskSkipped, Deciding
  <2>9. HandlerStep(s, "finish")
    BY <1>3, <1>4, <2>1, <2>2 DEF HandlerStep, AnswerOnItsWay, Delivering
  <2> QED BY <1>1, <2>9, HandlerStepInv
<1>13. CASE TaskFires(s) \/ TaskApproved(s)
  <2>1. PICK row : Launches(s, row)
    BY <1>13 DEF TaskFires, TaskApproved
  <2>2. HandlerKept(s)
    BY <2>1, RemoveHandlerKept DEF Launches
  <2>3. (Took(s) \/ Deciding(s, "task")) /\ KindOf[s] = "task"
    BY <1>13 DEF TaskFires, TaskApproved, Deciding
  <2>4. Goto(s, "spawning") /\ read' = NoRow /\ UNCHANGED <<answered, headRest>>
    BY <2>1 DEF Launches
  <2>9. HandlerStep(s, "spawning")
    BY <1>3, <1>4, <2>2, <2>3, <2>4 DEF HandlerStep, AnswerOnItsWay, Delivering
  <2> QED BY <1>1, <2>9, HandlerStepInv
<1>14. CASE Spawns(s)
  <2>1. HandlerKept(s)
    BY <1>14, RemoveHandlerKept DEF Spawns
  <2>2. at = "spawning" /\ handled = s /\ KindOf[s] = "task"
    BY <1>14 DEF Spawns, HandledIsQueued
  <2>3. Goto(s, "finish") /\ UNCHANGED <<read, answered, headRest>>
    BY <1>14 DEF Spawns
  <2>9. HandlerStep(s, "finish")
    BY <2>1, <2>2, <2>3 DEF HandlerStep, AnswerOnItsWay, Delivering, TypeOK
  <2> QED BY <1>1, <2>9, HandlerStepInv
<1>15. CASE Delivers(s)
  <2>1. HandlerKept(s)
    BY <1>15, RemoveHandlerKept DEF Delivers
  <2>2. at = "deliver" /\ handled = s
    BY <1>15 DEF Delivers
  <2>3. Goto(s, "finish") /\ answered' = answered \cup {s} /\ UNCHANGED <<read, headRest>>
    BY <1>15 DEF Delivers, Answer
  <2>9. HandlerStep(s, "finish")
    BY <2>1, <2>2, <2>3 DEF HandlerStep, AnswerOnItsWay, Delivering, TypeOK
  <2> QED BY <1>1, <2>9, HandlerStepInv
<1>16. CASE ReminderFails(s)
  <2>1. /\ at' = "finish" /\ handled' = s /\ read' = NoRow
        /\ held' \in BOOLEAN /\ (held' => queued[s] > 0)
        /\ UNCHANGED <<rowVars, answered, queueVars, edits, repeats, breaks>>
        /\ UNCHANGED <<proactive, reachable, up, looping, crashes>>
    BY <1>3, <1>16 DEF ReminderFails, Goto, Deciding, HandledIsQueued
  <2>2. /\ faults' \in Nat
        /\ broken' \in SUBSET Schedules /\ broken \subseteq broken'
        /\ \A t \in Schedules : Delivering(t) => t \in broken'
    BY <1>3, <1>16 DEF ReminderFails, Fault, Deciding, Delivering, TypeOK
  <2>3. TypeOK'
    BY <2>1, <2>2 DEF TypeOK, Places, rowVars, queueVars
  <2>4. AnswerOnItsWay'
    BY <2>1, <2>2 DEF AnswerOnItsWay, rowVars
  <2> QED BY <2>1, <2>3, <2>4 DEF CancelledStaysSilent, RemoverKnown, HandledIsQueued,
        OnlyProactiveDecides, FiredIsBreak, Delivering, Exists, rowVars, queueVars
<1>17. CASE Finishes(s)
  <2>1. /\ at = "finish" /\ handled = s /\ (held => queued[s] > 0)
        /\ at' = "none" /\ handled' = NoSchedule /\ held' = FALSE
        /\ queued' = [queued EXCEPT ![s] = IF held THEN @ - 1 ELSE @]
        /\ UNCHANGED <<rowVars, read, answered, procVars, edits, aside, tickVars>>
    BY <1>17 DEF Finishes, Goto, HandledIsQueued
  <2>2. queued' \in [Schedules -> Nat]
    BY <2>1 DEF TypeOK
  <2>3. TypeOK'
    BY <2>1, <2>2 DEF TypeOK, Places, rowVars, procVars, tickVars
  <2> QED BY <2>1, <2>3 DEF CancelledStaysSilent, RemoverKnown, HandledIsQueued,
        OnlyProactiveDecides, FiredIsBreak, AnswerOnItsWay, Delivering, Exists, rowVars, procVars,
        tickVars
<1> QED BY <1>5, <1>6, <1>7, <1>8, <1>9, <1>10, <1>11, <1>12, <1>13, <1>14, <1>15, <1>16, <1>17
       DEF HeadStep

-----------------------------------------------------------------------------
(* Steps of the process *)

\* The trigger in hand returns to the queue with the next start; a reminder that was
\* about to be delivered is lost.
LEMMA DiesInv ==
  ASSUME IInv, Dies, rows' = rows, queued' \in [Schedules -> Nat],
         fired' \in [Schedules -> BOOLEAN], repeats' \in [Schedules -> Nat],
         breaks' \in [Schedules -> Nat], FiredIsBreak'
  PROVE  IInv'
<1> USE DEF IInv
<1>1. /\ at' = "none" /\ handled' = NoSchedule /\ read' = NoRow /\ up' = FALSE
      /\ held' = FALSE /\ looping' = FALSE /\ crashes' \in Nat
      /\ UNCHANGED <<answered, edits, remover, proactive, reachable, quiet, late, aside, faults>>
  <2>1. /\ at' = "none" /\ handled' = NoSchedule
        /\ held' = ("none" # "none" /\ (at = "none" \/ held))
    BY DEF Dies, Goto
  <2>2. held' = FALSE
    BY <2>1
  <2>3. crashes' = crashes + 1 /\ crashes \in Nat
    BY DEF Dies, TypeOK
  <2> QED BY <2>1, <2>2, <2>3 DEF Dies
<1>2. broken' = broken \cup (IF at = "deliver" THEN {handled} ELSE {}) /\ broken' \in SUBSET Schedules
  BY DEF Dies, HandledIsQueued, TypeOK
<1>3. TypeOK'
  BY <1>1, <1>2 DEF TypeOK, Places
<1>4. CancelledStaysSilent' /\ HandledIsQueued' /\ OnlyProactiveDecides'
  BY <1>1 DEF CancelledStaysSilent, HandledIsQueued, OnlyProactiveDecides, Delivering
<1>5. RemoverKnown'
  BY <1>1 DEF RemoverKnown, Exists
<1>6. AnswerOnItsWay'
  BY <1>1, <1>2 DEF AnswerOnItsWay, Delivering
<1> QED BY <1>3, <1>4, <1>5, <1>6

LEMMA ProcessStepInv ==
  ASSUME IInv,
         \/ Coalesces \/ Resets \/ Stops \/ Crash \/ Boots \/ ChannelChanges
         \/ \E s \in Schedules : CrashInTick(s)
  PROVE  IInv'
<1> USE DEF IInv
<1>1. CASE Crash
  BY <1>1, DiesInv DEF Crash, TypeOK, FiredIsBreak
<1>2. ASSUME NEW s \in Schedules, CrashInTick(s) PROVE IInv'
  <2>1. Dies /\ Fires(s) /\ StaysDue(s)
    BY <1>2 DEF CrashInTick
  <2>2. rows' = rows /\ Enqueue(s)
    BY <2>1 DEF Fires, StaysDue
  <2> QED BY <2>1, <2>2, DiesInv, EnqueueKeeps, FiresKeeps
<1>3. CASE Boots \/ ChannelChanges \/ Stops
  <2>1. /\ UNCHANGED <<rowVars, headVars, tickVars, edits, proactive, crashes, broken>>
        /\ up' \in BOOLEAN /\ reachable' \in BOOLEAN /\ looping' \in BOOLEAN
    BY <1>3 DEF Boots, ChannelChanges, Stops, TypeOK
  <2>2. /\ queued' \in [Schedules -> Nat] /\ aside' \in [Schedules -> Nat]
        /\ \A s \in Schedules : queued'[s] >= queued[s]
    BY <1>3 DEF Boots, ChannelChanges, Stops, queueVars, TypeOK
  <2>3. TypeOK'
    BY <2>1, <2>2 DEF TypeOK, rowVars, headVars, tickVars
  <2>4. HandledIsQueued'
    BY <2>1, <2>2 DEF HandledIsQueued, headVars, TypeOK
  <2> QED BY <2>1, <2>3, <2>4 DEF CancelledStaysSilent, RemoverKnown, OnlyProactiveDecides,
        FiredIsBreak, AnswerOnItsWay, Delivering, Exists, rowVars, headVars, tickVars
<1>4. CASE Coalesces \/ Resets
  <2>1. /\ UNCHANGED <<rowVars, at, handled, read, answered, procVars, tickVars, edits>>
        /\ held' \in BOOLEAN /\ (at = "none" \/ ~held')
    BY <1>4 DEF Coalesces, Resets, headVars, TypeOK
  <2>2. queued' \in [Schedules -> Nat] /\ aside' \in [Schedules -> Nat]
    BY <1>4 DEF Coalesces, Resets, TypeOK
  <2>3. TypeOK'
    BY <2>1, <2>2 DEF TypeOK, rowVars, procVars, tickVars
  <2> QED BY <2>1, <2>3 DEF CancelledStaysSilent, RemoverKnown, HandledIsQueued,
        OnlyProactiveDecides, FiredIsBreak, AnswerOnItsWay, Delivering, Exists, rowVars,
        procVars, tickVars
<1> QED BY <1>1, <1>2, <1>3, <1>4

-----------------------------------------------------------------------------
(* The theorems *)

LEMMA InitInv == Init => IInv
<1> SUFFICES ASSUME Init PROVE IInv OBVIOUS
<1>1. "none" \in Places /\ "unborn" \in Removers
  BY DEF Places, Removers
<1>2. TypeOK
  BY <1>1 DEF Init, TypeOK
<1>3. CancelledStaysSilent /\ HandledIsQueued /\ OnlyProactiveDecides
  BY DEF Init, CancelledStaysSilent, HandledIsQueued, OnlyProactiveDecides, Delivering
<1>4. RemoverKnown /\ FiredIsBreak /\ AnswerOnItsWay
  BY DEF Init, RemoverKnown, FiredIsBreak, AnswerOnItsWay, Exists
<1> QED BY <1>2, <1>3, <1>4 DEF IInv

LEMMA StepInv == IInv /\ [Next]_vars => IInv'
<1> SUFFICES ASSUME IInv, [Next]_vars PROVE IInv' OBVIOUS
<1>1. CASE UNCHANGED vars
  <2>1. TypeOK'
    BY <1>1 DEF IInv, TypeOK, vars, rowVars, headVars, procVars, queueVars, tickVars
  <2> QED BY <1>1, <2>1 DEF IInv, CancelledStaysSilent, RemoverKnown, HandledIsQueued,
        OnlyProactiveDecides, FiredIsBreak, AnswerOnItsWay, Delivering, Exists,
        vars, rowVars, headVars, procVars, queueVars, tickVars
<1>2. CASE Next
  BY <1>2, UserStepInv, HeadStepInv, TimePassesInv, TickInv, ProcessStepInv DEF Next
<1> QED BY <1>1, <1>2

\* The invariant of all runs of the schedules.
THEOREM InvariantHolds == Spec => []IInv
<1> QED BY InitInv, StepInv, PTL DEF Spec

\* Every variable keeps its type, whatever users write into the rows.
THEOREM TypeCorrect == Spec => []TypeOK
<1>1. IInv => TypeOK
  BY DEF IInv
<1> QED BY <1>1, InvariantHolds, PTL

\* A head that asks no steward delivers no reminder that was cancelled or
\* acknowledged away, however many of its triggers were still queued.
THEOREM CancelledSilent == Spec => []CancelledStaysSilent
<1>1. IInv => CancelledStaysSilent
  BY DEF IInv
<1> QED BY <1>1, InvariantHolds, PTL

\* A time of a row is fired once, and once more only for each time that the row
\* could not be advanced, by a crash inside the tick or a write that failed.
THEOREM TimesFireOnce == Spec => []FiresOnce
<1>1. IInv => FiresOnce
  <2> SUFFICES ASSUME IInv, NEW s \in Schedules PROVE repeats[s] <= breaks[s]
    BY DEF FiresOnce
  <2>1. repeats[s] + (IF fired[s] THEN 1 ELSE 0) <= breaks[s]
    BY DEF IInv, FiredIsBreak
  <2> QED BY <2>1 DEF IInv, TypeOK
<1> QED BY <1>1, InvariantHolds, PTL

\* No one-time reminder disappears unanswered, but for
\* the one that was about to be delivered at a crash.
THEOREM OneTimeReminderAnswered == Spec => []OneTimeAnswered
<1>1. IInv => OneTimeAnswered
  BY DEF IInv, AnswerOnItsWay, OneTimeAnswered, Delivering
<1> QED BY <1>1, InvariantHolds, PTL

\* What a row must not be for the handler to delete it
Kept(s) == rows[s].cron \/ (KindOf[s] = "reminder" /\ rows[s].ack)

\* The columns that decide are those that were read.
Unedited(s) == at = "deciding" => rows[s].cron = read.cron /\ rows[s].ack = read.ack

\* What the head deletes may be deleted, if it was not edited while the steward was
\* asked.
LEMMA HeadDeletes ==
  ASSUME IInv, NEW t \in Schedules, HeadStep(t),
         NEW s \in Schedules, remover[s] = "nobody", remover'[s] = "handler", Unedited(s)
  PROVE  ~Kept(s)
<1> USE DEF IInv, Kept, Unedited
<1>1. ASSUME UNCHANGED <<rows, remover>> PROVE FALSE
  BY <1>1
<1>2. ASSUME NEW row, Remove(t, "handler") \/ Settle(t, row)
      PROVE  s = t
  <2>1. HandlerKept(t)
    BY <1>2, RemoveHandlerKept, SettleHandlerKept
  <2> QED BY <2>1 DEF HandlerKept
<1>3. ASSUME NEW row, Settle(t, row) PROVE ~row.ack /\ OneTime(row)
  BY <1>1, <1>3 DEF Settle, Write
<1>4. CASE ReminderUnreachable(t)
  BY <1>1, <1>2, <1>4 DEF ReminderUnreachable, OneTime
<1>5. CASE ReminderFires(t)
  <2>1. Settle(t, rows[t])
    BY <1>5 DEF ReminderFires
  <2> QED BY <1>2, <1>3, <2>1 DEF OneTime
<1>6. CASE TaskFires(t)
  <2>1. Launches(t, rows[t]) /\ KindOf[t] = "task"
    BY <1>6 DEF TaskFires
  <2> QED BY <1>1, <1>2, <2>1 DEF Launches, OneTime
<1>7. CASE ReminderWithoutRow(t) \/ Asks(t) \/ TaskMissing(t) \/ TaskSkipped(t)
           \/ Spawns(t) \/ Delivers(t) \/ ReminderFails(t) \/ Finishes(t)
  BY <1>1, <1>7 DEF ReminderWithoutRow, Asks, TaskMissing, TaskSkipped, Spawns, Delivers,
       ReminderFails, Finishes, rowVars
<1>8. CASE ReminderSkipped(t)
  <2>1. OneTime(read) /\ Remove(t, "handler") /\ at = "deciding" /\ handled = t
        /\ KindOf[t] = "reminder"
    BY <1>1, <1>8 DEF ReminderSkipped, Deciding
  <2>2. ~read.ack /\ s = t
    BY <1>2, <2>1 DEF OnlyProactiveDecides
  <2> QED BY <2>1, <2>2 DEF OneTime
<1>9. CASE ReminderApproved(t)
  <2>1. Settle(t, read) /\ at = "deciding"
    BY <1>9 DEF ReminderApproved, Deciding
  <2> QED BY <1>2, <1>3, <2>1 DEF OneTime
<1>10. CASE TaskApproved(t)
  <2>1. Launches(t, read) /\ KindOf[t] = "task" /\ at = "deciding"
    BY <1>10 DEF TaskApproved, Deciding
  <2> QED BY <1>1, <1>2, <2>1 DEF Launches, OneTime
<1> QED BY <1>4, <1>5, <1>6, <1>7, <1>8, <1>9, <1>10 DEF HeadStep

\* Firing deletes no repeating row and no reminder that waits to be acknowledged,
\* unless it was made such a one while the steward was asked.
THEOREM KeptUntilActed == Spec => KeptUntilUserActs
<1>1. ASSUME IInv, [Next]_vars
      PROVE  [\A s \in Schedules :
                /\ remover[s] = "nobody" /\ remover'[s] = "handler"
                /\ at = "deciding" => rows[s].cron = read.cron /\ rows[s].ack = read.ack
                => ~rows[s].cron /\ (KindOf[s] = "reminder" => ~rows[s].ack)]_vars
  <2> SUFFICES ASSUME Next, NEW s \in Schedules,
                      remover[s] = "nobody", remover'[s] = "handler", Unedited(s)
               PROVE  ~Kept(s)
    BY <1>1 DEF Unedited, Kept
  <2>1. ASSUME NEW t \in Schedules, HeadStep(t)
        PROVE  ~Kept(s)
    BY <1>1, <2>1, HeadDeletes
  <2>2. ASSUME NEW t \in Schedules, UserStep(t) \/ TimePasses(t) \/ Tick(t)
        PROVE  FALSE
    <3>1. remover'[s] \in {remover[s], "nobody", "user", "ack"}
      <4>1. CASE UserStep(t)
        BY <1>1, <4>1, UserStepKeeps DEF IInv, RowsKept, StoreKept
      <4>2. CASE TimePasses(t) \/ Tick(t)
        BY <4>2 DEF TimePasses, Tick, Advance, Write
      <4> QED BY <2>2, <4>1, <4>2
    <3> QED BY <3>1
  <2>3. ASSUME \/ Coalesces \/ Resets \/ Stops \/ Crash \/ Boots \/ ChannelChanges
               \/ \E t \in Schedules : CrashInTick(t)
        PROVE  FALSE
    BY <2>3 DEF Coalesces, Resets, Stops, Crash, Boots, ChannelChanges, CrashInTick, Dies, rowVars
  <2> QED BY <2>1, <2>2, <2>3 DEF Next
<1> QED BY <1>1, InvariantHolds, PTL DEF Spec, KeptUntilUserActs

\* An acknowledged row is not due.
QuietRows ==
  \A s \in Schedules :
    quiet[s] => remover[s] # "unborn" /\ (Exists(s) => rows[s].nextRun # "due")

\* An update keeps it unless it makes a quiet row due.
LEMMA WriteQuiet ==
  ASSUME TypeOK, QuietRows, NEW s \in Schedules, NEW row, Write(s, row),
         quiet'[s] /\ Exists(s) => remover[s] # "unborn" /\ row.nextRun # "due",
         \A t \in Schedules : quiet'[t] => quiet[t] \/ (t = s /\ Exists(s))
  PROVE  QuietRows'
<1>1. /\ remover' = remover
      /\ \A t \in Schedules : t # s => rows'[t] = rows[t]
      /\ rows'[s] = IF Exists(s) THEN row ELSE NoRow
  BY DEF Write, TypeOK
<1> QED BY <1>1 DEF QuietRows, Exists

\* A deletion keeps it.
LEMMA RemoveQuiet ==
  ASSUME TypeOK, QuietRows, NEW s \in Schedules, NEW who \in Removers \ {"unborn"},
         Remove(s, who), quiet' = quiet
  PROVE  QuietRows'
<1>1. /\ rows'[s] = NoRow
      /\ remover'[s] \in {who, remover[s]}
      /\ \A t \in Schedules : t # s => rows'[t] = rows[t] /\ remover'[t] = remover[t]
  BY DEF Remove, TypeOK
<1> QED BY <1>1 DEF QuietRows, Exists

\* Users make a quiet row due only by moving its time, which ends the quiet.
LEMMA UserStepQuiet ==
  ASSUME IInv, QuietRows, NEW s \in Schedules, UserStep(s)
  PROVE  QuietRows'
<1> USE DEF IInv
<1>1. Exists(s) => rows[s] \in Row /\ remover[s] # "unborn"
  BY RowThere DEF RemoverKnown, Exists
<1>2. CASE Create(s)
  <2>1. \A t \in Schedules : t # s => rows'[t] = rows[t] /\ remover'[t] = remover[t]
    BY <1>2 DEF Create, TypeOK
  <2>2. quiet' = quiet /\ ~quiet[s]
    BY <1>2 DEF Create, QuietRows
  <2> QED BY <2>1, <2>2 DEF QuietRows, Exists
<1>3. CASE Deletes(s)
  BY <1>3, RemoveQuiet DEF Deletes, Removers
<1>4. CASE Acknowledges(s)
  <2>1. CASE rows[s].cron
    <3>1. /\ Write(s, [rows[s] EXCEPT !.pending = FALSE, !.nextRun = "future"])
          /\ Exists(s) /\ quiet' = [quiet EXCEPT ![s] = TRUE]
      BY <1>4, <2>1 DEF Acknowledges
    <3>2. [rows[s] EXCEPT !.pending = FALSE, !.nextRun = "future"].nextRun # "due"
      BY <1>1, <3>1 DEF Row
    <3>3. \A t \in Schedules : quiet'[t] => quiet[t] \/ t = s
      BY <3>1 DEF TypeOK
    <3> QED BY <1>1, <3>1, <3>2, <3>3, WriteQuiet
  <2>2. CASE ~rows[s].cron
    BY <1>4, <2>2, RemoveQuiet DEF Acknowledges, Removers
  <2> QED BY <2>1, <2>2
<1>5. CASE SetsRunAt(s)
  <2>1. PICK n \in {"future", "due"} : Write(s, [rows[s] EXCEPT !.nextRun = n])
    BY <1>5 DEF SetsRunAt
  <2>2. ~quiet'[s] /\ \A t \in Schedules : quiet'[t] => quiet[t]
    BY <1>5 DEF SetsRunAt, TypeOK
  <2> QED BY <2>1, <2>2, WriteQuiet
<1>6. ASSUME NEW row, Write(s, row), quiet' = quiet,
             Exists(s) => row.nextRun \in {"future", "never", rows[s].nextRun}
      PROVE  QuietRows'
  BY <1>1, <1>6, WriteQuiet DEF QuietRows
<1>7. CASE SetsCron(s) \/ Enables(s) \/ SetsEndDate(s) \/ SetsAck(s) \/ ClearsAck(s)
  <2>1. quiet' = quiet /\ Exists(s)
    BY <1>7 DEF SetsCron, Enables, SetsEndDate, SetsAck, ClearsAck, Edit
  <2> DEFINE Fine(row) == row.nextRun \in {"future", "never", rows[s].nextRun}
  <2>2. \E row : Write(s, row) /\ Fine(row)
    <3>1. ASSUME NEW b \in BOOLEAN, NEW n \in {"future", "never"}
          PROVE  /\ Fine([rows[s] EXCEPT !.cron = TRUE, !.nextRun = "future"])
                 /\ Fine([rows[s] EXCEPT !.enabled = b])
                 /\ Fine([rows[s] EXCEPT !.ends = b])
                 /\ Fine([rows[s] EXCEPT !.ack = TRUE])
                 /\ Fine([rows[s] EXCEPT !.ack = FALSE])
                 /\ Fine([rows[s] EXCEPT !.ack = FALSE, !.pending = FALSE, !.nextRun = n])
      BY <1>1, <2>1 DEF Row
    <3> HIDE DEF Fine
    <3>2. CASE SetsCron(s)
      BY <3>1, <3>2 DEF SetsCron
    <3>3. CASE Enables(s)
      BY <3>1, <3>3 DEF Enables
    <3>4. CASE SetsEndDate(s)
      BY <3>1, <3>4 DEF SetsEndDate
    <3>5. CASE SetsAck(s)
      BY <3>1, <3>5 DEF SetsAck
    <3>6. CASE ClearsAck(s)
      BY <3>1, <3>6 DEF ClearsAck
    <3> QED BY <1>7, <3>2, <3>3, <3>4, <3>5, <3>6
  <2> QED BY <1>6, <2>1, <2>2
<1> QED BY <1>2, <1>3, <1>4, <1>5, <1>7 DEF UserStep

\* The head moves no time.
LEMMA HeadStepQuiet ==
  ASSUME IInv, QuietRows, NEW s \in Schedules, HeadStep(s)
  PROVE  QuietRows'
<1> USE DEF IInv
<1>1. CASE UNCHANGED <<rows, remover, quiet>>
  BY <1>1 DEF QuietRows, Exists
<1>2. CASE Remove(s, "handler") /\ quiet' = quiet
  BY <1>2, RemoveQuiet DEF Removers
<1>3. ASSUME NEW row, Settle(s, row), quiet' = quiet
      PROVE  QuietRows'
  <2>1. CASE Write(s, [rows[s] EXCEPT !.pending = TRUE])
    <3>1. Exists(s) => /\ [rows[s] EXCEPT !.pending = TRUE].nextRun = rows[s].nextRun
                       /\ remover[s] # "unborn"
      BY RowThere DEF Row, RemoverKnown, Exists
    <3> QED BY <1>3, <2>1, <3>1, WriteQuiet DEF QuietRows
  <2> QED BY <1>1, <1>2, <1>3, <2>1 DEF Settle
<1>4. quiet' = quiet
  BY DEF HeadStep, headRest, ReminderWithoutRow, ReminderUnreachable, ReminderFires, Asks,
       ReminderSkipped, ReminderApproved, TaskMissing, TaskSkipped, TaskFires, TaskApproved,
       Launches, Spawns, Delivers, ReminderFails, Finishes, rowVars
<1>5. CASE ReminderFires(s) \/ ReminderApproved(s)
  BY <1>3, <1>4, <1>5 DEF ReminderFires, ReminderApproved
<1>6. CASE ReminderWithoutRow(s) \/ ReminderUnreachable(s) \/ Asks(s) \/ ReminderSkipped(s)
           \/ TaskMissing(s) \/ TaskSkipped(s) \/ Spawns(s) \/ Delivers(s)
           \/ ReminderFails(s) \/ Finishes(s)
  BY <1>1, <1>2, <1>4, <1>6
  DEF ReminderWithoutRow, ReminderUnreachable, Asks, ReminderSkipped, TaskMissing,
      TaskSkipped, Spawns, Delivers, ReminderFails, Finishes, rowVars
<1>7. CASE TaskFires(s) \/ TaskApproved(s)
  BY <1>1, <1>2, <1>4, <1>7 DEF TaskFires, TaskApproved, Launches
<1> QED BY <1>5, <1>6, <1>7 DEF HeadStep

LEMMA QuietStep ==
  ASSUME IInv, QuietRows, [Next]_vars
  PROVE  QuietRows'
<1> USE DEF IInv
<1>1. ASSUME NEW s \in Schedules, TimePasses(s)
      PROVE  QuietRows'
  <2>1. /\ Write(s, [rows[s] EXCEPT !.nextRun = "due"])
        /\ ~quiet'[s] /\ \A t \in Schedules : quiet'[t] => quiet[t]
    BY <1>1 DEF TimePasses, TypeOK
  <2> QED BY <2>1, WriteQuiet
<1>2. ASSUME NEW s \in Schedules, Tick(s)
      PROVE  QuietRows'
  <2>1. Exists(s) /\ rows[s] \in Row /\ quiet' = quiet /\ remover[s] # "unborn"
    BY <1>2, RowThere DEF Tick, Due, RemoverKnown, Exists
  <2>2. CASE \E row : Write(s, row) /\ row.nextRun # "due"
    BY <2>1, <2>2, WriteQuiet
  <2>3. CASE UNCHANGED <<rows, remover>>
    BY <2>1, <2>3 DEF QuietRows, Exists
  <2>4. ASSUME Advance(s) PROVE \E row : Write(s, row) /\ row.nextRun # "due"
    <3>1. /\ [rows[s] EXCEPT !.nextRun = "future"].nextRun # "due"
          /\ [rows[s] EXCEPT !.enabled = FALSE, !.nextRun = "never"].nextRun # "due"
      BY <2>1 DEF Row
    <3> QED BY <2>4, <3>1 DEF Advance
  <2> QED BY <1>2, <2>2, <2>3, <2>4 DEF Tick, StaysDue
<1>3. CASE \/ Coalesces \/ Resets \/ Stops \/ Crash \/ Boots \/ ChannelChanges \/ UNCHANGED vars
           \/ \E s \in Schedules : CrashInTick(s)
  <2>1. UNCHANGED <<rows, remover, quiet>>
    BY <1>3 DEF Coalesces, Resets, Stops, Crash, Boots, ChannelChanges, CrashInTick, StaysDue,
         Dies, vars, rowVars
  <2> QED BY <2>1 DEF QuietRows, Exists
<1> QED BY <1>1, <1>2, <1>3, UserStepQuiet, HeadStepQuiet DEF Next

\* Between an acknowledgement and the next cron time nothing is enqueued, whatever
\* users do to the row, but for moving its time.
THEOREM AckedSilent == Spec => AckedEnqueuesNothing
<1>1. Init => QuietRows
  BY DEF Init, QuietRows
<1>2. IInv /\ QuietRows /\ [Next]_vars => QuietRows'
  BY QuietStep
<1>3. ASSUME IInv, QuietRows, [Next]_vars
      PROVE  [\A s \in Schedules :
                quiet[s] /\ quiet'[s] => queued'[s] + aside'[s] <= queued[s] + aside[s]]_vars
  <2> SUFFICES ASSUME Next, NEW s \in Schedules, quiet[s]
               PROVE  queued'[s] + aside'[s] <= queued[s] + aside[s]
    BY <1>3
  <2>1. ~Due(s)
    BY <1>3 DEF QuietRows, Due
  <2>2. queued \in [Schedules -> Nat] /\ aside \in [Schedules -> Nat]
    BY <1>3 DEF IInv, TypeOK
  <2>3. ASSUME NEW t \in Schedules, Tick(t) \/ CrashInTick(t)
        PROVE  queued'[s] = queued[s] /\ aside' = aside
    <3>1. t # s /\ (Enqueue(t) \/ queued' = queued) /\ aside' = aside
      BY <2>1, <2>3 DEF Tick, CrashInTick, Fires, Dies
    <3> QED BY <2>2, <3>1 DEF Enqueue
  <2>4. ASSUME NEW t \in Schedules, Finishes(t)
        PROVE  queued'[s] <= queued[s] /\ aside' = aside
    BY <2>2, <2>4 DEF Finishes
  <2>5. ASSUME NEW t \in Schedules, HeadStep(t), ~Finishes(t)
        PROVE  queued' = queued /\ aside' = aside
    BY <2>5 DEF HeadStep, headRest, queueVars, ReminderWithoutRow, ReminderUnreachable,
         ReminderFires, Asks, ReminderSkipped, ReminderApproved, TaskMissing, TaskSkipped,
         TaskFires, TaskApproved, Launches, Spawns, Delivers, ReminderFails
  <2>6. ASSUME NEW t \in Schedules, UserStep(t) \/ TimePasses(t)
        PROVE  queued' = queued /\ aside' = aside
    BY <2>6 DEF UserStep, TimePasses, untouched, queueVars, Create, Deletes, Enables, SetsCron,
         SetsRunAt, SetsEndDate, SetsAck, ClearsAck, Acknowledges
  <2>7. CASE Coalesces \/ Resets \/ Stops \/ Crash \/ Boots \/ ChannelChanges
    BY <2>2, <2>7 DEF Coalesces, Resets, Stops, Crash, Dies, Boots, ChannelChanges, queueVars
  <2>8. queued'[s] \in Nat /\ aside'[s] \in Nat
    <3>1. IInv'
      BY <1>3, StepInv
    <3> QED BY <3>1 DEF IInv, TypeOK
  <2> QED BY <2>2, <2>3, <2>4, <2>5, <2>6, <2>7, <2>8 DEF Next
<1> QED BY <1>1, <1>2, <1>3, InvariantHolds, PTL DEF Spec, AckedEnqueuesNothing
=============================================================================
