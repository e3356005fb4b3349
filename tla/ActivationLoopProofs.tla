------------------------ MODULE ActivationLoopProofs ------------------------
(***************************************************************************)
(* Proofs about ActivationLoop for every set of heads and every number of  *)
(* events.  The argument is one idea: queue_events is updated by id with   *)
(* no test of the old status, so everything rests on a loop updating only  *)
(* rows it has in hand, or rows its own query found pending.               *)
(***************************************************************************)
EXTENDS ActivationLoop, TLAPS

USE DEF Rows, NoRow

-----------------------------------------------------------------------------
(* The table operations *)

\* An UPDATE by id changes only the rows it names, and no missing row.
LEMMA SetStatusFacts ==
  ASSUME status \in [Rows -> Lifecycle], NEW S, NEW v \in Lifecycle,
         status' = SetStatus(S, v)
  PROVE  /\ status' \in [Rows -> Lifecycle]
         /\ \A r \in Rows : r \notin S => status'[r] = status[r]
         /\ \A r \in Rows : status[r] \in {"none", "gone"} => status'[r] = status[r]
         /\ \A r \in Rows : r \in S /\ status[r] \notin {"none", "gone"} => status'[r] = v
BY DEF SetStatus

\* Appending keeps the counters in range.
LEMMA AppendType ==
  ASSUME seen \in [Rows -> 0 .. SeenCap], MaxCrashes \in Nat, NEW S, Append(S)
  PROVE  seen' \in [Rows -> 0 .. SeenCap]
BY DEF Append, SeenCap

\* Rows in hand are rows.
LEMMA InHandRows ==
  ASSUME TypeOK, NEW h \in Heads
  PROVE  InHand(h) \subseteq Rows
BY DEF TypeOK, InHand

\* If a step changes the status only of rows that head h has in hand or that
\* were pending, and leaves the other heads' hands and the rows' heads alone,
\* then what the other heads have in hand stays theirs and in processing.
LEMMA OthersKeepTheirs ==
  ASSUME IInv, NEW h \in Heads, NEW S, NEW v \in Lifecycle,
         status' = SetStatus(S, v),
         \A r \in S \cap Rows : r \in InHand(h) \/ status[r] = "pending",
         NEW g \in Heads, g # h, NEW r \in InHand(g)
  PROVE  headOf[r] = g /\ status'[r] \in {"processing", "gone"}
<1>1. r \in Rows /\ headOf[r] = g /\ status[r] \in {"processing", "gone"}
  BY InHandRows DEF IInv, HeldByOwner
<1>2. r \notin InHand(h)
  BY <1>1 DEF IInv, HeldByOwner
<1>3. r \notin S
  BY <1>1, <1>2
<1>4. status'[r] = status[r]
  BY <1>1, <1>3 DEF SetStatus
<1> QED BY <1>1, <1>4

-----------------------------------------------------------------------------
(* The invariant holds at the start *)

LEMMA InitInv == Init => IInv
<1> SUFFICES ASSUME Init PROVE IInv OBVIOUS
<1> USE ConstantsAssumption
<1>1. TypeOK
  <2>1. First \in Stages
    BY DEF First, Stages, AfterOutage
  <2>2. 0 \in 0 .. SeenCap
    BY DEF SeenCap
  <2>3. rows \in 0 .. MaxRows /\ crashes \in 0 .. MaxCrashes
    BY DEF Init
  <2>4. kind \in [Rows -> Kinds] /\ headOf \in [Rows -> Heads]
    BY DEF Init, Kinds
  <2> QED BY <2>1, <2>2, <2>3, <2>4 DEF Init, TypeOK, Lifecycle, PCs
<1>2. HeldByOwner
  BY DEF Init, HeldByOwner, InHand
<1>3. BusyHasPrimary /\ RowsInOrder
  BY DEF Init, BusyHasPrimary, RowsInOrder
<1> QED BY <1>1, <1>2, <1>3 DEF IInv

-----------------------------------------------------------------------------
(* Every step keeps the types *)

\* A statement that updates rows keeps the column's type.
LEMMA SetStatusType ==
  ASSUME TypeOK, NEW S, NEW v \in Lifecycle, status' = SetStatus(S, v)
  PROVE  status' \in [Rows -> Lifecycle]
BY DEF SetStatus, TypeOK

\* The next attempt is one of the attempts.
LEMMA FollowingType ==
  ASSUME NEW s \in Stages, NEW err \in Errors
  PROVE  Following(s, err) \in Stages
BY ConstantsAssumption DEF Following, Stages, First, AfterRateLimit, AfterOutage

\* Every event has a place where its handling starts.
LEMMA EntryType ==
  ASSUME TypeOK, NEW r \in Rows
  PROVE  Entry(r) \in PCs \ {"idle", "blocked", "apology"}
<1>1. kind[r] \in Kinds
  BY DEF TypeOK
<1> QED BY <1>1 DEF Entry, PCs, Kinds, Background, Injectable

\* handleEvent() keeps the types of what it writes before its first await.
LEMMA BeginType ==
  ASSUME TypeOK, NEW h \in Heads, NEW r \in Rows, NEW claimed, Begin(h, r, claimed)
  PROVE  /\ status' \in [Rows -> Lifecycle]
         /\ held' \in [Heads -> SUBSET Rows]
         /\ seen' \in [Rows -> 0 .. SeenCap]
         /\ appended' \in [Heads -> SUBSET Rows]
         /\ pc' \in [Heads -> PCs]
         /\ pc'[h] \notin {"idle", "blocked", "apology"}
<1>1. "processing" \in Lifecycle
  BY DEF Lifecycle
<1>2. status' \in [Rows -> Lifecycle]
  BY <1>1, SetStatusType DEF Begin
<1>3. held' \in [Heads -> SUBSET Rows]
  BY DEF Begin, TypeOK, Coalesced, PendingBackground, Pending
<1>4. seen' \in [Rows -> 0 .. SeenCap]
  <2>1. \E S : Append(S)
    BY DEF Begin
  <2> QED BY <2>1, AppendType, ConstantsAssumption DEF TypeOK
<1>5. appended' \in [Heads -> SUBSET Rows]
  BY DEF Begin, TypeOK
<1>6. pc' \in [Heads -> PCs] /\ pc'[h] \notin {"idle", "blocked", "apology"}
  BY EntryType DEF Begin, Goto, TypeOK
<1> QED BY <1>2, <1>3, <1>4, <1>5, <1>6

\* Throwing keeps the types of what it writes.
LEMMA ThrowType ==
  ASSUME TypeOK, NEW h \in Heads, NEW err \in Errors, Throw(h, err)
  PROVE  /\ status' \in [Rows -> Lifecycle]
         /\ held' \in [Heads -> SUBSET Rows]
         /\ primary' \in [Heads -> Rows \cup {NoRow}]
         /\ stage' \in [Heads -> Stages]
         /\ pc' \in [Heads -> PCs]
<1>1. held' \in [Heads -> SUBSET Rows]
  BY DEF Throw, TypeOK
<1>2. stage[h] \in Stages /\ Following(stage[h], err) \in Stages /\ First \in Stages
  BY FollowingType, ConstantsAssumption DEF TypeOK, Stages, First, AfterOutage
<1>3. CASE Following(stage[h], err) = First
  <2>1. status' = SetStatus({primary[h]}, "failed")
    BY <1>3 DEF Throw
  <2>2. status' \in [Rows -> Lifecycle]
    BY <2>1, SetStatusType DEF Lifecycle
  <2>3. primary' \in [Heads -> Rows \cup {NoRow}]
    BY <1>3 DEF Throw, TypeOK
  <2>4. stage' \in [Heads -> Stages]
    BY <1>2, <1>3 DEF Throw, TypeOK
  <2>5. pc' \in [Heads -> PCs]
    BY <1>3 DEF Throw, Goto, TypeOK, PCs
  <2> QED BY <1>1, <2>2, <2>3, <2>4, <2>5
<1>4. CASE Following(stage[h], err) # First
  <2>1. pc' \in [Heads -> PCs]
    BY <1>4 DEF Throw, Goto, TypeOK, PCs
  <2>2. stage' \in [Heads -> Stages]
    BY <1>2, <1>4 DEF Throw, TypeOK
  <2>3. status' = status /\ primary' = primary
    BY <1>4 DEF Throw
  <2> QED BY <1>1, <2>1, <2>2, <2>3 DEF TypeOK
<1> QED BY <1>3, <1>4

-----------------------------------------------------------------------------
(* Every step keeps the invariant *)

\* What is left to show of the invariant once an action's update of the table
\* is known: the acting head's own hand, its control state, and the types.
LEMMA StatusStep ==
  ASSUME IInv, NEW h \in Heads, TypeOK', UNCHANGED <<rows, headOf>>,
         NEW S, NEW v \in Lifecycle, status' = SetStatus(S, v),
         \A r \in S \cap Rows : r \in InHand(h) \/ status[r] = "pending",
         \A g \in Heads : g # h => held'[g] = held[g] /\ primary'[g] = primary[g] /\ pc'[g] = pc[g],
         pc'[h] \notin {"idle", "blocked", "apology"} => primary'[h] # NoRow,
         primary'[h] \notin held'[h],
         \A r \in InHand(h)' : headOf[r] = h /\ status'[r] \in {"processing", "gone"}
  PROVE  IInv'
<1>1. HeldByOwner'
  <2> SUFFICES ASSUME NEW g \in Heads'
               PROVE  /\ primary'[g] \notin held'[g]
                      /\ \A r \in InHand(g)' : headOf'[r] = g /\ status'[r] \in {"processing", "gone"}
    BY DEF HeldByOwner
  <2>1. CASE g = h
    BY <2>1
  <2>2. CASE g # h
    <3>1. InHand(g)' = InHand(g)
      BY <2>2 DEF InHand
    <3>2. primary'[g] \notin held'[g]
      BY <2>2 DEF IInv, HeldByOwner
    <3>3. \A r \in InHand(g) : headOf[r] = g /\ status'[r] \in {"processing", "gone"}
      BY <2>2, OthersKeepTheirs
    <3> QED BY <3>1, <3>2, <3>3
  <2> QED BY <2>1, <2>2
<1>2. BusyHasPrimary'
  BY DEF BusyHasPrimary, IInv
<1>3. RowsInOrder'
  <2>1. \A r \in Rows : status[r] \in {"none", "gone"} => status'[r] = status[r]
    BY SetStatusFacts DEF IInv, TypeOK
  <2> QED BY <2>1 DEF RowsInOrder, IInv
<1> QED BY <1>1, <1>2, <1>3 DEF IInv

\* The same when the table is not touched.
LEMMA QuietStep ==
  ASSUME IInv, NEW h \in Heads, TypeOK', UNCHANGED <<rows, headOf, status, primary, held>>,
         \A g \in Heads : g # h => pc'[g] = pc[g],
         pc'[h] \notin {"idle", "blocked", "apology"} => primary[h] # NoRow
  PROVE  IInv'
<1>1. HeldByOwner'
  BY DEF IInv, HeldByOwner, InHand
<1>2. BusyHasPrimary' /\ RowsInOrder'
  BY DEF IInv, BusyHasPrimary, RowsInOrder
<1> QED BY <1>1, <1>2 DEF IInv

\* handleEvent() claims only rows of its own head, for a primary that is
\* already in hand (a retry) or is claimed in the same step.
LEMMA BeginHolds ==
  ASSUME IInv, NEW h \in Heads, NEW r \in Rows, NEW claimed,
         Begin(h, r, claimed), TypeOK', UNCHANGED <<rows, headOf>>,
         primary' = [primary EXCEPT ![h] = r],
         \/ claimed = {r} /\ r \in Pending(h)
         \/ claimed = {} /\ primary[h] = r
  PROVE  IInv'
<1> DEFINE S == claimed \cup Coalesced(h, r)
<1>1. status' = SetStatus(S, "processing") /\ "processing" \in Lifecycle
  BY DEF Begin, Lifecycle
<1>2. Coalesced(h, r) \subseteq Pending(h) \ {r}
  BY DEF Coalesced, PendingBackground
<1>3. \A q \in Coalesced(h, r) : headOf[q] = h /\ status[q] = "pending"
  BY <1>2 DEF Pending
<1>4. held'[h] = Coalesced(h, r) /\ primary'[h] = r
  BY DEF Begin, IInv, TypeOK
<1>5. headOf[r] = h /\ status'[r] \in {"processing", "gone"}
  <2>1. CASE claimed = {r} /\ r \in Pending(h)
    <3>1. r \in S /\ headOf[r] = h /\ status[r] = "pending"
      BY <2>1 DEF Pending
    <3> HIDE DEF S
    <3> QED BY <1>1, <3>1 DEF SetStatus
  <2>2. CASE claimed = {} /\ primary[h] = r
    <3>1. headOf[r] = h /\ status[r] \in {"processing", "gone"}
      BY <2>2 DEF IInv, HeldByOwner, InHand
    <3>2. r \notin S
      BY <1>2, <2>2
    <3> HIDE DEF S
    <3> QED BY <1>1, <3>1, <3>2 DEF SetStatus
  <2> QED BY <2>1, <2>2
<1>6. \A q \in Coalesced(h, r) : status'[q] = "processing"
  <2> SUFFICES ASSUME NEW q \in Coalesced(h, r) PROVE status'[q] = "processing"
    OBVIOUS
  <2>1. q \in Rows /\ q \in S /\ status[q] = "pending"
    BY <1>2, <1>3 DEF Pending
  <2> HIDE DEF S
  <2> QED BY <1>1, <2>1 DEF SetStatus
<1>7. \A q \in S \cap Rows : q \in InHand(h) \/ status[q] = "pending"
  BY <1>3 DEF Pending
<1>8. \A g \in Heads : g # h => held'[g] = held[g] /\ primary'[g] = primary[g] /\ pc'[g] = pc[g]
  BY DEF Begin, Goto, IInv, TypeOK
<1>9. primary'[h] # NoRow /\ primary'[h] \notin held'[h]
  BY <1>2, <1>4
<1>10. \A q \in InHand(h)' : headOf[q] = h /\ status'[q] \in {"processing", "gone"}
  BY <1>3, <1>4, <1>5, <1>6 DEF InHand
<1> QED BY <1>1, <1>7, <1>8, <1>9, <1>10, StatusStep

LEMMA ClaimInv == ASSUME IInv, NEW h \in Heads, Claim(h) PROVE IInv'
<1>1. PICK r \in Rows : /\ IsNext(h, r)
                       /\ primary' = [primary EXCEPT ![h] = r]
                       /\ led' = led \cup {r}
                       /\ Begin(h, r, {r})
  BY DEF Claim
<1>2. r \in Pending(h) /\ UNCHANGED <<rows, kind, headOf, ran, muted, process, running, stage>>
  BY <1>1 DEF IsNext, Claim, table
<1>3. TypeOK'
  <2>1. TypeOK
    BY DEF IInv
  <2>2. /\ status' \in [Rows -> Lifecycle] /\ held' \in [Heads -> SUBSET Rows]
        /\ seen' \in [Rows -> 0 .. SeenCap] /\ appended' \in [Heads -> SUBSET Rows]
        /\ pc' \in [Heads -> PCs]
    BY <1>1, <2>1, BeginType
  <2>3. primary' \in [Heads -> Rows \cup {NoRow}] /\ led' \subseteq Rows
    BY <1>1, <2>1 DEF TypeOK
  <2> QED BY <1>2, <2>1, <2>2, <2>3 DEF TypeOK, process
<1> QED BY <1>1, <1>2, <1>3, BeginHolds

LEMMA RetryInv == ASSUME IInv, NEW h \in Heads, Retry(h) PROVE IInv'
<1>1. TypeOK /\ pc[h] = "backoff" /\ Begin(h, primary[h], {})
  BY DEF Retry, IInv
<1>2. primary[h] \in Rows
  BY <1>1 DEF IInv, BusyHasPrimary, TypeOK
<1>3. UNCHANGED <<rows, kind, headOf, ran, muted, led, process, running, primary, stage>>
  BY DEF Retry, table
<1>4. TypeOK'
  <2>1. /\ status' \in [Rows -> Lifecycle] /\ held' \in [Heads -> SUBSET Rows]
        /\ seen' \in [Rows -> 0 .. SeenCap] /\ appended' \in [Heads -> SUBSET Rows]
        /\ pc' \in [Heads -> PCs]
    BY <1>1, <1>2, BeginType
  <2> QED BY <1>1, <1>3, <2>1 DEF TypeOK, process
<1>5. primary' = [primary EXCEPT ![h] = primary[h]]
  BY <1>1, <1>3 DEF TypeOK
<1> QED BY <1>1, <1>2, <1>3, <1>4, <1>5, BeginHolds

\* The steps between two awaits that leave the table alone.
LEMMA QuietInv ==
  ASSUME IInv, NEW h \in Heads,
         \/ ClaimBlocked(h) \/ StopBlocked(h)
         \/ Answer(h) \/ BatchRerun(h) \/ Apologise(h)
  PROVE  IInv'
<1> USE DEF table, ledger, process
<1>1. TypeOK
  BY DEF IInv
<1>2. CASE ClaimBlocked(h)
  <2>1. TypeOK' BY <1>1, <1>2 DEF ClaimBlocked, Goto, TypeOK, PCs
  <2> QED BY <1>1, <1>2, <2>1, QuietStep DEF ClaimBlocked, Goto, TypeOK
<1>3. CASE StopBlocked(h)
  <2>1. TypeOK' BY <1>1, <1>3 DEF StopBlocked, Goto, TypeOK, PCs
  <2> QED BY <1>1, <1>3, <2>1, QuietStep DEF StopBlocked, Goto, TypeOK
<1>4. CASE Answer(h)
  <2>1. primary[h] # NoRow
    BY <1>4 DEF Answer, IInv, BusyHasPrimary
  <2>2. TypeOK' BY <1>1, <1>4 DEF Answer, Goto, TypeOK, PCs
  <2> QED BY <1>1, <1>4, <2>1, <2>2, QuietStep DEF Answer, Goto, TypeOK
<1>5. CASE BatchRerun(h)
  <2>1. primary[h] # NoRow
    BY <1>5 DEF BatchRerun, IInv, BusyHasPrimary
  <2>2. TypeOK' BY <1>1, <1>5 DEF BatchRerun, Goto, TypeOK, PCs
  <2> QED BY <1>1, <1>5, <2>1, <2>2, QuietStep DEF BatchRerun, Goto, TypeOK
<1>6. CASE Apologise(h)
  <2>1. TypeOK' BY <1>1, <1>6 DEF Apologise, Goto, TypeOK, PCs
  <2> QED BY <1>1, <1>6, <2>1, QuietStep DEF Apologise, Goto, TypeOK
<1> QED BY <1>2, <1>3, <1>4, <1>4, <1>5, <1>6

\* A step that settles rows in hand and lets go of them.
LEMMA SettleStep ==
  ASSUME IInv, NEW h \in Heads, TypeOK', UNCHANGED <<rows, headOf>>,
         NEW S, NEW v \in Lifecycle, status' = SetStatus(S, v),
         S \cap Rows \subseteq InHand(h), InHand(h)' \subseteq InHand(h) \ S,
         \A g \in Heads : g # h => held'[g] = held[g] /\ primary'[g] = primary[g] /\ pc'[g] = pc[g],
         pc'[h] \notin {"idle", "blocked", "apology"} => primary'[h] # NoRow,
         primary'[h] \notin held'[h]
  PROVE  IInv'
<1>1. \A r \in InHand(h)' : headOf[r] = h /\ status'[r] \in {"processing", "gone"}
  <2> SUFFICES ASSUME NEW r \in InHand(h)'
               PROVE  headOf[r] = h /\ status'[r] \in {"processing", "gone"}
    OBVIOUS
  <2>1. r \in InHand(h) /\ r \notin S
    OBVIOUS
  <2>2. r \in Rows /\ headOf[r] = h /\ status[r] \in {"processing", "gone"}
    BY <2>1, InHandRows DEF IInv, HeldByOwner
  <2> QED BY <2>1, <2>2 DEF SetStatus
<1> QED BY <1>1, StatusStep

LEMMA SuppressInv == ASSUME IInv, NEW h \in Heads, Suppress(h) PROVE IInv'
<1> USE DEF table, process
<1>1. TypeOK /\ primary[h] # NoRow /\ primary[h] \notin held[h]
  BY DEF IInv, BusyHasPrimary, HeldByOwner, Suppress
<1>2. PICK S \in Verdicts(h) : /\ muted' = muted \cup S
                             /\ status' = SetStatus(held[h] \cap S, "done")
  BY DEF Suppress
<1>3. S \subseteq Rows
  BY <1>1, InHandRows DEF Verdicts
<1>4. "done" \in Lifecycle
  BY DEF Lifecycle
<1>5. TypeOK'
  <2>1. status' \in [Rows -> Lifecycle]
    BY <1>1, <1>2, <1>4, SetStatusType
  <2> QED BY <1>1, <1>2, <1>3, <2>1 DEF Suppress, Goto, TypeOK, PCs
<1>6. InHand(h) = held[h] \cup {primary[h]} /\ InHand(h)' = {primary[h]}
  BY <1>1 DEF Suppress, InHand, TypeOK
<1>7. (held[h] \cap S) \cap Rows \subseteq InHand(h) /\ InHand(h)' \subseteq InHand(h) \ (held[h] \cap S)
  BY <1>1, <1>6
<1>8. \A g \in Heads : g # h => held'[g] = held[g] /\ primary'[g] = primary[g] /\ pc'[g] = pc[g]
  BY <1>1 DEF Suppress, Goto, TypeOK
<1>9. primary'[h] # NoRow /\ primary'[h] \notin held'[h]
  BY <1>1 DEF Suppress, TypeOK
<1>10. UNCHANGED <<rows, headOf>>
  BY DEF Suppress
<1> QED BY <1>2, <1>4, <1>5, <1>7, <1>8, <1>9, <1>10, SettleStep

LEMMA InjectInv == ASSUME IInv, NEW h \in Heads, Inject(h) PROVE IInv'
<1> USE DEF table, process
<1>1. TypeOK /\ primary[h] # NoRow /\ primary[h] \notin held[h]
  BY DEF IInv, BusyHasPrimary, HeldByOwner, Inject
<1>2. PICK S \in Verdicts(h) :
        /\ muted' = muted \cup S
        /\ Append({r \in InHand(h) \ S : kind[r] \in Injectable})
  BY DEF Inject
<1>3. S \subseteq Rows
  BY <1>1, InHandRows DEF Verdicts
<1>4. status' = SetStatus(held[h], "done") /\ "done" \in Lifecycle
  BY DEF Inject, Lifecycle
<1>5. TypeOK'
  <2>1. status' \in [Rows -> Lifecycle]
    BY <1>1, <1>4, SetStatusType
  <2>2. seen' \in [Rows -> 0 .. SeenCap]
    BY <1>1, <1>2, AppendType, ConstantsAssumption DEF TypeOK
  <2> QED BY <1>1, <1>2, <1>3, <2>1, <2>2 DEF Inject, Goto, TypeOK, PCs
<1>6. InHand(h) = held[h] \cup {primary[h]} /\ InHand(h)' = {primary[h]}
  BY <1>1 DEF Inject, InHand, TypeOK
<1>7. (held[h]) \cap Rows \subseteq InHand(h) /\ InHand(h)' \subseteq InHand(h) \ (held[h])
  BY <1>1, <1>6
<1>8. \A g \in Heads : g # h => held'[g] = held[g] /\ primary'[g] = primary[g] /\ pc'[g] = pc[g]
  BY <1>1 DEF Inject, Goto, TypeOK
<1>9. primary'[h] # NoRow /\ primary'[h] \notin held'[h]
  BY <1>1 DEF Inject, TypeOK
<1>10. UNCHANGED <<rows, headOf>>
  BY DEF Inject
<1> QED BY <1>4, <1>5, <1>7, <1>8, <1>9, <1>10, SettleStep

LEMMA BatchClaimInv == ASSUME IInv, NEW h \in Heads, BatchClaim(h) PROVE IInv'
<1> USE DEF table, ledger, process
<1>1. TypeOK /\ primary[h] # NoRow
  BY DEF IInv, BusyHasPrimary, BatchClaim
<1>2. \A r \in PendingUser(h) : r \in Rows /\ headOf[r] = h /\ status[r] = "pending"
  BY DEF PendingUser, Pending
<1>3. status' = SetStatus(PendingUser(h), "processing") /\ "processing" \in Lifecycle
  BY DEF BatchClaim, Lifecycle
<1>4. TypeOK'
  <2>1. status' \in [Rows -> Lifecycle]
    BY <1>1, <1>3, SetStatusType
  <2> QED BY <1>1, <1>2, <2>1 DEF BatchClaim, Goto, TypeOK, PCs
<1>5. InHand(h) = {primary[h]} /\ InHand(h)' = PendingUser(h) \cup {primary[h]}
  BY <1>1 DEF BatchClaim, InHand, TypeOK
<1>6. headOf[primary[h]] = h /\ status[primary[h]] \in {"processing", "gone"} /\ primary[h] \in Rows
  BY <1>1, <1>5, InHandRows DEF IInv, HeldByOwner
<1>7. \A r \in InHand(h)' : headOf[r] = h /\ status'[r] \in {"processing", "gone"}
  BY <1>2, <1>3, <1>5, <1>6 DEF SetStatus
<1>8. held'[h] = PendingUser(h) /\ primary'[h] = primary[h]
  BY <1>1 DEF BatchClaim, TypeOK
<1>9. \A g \in Heads : g # h => held'[g] = held[g] /\ primary'[g] = primary[g] /\ pc'[g] = pc[g]
  BY <1>1 DEF BatchClaim, Goto, TypeOK
<1>10. primary'[h] \notin held'[h] /\ primary'[h] # NoRow
  BY <1>1, <1>2, <1>6, <1>8
<1>11. \A r \in PendingUser(h) \cap Rows : r \in InHand(h) \/ status[r] = "pending"
  BY <1>2
<1>12. UNCHANGED <<rows, headOf>>
  BY DEF BatchClaim
<1> HIDE DEF table, ledger, process
<1> QED BY <1>3, <1>4, <1>7, <1>9, <1>10, <1>11, <1>12, StatusStep

LEMMA BatchAppendInv == ASSUME IInv, NEW h \in Heads, BatchAppend(h) PROVE IInv'
<1> USE DEF table, process
<1>1. TypeOK
  BY DEF IInv
<1>2. PICK r \in held[h] : /\ InBatch(h, r)
                          /\ Append({r})
                          /\ status' = SetStatus({r}, "done")
                          /\ held' = [held EXCEPT ![h] = @ \ {r}]
  BY DEF BatchAppend
<1>3. r \in Rows /\ pc[h] \in {"batch", "rebatch"} /\ primary[h] # NoRow /\ primary[h] \notin held[h]
  BY <1>1, <1>2 DEF InBatch, TypeOK, IInv, BusyHasPrimary, HeldByOwner
<1>4. "done" \in Lifecycle
  BY DEF Lifecycle
<1>5. TypeOK'
  <2>1. status' \in [Rows -> Lifecycle]
    BY <1>1, <1>2, <1>4, SetStatusType
  <2>2. seen' \in [Rows -> 0 .. SeenCap]
    BY <1>1, <1>2, AppendType, ConstantsAssumption DEF TypeOK
  <2> QED BY <1>1, <1>2, <1>3, <2>1, <2>2 DEF BatchAppend, Goto, TypeOK, PCs
<1>6. /\ InHand(h) = held[h] \cup {primary[h]}
      /\ InHand(h)' = (held[h] \ {r}) \cup {primary[h]}
  BY <1>1, <1>2, <1>3 DEF BatchAppend, InHand, TypeOK
<1>7. {r} \cap Rows \subseteq InHand(h) /\ InHand(h)' \subseteq InHand(h) \ {r}
  BY <1>2, <1>3, <1>6
<1>8. \A g \in Heads : g # h => held'[g] = held[g] /\ primary'[g] = primary[g] /\ pc'[g] = pc[g]
  BY <1>1, <1>2 DEF BatchAppend, Goto, TypeOK
<1>9. primary'[h] # NoRow /\ primary'[h] \notin held'[h]
  BY <1>1, <1>2, <1>3 DEF BatchAppend, TypeOK
<1>10. UNCHANGED <<rows, headOf>>
  BY DEF BatchAppend
<1> QED BY <1>2, <1>4, <1>5, <1>7, <1>8, <1>9, <1>10, SettleStep

LEMMA BatchCommandInv == ASSUME IInv, NEW h \in Heads, BatchCommand(h) PROVE IInv'
<1> USE DEF table, process
<1>1. TypeOK
  BY DEF IInv
<1>2. PICK r \in held[h] : /\ InBatch(h, r)
                          /\ ran' = ran \cup {r}
                          /\ status' = SetStatus({r}, "done")
                          /\ held' = [held EXCEPT ![h] = @ \ {r}]
  BY DEF BatchCommand
<1>3. r \in Rows /\ pc[h] \in {"batch", "rebatch"} /\ primary[h] # NoRow /\ primary[h] \notin held[h]
  BY <1>1, <1>2 DEF InBatch, TypeOK, IInv, BusyHasPrimary, HeldByOwner
<1>4. "done" \in Lifecycle
  BY DEF Lifecycle
<1>5. TypeOK'
  <2>1. status' \in [Rows -> Lifecycle]
    BY <1>1, <1>2, <1>4, SetStatusType
  <2> QED BY <1>1, <1>2, <1>3, <2>1 DEF BatchCommand, Goto, TypeOK, PCs
<1>6. /\ InHand(h) = held[h] \cup {primary[h]}
      /\ InHand(h)' = (held[h] \ {r}) \cup {primary[h]}
  BY <1>1, <1>2, <1>3 DEF BatchCommand, InHand, TypeOK
<1>7. {r} \cap Rows \subseteq InHand(h) /\ InHand(h)' \subseteq InHand(h) \ {r}
  BY <1>2, <1>3, <1>6
<1>8. \A g \in Heads : g # h => held'[g] = held[g] /\ primary'[g] = primary[g] /\ pc'[g] = pc[g]
  BY <1>1, <1>2 DEF BatchCommand, Goto, TypeOK
<1>9. primary'[h] # NoRow /\ primary'[h] \notin held'[h]
  BY <1>1, <1>2, <1>3 DEF BatchCommand, TypeOK
<1>10. UNCHANGED <<rows, headOf>>
  BY DEF BatchCommand
<1> QED BY <1>2, <1>4, <1>5, <1>7, <1>8, <1>9, <1>10, SettleStep

LEMMA AckInv == ASSUME IInv, NEW h \in Heads, Ack(h) PROVE IInv'
<1> USE DEF table, ledger, process
<1>1. TypeOK /\ primary[h] \in Rows /\ primary[h] \notin held[h]
  BY DEF IInv, BusyHasPrimary, HeldByOwner, Ack, TypeOK
<1>2. status' = SetStatus({primary[h]}, "done") /\ "done" \in Lifecycle
  BY DEF Ack, Lifecycle
<1>3. TypeOK'
  <2>1. status' \in [Rows -> Lifecycle]
    BY <1>1, <1>2, SetStatusType
  <2>2. First \in Stages
    BY ConstantsAssumption DEF First, Stages, AfterOutage
  <2> QED BY <1>1, <2>1, <2>2 DEF Ack, Goto, TypeOK, PCs
<1>4. InHand(h) = held[h] \cup {primary[h]} /\ InHand(h)' = held[h]
  BY <1>1 DEF Ack, InHand, TypeOK
<1>5. {primary[h]} \cap Rows \subseteq InHand(h) /\ InHand(h)' \subseteq InHand(h) \ {primary[h]}
  BY <1>1, <1>4
<1>6. \A g \in Heads : g # h => held'[g] = held[g] /\ primary'[g] = primary[g] /\ pc'[g] = pc[g]
  BY <1>1 DEF Ack, Goto, TypeOK
<1>7. primary'[h] \notin held'[h] /\ pc'[h] = "idle"
  BY <1>1 DEF Ack, Goto, TypeOK
<1>8. UNCHANGED <<rows, headOf>>
  BY DEF Ack
<1> QED BY <1>2, <1>3, <1>5, <1>6, <1>7, <1>8, SettleStep

\* Failing the primary settles it; a retry keeps it; either way the rest of
\* the hand is dropped.
LEMMA ThrowInv ==
  ASSUME IInv, NEW h \in Heads, NEW err \in Errors, Throw(h, err), primary[h] # NoRow,
         UNCHANGED <<table, ledger, process, running, appended>>
  PROVE  IInv'
<1> USE DEF table, ledger, process
<1>1. TypeOK /\ primary[h] \in Rows
  BY DEF IInv, TypeOK
<1>2. TypeOK'
  BY <1>1, ThrowType DEF TypeOK
<1>3. held'[h] = {}
  BY <1>1 DEF Throw, TypeOK
<1>4. CASE Following(stage[h], err) = First
  <2>1. status' = SetStatus({primary[h]}, "failed") /\ "failed" \in Lifecycle
    BY <1>4 DEF Throw, Lifecycle
  <2>2. primary'[h] = NoRow /\ pc'[h] \in {"apology", "idle"}
    BY <1>1, <1>4 DEF Throw, Goto, TypeOK
  <2>3. {primary[h]} \cap Rows \subseteq InHand(h) /\ InHand(h)' \subseteq InHand(h) \ {primary[h]}
    BY <1>1, <1>3, <2>2 DEF InHand
  <2>4. \A g \in Heads : g # h => held'[g] = held[g] /\ primary'[g] = primary[g] /\ pc'[g] = pc[g]
    BY <1>1, <1>4 DEF Throw, Goto, TypeOK
  <2>5. primary'[h] \notin held'[h] /\ UNCHANGED <<rows, headOf>>
    BY <1>3
  <2> QED BY <1>2, <2>1, <2>2, <2>3, <2>4, <2>5, SettleStep
<1>5. CASE Following(stage[h], err) # First
  <2>1. status' = status /\ primary' = primary
    BY <1>5 DEF Throw
  <2>2. status' = SetStatus({}, "failed") /\ "failed" \in Lifecycle
    BY <1>1, <2>1 DEF SetStatus, TypeOK, Lifecycle
  <2>3. {} \cap Rows \subseteq InHand(h) /\ InHand(h)' \subseteq InHand(h) \ {}
    BY <1>3, <2>1 DEF InHand
  <2>4. \A g \in Heads : g # h => held'[g] = held[g] /\ primary'[g] = primary[g] /\ pc'[g] = pc[g]
    BY <1>1, <1>5, <2>1 DEF Throw, Goto, TypeOK
  <2>5. primary'[h] # NoRow /\ primary'[h] \notin held'[h] /\ UNCHANGED <<rows, headOf>>
    BY <1>3, <2>1
  <2> QED BY <1>2, <2>2, <2>3, <2>4, <2>5, SettleStep
<1> QED BY <1>4, <1>5

LEMMA FailInv ==
  ASSUME IInv, NEW h \in Heads, HandlerFails(h) \/ BatchCommandFails(h)
  PROVE  IInv'
<1>1. PICK err \in Errors : Throw(h, err)
  BY DEF HandlerFails, BatchCommandFails
<1>2. UNCHANGED <<table, ledger, process, running, appended>>
  BY DEF HandlerFails, BatchCommandFails
<1>3. pc[h] \in {"llm", "command", "trigger", "batch", "rebatch"}
  BY DEF HandlerFails, BatchCommandFails, InBatch
<1>4. primary[h] # NoRow
  BY <1>3 DEF IInv, BusyHasPrimary
<1> QED BY <1>1, <1>2, <1>4, ThrowInv

\* An insert adds a row nobody has in hand.
LEMMA InsertInv ==
  ASSUME IInv, NEW g \in Heads, NEW k \in Kinds, Insert(g, k), UNCHANGED <<held, primary>>
  PROVE  /\ rows' \in 0 .. MaxRows
         /\ kind' \in [Rows -> Kinds] /\ headOf' \in [Rows -> Heads]
         /\ status' \in [Rows -> Lifecycle]
         /\ HeldByOwner' /\ RowsInOrder'
<1>1. TypeOK /\ rows + 1 \in Rows /\ rows \in Nat
  BY ConstantsAssumption DEF IInv, TypeOK, Insert
<1>2. rows' \in 0 .. MaxRows /\ kind' \in [Rows -> Kinds] /\ headOf' \in [Rows -> Heads]
  BY <1>1, ConstantsAssumption DEF Insert, TypeOK
<1>3. status' \in [Rows -> Lifecycle]
  BY <1>1 DEF Insert, TypeOK, Lifecycle
<1>4. HeldByOwner'
  <2> SUFFICES ASSUME NEW h \in Heads, NEW r \in InHand(h)
               PROVE  headOf'[r] = h /\ status'[r] \in {"processing", "gone"}
    BY DEF HeldByOwner, InHand, IInv
  <2>1. r \in Rows /\ headOf[r] = h /\ status[r] \in {"processing", "gone"}
    BY InHandRows DEF IInv, HeldByOwner
  <2>2. status[rows + 1] = "none"
    BY <1>1 DEF IInv, RowsInOrder
  <2>3. r # rows + 1
    BY <2>1, <2>2
  <2> QED BY <1>1, <2>1, <2>3 DEF Insert, TypeOK
<1>5. RowsInOrder'
  <2> SUFFICES ASSUME NEW r \in Rows, r > rows' PROVE status'[r] = "none"
    BY DEF RowsInOrder
  <2>1. r > rows /\ r # rows + 1
    BY <1>1 DEF Insert
  <2> QED BY <1>1, <2>1 DEF Insert, IInv, RowsInOrder, TypeOK
<1> QED BY <1>2, <1>3, <1>4, <1>5

\* A step of a loop that at most inserts a row keeps the invariant.
LEMMA InsertStep ==
  ASSUME IInv, TypeOK, NEW h \in Heads, primary[h] # NoRow,
         ran' \subseteq Rows, UNCHANGED <<seen, muted, led>>,
         UNCHANGED <<process, running, primary, held, stage, appended>>,
         NEW l \in PCs, Goto(h, l),
         NEW g \in Heads, NEW k \in Kinds,
         UNCHANGED <<table, status>> \/ Insert(g, k)
  PROVE  IInv'
<1>1. CASE UNCHANGED <<table, status>>
  <2>1. TypeOK' BY <1>1 DEF Goto, TypeOK, table, process
  <2> QED BY <1>1, <2>1, QuietStep DEF Goto, TypeOK, table
<1>2. CASE Insert(g, k)
  <2>1. /\ rows' \in 0 .. MaxRows
        /\ kind' \in [Rows -> Kinds] /\ headOf' \in [Rows -> Heads]
        /\ status' \in [Rows -> Lifecycle]
        /\ HeldByOwner' /\ RowsInOrder'
    BY <1>2, InsertInv
  <2>2. TypeOK'
    BY <2>1 DEF Goto, TypeOK, process
  <2>3. BusyHasPrimary'
    BY DEF Goto, TypeOK, IInv, BusyHasPrimary
  <2> QED BY <2>1, <2>2, <2>3 DEF IInv
<1> QED BY <1>1, <1>2

LEMMA DeliverInv == ASSUME IInv, NEW h \in Heads, Deliver(h) PROVE IInv'
<1>1. TypeOK /\ primary[h] # NoRow
  BY DEF IInv, BusyHasPrimary, Deliver
<1>2. DefaultHead \in Heads /\ "user_message" \in Kinds /\ "ack" \in PCs
  BY ConstantsAssumption DEF Kinds, PCs
<1>3. ran' \subseteq Rows /\ UNCHANGED <<seen, muted, led>>
  BY <1>1 DEF Deliver, ledger, TypeOK
<1> QED BY <1>1, <1>2, <1>3, InsertStep DEF Deliver

LEMMA HandlerDoneInv == ASSUME IInv, NEW h \in Heads, HandlerDone(h) PROVE IInv'
<1>1. TypeOK /\ primary[h] # NoRow
  BY DEF IInv, BusyHasPrimary, HandlerDone
<1>2. "user_message" \in Kinds /\ "ack" \in PCs
  BY DEF Kinds, PCs
<1>3. ran' \subseteq Rows /\ UNCHANGED <<seen, muted, led>>
  BY <1>1 DEF HandlerDone, TypeOK
<1> QED BY <1>1, <1>2, <1>3, InsertStep DEF HandlerDone

LEMMA EnqueueInv == ASSUME IInv, NEW h \in Heads, NEW k \in Inputs, Enqueue(h, k) PROVE IInv'
<1>1. k \in Kinds /\ UNCHANGED <<held, primary>> /\ Insert(h, k)
  BY ConstantsAssumption DEF Enqueue, memory
<1>2. /\ rows' \in 0 .. MaxRows
      /\ kind' \in [Rows -> Kinds] /\ headOf' \in [Rows -> Heads]
      /\ status' \in [Rows -> Lifecycle]
      /\ HeldByOwner' /\ RowsInOrder'
  BY <1>1, InsertInv
<1>3. TypeOK'
  BY <1>2 DEF Enqueue, IInv, TypeOK, ledger, process, memory
<1>4. BusyHasPrimary'
  BY DEF Enqueue, memory, IInv, BusyHasPrimary
<1> QED BY <1>2, <1>3, <1>4 DEF IInv

\* A dead process has nothing in hand.
LEMMA DieInv ==
  ASSUME IInv, Die, seen' \in [Rows -> 0 .. SeenCap], UNCHANGED <<ran, muted, led>>
  PROVE  IInv'
<1> USE DEF table
<1>1. TypeOK'
  <2>1. First \in Stages
    BY ConstantsAssumption DEF First, Stages, AfterOutage
  <2>2. crashes' \in 0 .. MaxCrashes
    <3>1. crashes \in 0 .. MaxCrashes /\ crashes < MaxCrashes /\ crashes' = crashes + 1
      BY DEF Die, IInv, TypeOK
    <3> QED BY <3>1, ConstantsAssumption
  <2>3. up' \in BOOLEAN
    BY DEF Die
  <2> QED BY <2>1, <2>2, <2>3 DEF Die, Forget, IInv, TypeOK, PCs
<1>2. HeldByOwner'
  BY DEF Die, Forget, HeldByOwner, InHand
<1>3. BusyHasPrimary' /\ RowsInOrder'
  BY DEF Die, Forget, BusyHasPrimary, IInv, RowsInOrder
<1> QED BY <1>1, <1>2, <1>3 DEF IInv

\* Steps that rewrite the whole table while the hands stay as they are: the
\* invariant asks only that rows in hand end as 'processing' or deleted.
LEMMA TableStep ==
  ASSUME IInv, NEW S, NEW v \in Lifecycle, status' = SetStatus(S, v),
         v = "gone" \/ \A h \in Heads : InHand(h) = {},
         UNCHANGED <<table, ledger, memory>>, TypeOK'
  PROVE  IInv'
<1>1. HeldByOwner'
  <2> SUFFICES ASSUME NEW h \in Heads, NEW r \in InHand(h)
               PROVE  headOf'[r] = h /\ status'[r] \in {"processing", "gone"}
    BY DEF HeldByOwner, InHand, IInv, memory
  <2>1. r \in Rows /\ headOf[r] = h /\ status[r] \in {"processing", "gone"} /\ v = "gone"
    BY InHandRows DEF IInv, HeldByOwner
  <2> QED BY <2>1 DEF SetStatus, table
<1>2. BusyHasPrimary' /\ RowsInOrder'
  BY DEF IInv, BusyHasPrimary, RowsInOrder, memory, table, SetStatus
<1> QED BY <1>1, <1>2 DEF IInv

LEMMA ResetInv == ASSUME IInv, Reset PROVE IInv'
<1>1. status' = SetStatus(Rows, "gone") /\ "gone" \in Lifecycle
  BY DEF Reset, Lifecycle
<1>2. status' \in [Rows -> Lifecycle]
  BY <1>1, SetStatusType DEF IInv
<1>3. TypeOK'
  BY <1>2 DEF Reset, IInv, TypeOK, table, ledger, process, memory
<1>4. UNCHANGED <<table, ledger, memory>>
  BY DEF Reset
<1> QED BY <1>1, <1>3, <1>4, TableStep

LEMMA StopOrBudgetInv ==
  ASSUME IInv, BudgetMoves \/ \E h \in Heads : Stop(h)
  PROVE  IInv'
<1> USE DEF table, ledger, process, memory
<1>1. TypeOK'
  BY DEF BudgetMoves, Stop, IInv, TypeOK
<1>2. HeldByOwner' /\ BusyHasPrimary' /\ RowsInOrder'
  BY DEF BudgetMoves, Stop, IInv, HeldByOwner, InHand, BusyHasPrimary, RowsInOrder
<1> QED BY <1>1, <1>2 DEF IInv

LEMMA CrashInv ==
  ASSUME IInv, Crash \/ \E h \in Heads : CrashMidBatch(h)
  PROVE  IInv'
<1>1. CASE Crash
  BY <1>1, DieInv DEF Crash, ledger, IInv, TypeOK
<1>2. CASE \E h \in Heads : CrashMidBatch(h)
  <2>1. \E S : Append(S)
    BY <1>2 DEF CrashMidBatch
  <2>2. seen' \in [Rows -> 0 .. SeenCap]
    BY <2>1, AppendType, ConstantsAssumption DEF IInv, TypeOK
  <2> QED BY <1>2, <2>2, DieInv DEF CrashMidBatch
<1> QED BY <1>1, <1>2

LEMMA BootInv == ASSUME IInv, DeadIsIdle, Boot PROVE IInv'
<1>1. status' = SetStatus(Stale, "pending") /\ "pending" \in Lifecycle
  BY DEF Boot, Lifecycle
<1>2. status' \in [Rows -> Lifecycle]
  BY <1>1, SetStatusType DEF IInv
<1>3. TypeOK'
  BY <1>2 DEF Boot, IInv, TypeOK, table, ledger, memory
<1>4. UNCHANGED <<table, ledger, memory>>
  BY DEF Boot
<1>5. \A h \in Heads : InHand(h) = {}
  BY DEF Boot, DeadIsIdle
<1> QED BY <1>1, <1>3, <1>4, <1>5, TableStep

LEMMA LoopInv == ASSUME IInv, NEW h \in Heads, LoopStep(h) PROVE IInv'
BY ClaimInv, RetryInv, QuietInv, SuppressInv, InjectInv, BatchClaimInv, BatchAppendInv,
   BatchCommandInv, AckInv, FailInv, DeliverInv, HandlerDoneInv
   DEF LoopStep

\* A step of a loop, of a command or of a channel needs a live process.
LEMMA DeadStep == ASSUME IInv, DeadIsIdle, [Next]_vars PROVE DeadIsIdle'
<1>1. CASE \E h \in Heads : LoopStep(h)
  <2>1. PICK h \in Heads : LoopStep(h)
    BY <1>1
  <2>2. pc[h] # "idle" \/ running[h]
    BY <2>1 DEF LoopStep, Claim, ClaimBlocked, StopBlocked, HandlerDone, Suppress, Inject, Answer,
       BatchClaim, BatchAppend, BatchCommand, InBatch, BatchRerun, Deliver, Ack, HandlerFails,
       BatchCommandFails, Retry, Apologise
  <2>3. up
    BY <2>2 DEF DeadIsIdle
  <2>4. up' = up
    BY <2>1 DEF LoopStep, Claim, ClaimBlocked, StopBlocked, HandlerDone, Suppress, Inject, Answer,
       BatchClaim, BatchAppend, BatchCommand, BatchRerun, Deliver, Ack, HandlerFails,
       BatchCommandFails, Retry, Apologise, process
  <2> QED BY <2>3, <2>4 DEF DeadIsIdle
<1>2. CASE \E h \in Heads, k \in Inputs : Enqueue(h, k)
  BY <1>2 DEF Enqueue, process, DeadIsIdle
<1>3. CASE BudgetMoves \/ Reset \/ \E h \in Heads : Stop(h)
  BY <1>3 DEF BudgetMoves, Reset, Stop, process, DeadIsIdle
<1>4. CASE Crash \/ \E h \in Heads : CrashMidBatch(h)
  BY <1>4 DEF Crash, CrashMidBatch, Die, Forget, DeadIsIdle, InHand
<1>5. CASE Boot
  BY <1>5 DEF Boot, DeadIsIdle
<1>6. CASE UNCHANGED vars
  BY <1>6 DEF vars, process, memory, DeadIsIdle, InHand
<1> QED BY <1>1, <1>2, <1>3, <1>4, <1>5, <1>6 DEF Next

LEMMA NextInv == ASSUME IInv, DeadIsIdle, [Next]_vars PROVE IInv'
<1>1. CASE UNCHANGED vars
  <2>1. TypeOK'
    BY <1>1 DEF vars, table, ledger, process, memory, IInv, TypeOK
  <2>2. HeldByOwner' /\ BusyHasPrimary' /\ RowsInOrder'
    BY <1>1 DEF vars, table, memory, IInv, HeldByOwner, InHand, BusyHasPrimary, RowsInOrder
  <2> QED BY <2>1, <2>2 DEF IInv
<1>2. CASE Next
  BY <1>2, LoopInv, EnqueueInv, StopOrBudgetInv, ResetInv, CrashInv, BootInv DEF Next
<1> QED BY <1>1, <1>2

-----------------------------------------------------------------------------
(* Theorems *)

\* The inductive invariant of the head loops.
THEOREM Invariance == Spec => [](IInv /\ DeadIsIdle)
<1>1. Init => IInv /\ DeadIsIdle
  BY InitInv DEF Init, DeadIsIdle
<1>2. IInv /\ DeadIsIdle /\ [Next]_vars => (IInv /\ DeadIsIdle)'
  BY NextInv, DeadStep
<1> QED BY <1>1, <1>2, PTL DEF Spec

\* Type correctness of the head loops and their table.
THEOREM TypeCorrect == Spec => []TypeOK
<1>1. IInv => TypeOK
  BY DEF IInv
<1> QED BY <1>1, Invariance, PTL

\* Whatever a loop has in hand is its own claim, still in processing unless
\* ~reset deleted it: no two loops, and no loop twice, work on one event.
THEOREM RowsHeldByOwner == Spec => []HeldByOwner
<1>1. IInv => HeldByOwner
  BY DEF IInv
<1> QED BY <1>1, Invariance, PTL

-----------------------------------------------------------------------------
(* The loops implement the ledger *)

\* An UPDATE by id, as the ledger sees it: it moves the rows it finds.
LEMMA UpdateMoves ==
  ASSUME NEW S, NEW v, status' = SetStatus(S, v)
  PROVE  Ledger!Move({r \in Rows : r \in S /\ status[r] \notin {"none", "gone"}}, v)
BY DEF SetStatus, Ledger!Move

\* Claiming rows a query found pending.
LEMMA ClaimsTake ==
  ASSUME NEW S, status' = SetStatus(S, "processing"),
         \A r \in S \cap Rows : status[r] = "pending"
  PROVE  Ledger!Take
<1> DEFINE T == {r \in Rows : r \in S /\ status[r] \notin {"none", "gone"}}
<1>1. T \in SUBSET Ledger!In("pending")
  BY DEF Ledger!In
<1>2. Ledger!Move(T, "processing")
  BY UpdateMoves
<1> HIDE DEF T
<1> QED BY <1>1, <1>2 DEF Ledger!Take

\* Acknowledging or failing rows in hand.
LEMMA HandSettles ==
  ASSUME IInv, NEW h \in Heads, NEW S, NEW v \in {"done", "failed"},
         status' = SetStatus(S, v), S \cap Rows \subseteq InHand(h)
  PROVE  Ledger!Settle
<1> DEFINE T == {r \in Rows : r \in S /\ status[r] \notin {"none", "gone"}}
<1>1. T \in SUBSET Ledger!In("processing")
  BY DEF Ledger!In, IInv, HeldByOwner
<1>2. Ledger!Move(T, v)
  BY UpdateMoves
<1> HIDE DEF T
<1> QED BY <1>1, <1>2 DEF Ledger!Settle

\* An insert is an arrival.
LEMMA InsertArrives ==
  ASSUME IInv, NEW h \in Heads, NEW k, Insert(h, k)
  PROVE  Ledger!Arrive
<1>1. rows + 1 \in Rows /\ rows \in Nat
  BY ConstantsAssumption DEF IInv, TypeOK, Insert
<1>2. rows + 1 \in Ledger!In("none")
  BY <1>1 DEF IInv, RowsInOrder, Ledger!In
<1>3. Ledger!Move({rows + 1}, "pending")
  BY <1>1 DEF Insert, Ledger!Move, IInv, TypeOK
<1> QED BY <1>2, <1>3 DEF Ledger!Arrive

\* The step of a loop is a step of the ledger, or does not touch the table.
LEMMA LoopLedger ==
  ASSUME IInv, NEW h \in Heads, LoopStep(h)
  PROVE  Ledger!Next \/ UNCHANGED status
<1> USE DEF Ledger!Next
<1>1. CASE Claim(h)
  <2>1. PICK r \in Rows : IsNext(h, r) /\ Begin(h, r, {r})
    BY <1>1 DEF Claim
  <2>2. \A q \in {r} \cup Coalesced(h, r) : status[q] = "pending"
    BY <2>1 DEF IsNext, Coalesced, PendingBackground, Pending
  <2> QED BY <2>1, <2>2, ClaimsTake DEF Begin
<1>2. CASE Retry(h)
  <2>1. status' = SetStatus({} \cup Coalesced(h, primary[h]), "processing")
    BY <1>2 DEF Retry, Begin
  <2>2. \A q \in {} \cup Coalesced(h, primary[h]) : status[q] = "pending"
    BY DEF Coalesced, PendingBackground, Pending
  <2> QED BY <2>1, <2>2, ClaimsTake
<1>3. CASE BatchClaim(h)
  <2>1. \A q \in PendingUser(h) : status[q] = "pending"
    BY DEF PendingUser, Pending
  <2> QED BY <1>3, <2>1, ClaimsTake DEF BatchClaim
<1>4. CASE Suppress(h)
  <2>1. PICK S \in Verdicts(h) : status' = SetStatus(held[h] \cap S, "done")
    BY <1>4 DEF Suppress
  <2>2. (held[h] \cap S) \cap Rows \subseteq InHand(h)
    BY DEF InHand
  <2> QED BY <2>1, <2>2, HandSettles
<1>5. CASE Inject(h)
  <2>1. status' = SetStatus(held[h], "done") /\ held[h] \cap Rows \subseteq InHand(h)
    BY <1>5 DEF Inject, InHand
  <2> QED BY <2>1, HandSettles
<1>6. CASE BatchAppend(h) \/ BatchCommand(h)
  <2>1. PICK r \in held[h] : status' = SetStatus({r}, "done")
    BY <1>6 DEF BatchAppend, BatchCommand
  <2>2. {r} \cap Rows \subseteq InHand(h)
    BY DEF InHand
  <2> QED BY <2>1, <2>2, HandSettles
<1>7. CASE Ack(h)
  <2>1. status' = SetStatus({primary[h]}, "done") /\ {primary[h]} \cap Rows \subseteq InHand(h)
    BY <1>7 DEF Ack, InHand
  <2> QED BY <2>1, HandSettles
<1>8. CASE HandlerFails(h) \/ BatchCommandFails(h)
  <2>1. PICK err \in Errors : Throw(h, err)
    BY <1>8 DEF HandlerFails, BatchCommandFails
  <2>2. CASE Following(stage[h], err) = First
    <3>1. status' = SetStatus({primary[h]}, "failed") /\ {primary[h]} \cap Rows \subseteq InHand(h)
      BY <2>1, <2>2 DEF Throw, InHand
    <3> QED BY <3>1, HandSettles
  <2>3. CASE Following(stage[h], err) # First
    BY <2>1, <2>3 DEF Throw
  <2> QED BY <2>2, <2>3
<1>9. CASE Deliver(h)
  <2>1. CASE Insert(DefaultHead, "user_message")
    BY <2>1, InsertArrives, ConstantsAssumption
  <2>2. CASE UNCHANGED <<table, status>>
    BY <2>2
  <2> QED BY <1>9, <2>1, <2>2 DEF Deliver
<1>10. CASE HandlerDone(h)
  <2>1. CASE Insert(h, "user_message")
    BY <2>1, InsertArrives
  <2>2. CASE UNCHANGED <<table, status>>
    BY <2>2
  <2> QED BY <1>10, <2>1, <2>2 DEF HandlerDone
<1>11. CASE ClaimBlocked(h) \/ StopBlocked(h) \/ Answer(h) \/ BatchRerun(h) \/ Apologise(h)
  BY <1>11 DEF ClaimBlocked, StopBlocked, Answer, BatchRerun, Apologise
<1> QED BY <1>1, <1>2, <1>3, <1>4, <1>5, <1>6, <1>7, <1>8, <1>9, <1>10, <1>11 DEF LoopStep

LEMMA LedgerStep == ASSUME IInv, [Next]_vars PROVE [Ledger!Next]_status
<1>1. CASE \E h \in Heads : LoopStep(h)
  BY <1>1, LoopLedger
<1>2. CASE \E h \in Heads, k \in Inputs : Enqueue(h, k)
  <2>1. PICK h \in Heads, k \in Inputs : Insert(h, k)
    BY <1>2 DEF Enqueue
  <2> QED BY <2>1, InsertArrives DEF Ledger!Next
<1>3. CASE Reset
  <2>1. Ledger!Move(Rows \ Ledger!In("none"), "gone")
    BY <1>3 DEF Reset, SetStatus, Ledger!Move, Ledger!In
  <2> QED BY <2>1 DEF Ledger!Next, Ledger!Wipe
<1>4. CASE Boot
  <2> DEFINE T == {r \in Rows : r \in Stale /\ status[r] \notin {"none", "gone"}}
  <2>1. T \in SUBSET Ledger!In("processing")
    BY DEF Stale, Ledger!In
  <2>2. Ledger!Move(T, "pending")
    BY <1>4, UpdateMoves DEF Boot
  <2> HIDE DEF T
  <2> QED BY <2>1, <2>2 DEF Ledger!Next, Ledger!Return
<1>5. CASE Crash \/ (\E h \in Heads : CrashMidBatch(h)) \/ BudgetMoves \/ (\E h \in Heads : Stop(h)) \/ UNCHANGED vars
  BY <1>5 DEF Crash, CrashMidBatch, Die, BudgetMoves, Stop, vars
<1> QED BY <1>1, <1>2, <1>3, <1>4, <1>5 DEF Next

\* The head loops use queue_events as EventLedger promises, whatever they
\* interleave, retry, coalesce or recover.
THEOREM LedgerRefined == Spec => ImplementsLedger
<1>1. Init => Ledger!Init
  BY DEF Init, Ledger!Init
<1>2. IInv /\ [Next]_vars => [Ledger!Next]_status
  BY LedgerStep
<1> QED BY <1>1, <1>2, Invariance, PTL DEF Spec, ImplementsLedger, Ledger!Spec

\* Done and failed are final, by the ledger.
THEOREM OutcomesFinal == Spec => SettledForever
<1>1. ASSUME [Ledger!Next]_status, TypeOK
      PROVE  \A r \in Rows :
               status[r] \in {"done", "failed"} => status'[r] \in {status[r], "gone"}
  BY <1>1 DEF Ledger!Next, Ledger!Arrive, Ledger!Take, Ledger!Settle, Ledger!Return, Ledger!Wipe,
     Ledger!Move, Ledger!In
<1>2. IInv /\ [Next]_vars =>
        [\A r \in Rows :
           status[r] \in {"done", "failed"} => status'[r] \in {status[r], "gone"}]_vars
  BY <1>1, LedgerStep DEF IInv
<1> QED BY <1>2, Invariance, PTL DEF Spec, SettledForever

=============================================================================
