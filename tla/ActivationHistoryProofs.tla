----------------------- MODULE ActivationHistoryProofs -----------------------
(***************************************************************************)
(* What the head loops write into the history, for every set of heads,     *)
(* every number of events and every number of restarts: nothing is         *)
(* acknowledged without its effect, a user message is appended once in a   *)
(* life of the process, and a coalesced event once in all.  The argument   *)
(* follows each event by its status: how often its text was appended is    *)
(* bounded by what it may still be handed to.  The second half is about    *)
(* order: messages enter the history as they arrived; and about rows left  *)
(* in processing, which only suppression and a failed command do.          *)
(***************************************************************************)
EXTENDS ActivationLoopProofs

USE DEF Rows, NoRow

-----------------------------------------------------------------------------
(* The inductive invariant *)

\* The event had its effect.
Handled(r) == seen[r] > 0 \/ r \in ran \/ r \in muted

\* What the table and the history say of one event.  A message waiting to be
\* claimed was appended by earlier lives only, and so was every message of a
\* dead process; an event that was never primary is injected and settled at
\* once, so as long as it is not settled it was not injected.
RowSound(r) ==
  /\ status[r] = "none" => seen[r] = 0
  /\ status[r] = "done" /\ kind[r] # "schedule_trigger" => Handled(r)
  /\ kind[r] = "user_message" =>
       seen[r] <= IF status[r] = "pending" \/ ~up THEN crashes ELSE crashes + 1
  /\ kind[r] \in Injectable /\ r \notin led =>
       seen[r] <= IF status[r] \in {"pending", "processing"} THEN 0 ELSE 1

\* Where a loop is after the effect of its primary event.
Answering == {"llm", "batch", "rebatch", "deliver", "ack"}

\* A row claimed beside the primary was not appended in this life.
HeldSound(h) ==
  \A r \in held[h] :
    /\ kind[r] = "user_message" => seen[r] <= crashes
    /\ kind[r] \in Injectable /\ r \notin led => seen[r] = 0
    /\ pc[h] = "stewards" => kind[r] \in Background

\* The primary event: a message is remembered in appendedEventIds, and the
\* loop is past the event's handler only if the event had its effect.
PrimarySound(h) ==
  primary[h] # NoRow =>
    /\ primary[h] \in led
    /\ kind[primary[h]] = "user_message" => primary[h] \in appended[h]
    /\ pc[h] = "stewards" => kind[primary[h]] \in Injectable
    /\ pc[h] \in Answering => kind[primary[h]] = "schedule_trigger" \/ Handled(primary[h])

HeadSound(h) ==
  /\ \A r \in appended[h] : seen[r] > 0
  /\ HeldSound(h)
  /\ PrimarySound(h)

History ==
  /\ \A r \in Rows : RowSound(r)
  /\ \A h \in Heads : HeadSound(h)

-----------------------------------------------------------------------------
(* What a step leaves *)

\* The parts of the ledger that only grow; no event changes its kind.
Grows ==
  /\ \A r \in Rows : seen'[r] >= seen[r]
  /\ ran \subseteq ran' /\ muted \subseteq muted' /\ led \subseteq led'
  /\ \A r \in Rows : status[r] # "none" => kind'[r] = kind[r]

\* The same, in a process that stays alive.
Lives == Grows /\ up /\ up' /\ crashes' = crashes

\* An effect is never undone.
LEMMA HandledStays ==
  ASSUME TypeOK, TypeOK', Grows, NEW r \in Rows, Handled(r)
  PROVE  Handled(r)'
<1>1. seen[r] \in Nat /\ seen'[r] \in Nat /\ seen'[r] >= seen[r]
  BY ConstantsAssumption DEF TypeOK, Grows, SeenCap
<1> QED BY <1>1 DEF Handled, Grows

\* An event that a step does not touch stays sound.
LEMMA RowKept ==
  ASSUME TypeOK, TypeOK', Grows, UNCHANGED <<up, crashes>>,
         NEW r \in Rows, RowSound(r),
         status'[r] = status[r], seen'[r] = seen[r], kind'[r] = kind[r]
  PROVE  RowSound(r)'
<1>1. Handled(r) => Handled(r)'
  BY HandledStays
<1>2. r \notin led' => r \notin led
  BY DEF Grows
<1> QED BY <1>1, <1>2 DEF RowSound

\* A loop whose memory a step does not touch stays sound, if the step appends
\* nothing that the loop holds.
LEMMA HeadKept ==
  ASSUME IInv, TypeOK', Grows, UNCHANGED crashes,
         NEW h \in Heads, HeadSound(h),
         pc'[h] = pc[h], primary'[h] = primary[h], held'[h] = held[h], appended'[h] = appended[h],
         \A r \in held[h] : seen'[r] = seen[r]
  PROVE  HeadSound(h)'
<1>1. TypeOK /\ held[h] \subseteq Rows /\ appended[h] \subseteq Rows
  BY DEF IInv, TypeOK
<1>2. \A r \in appended[h]' : seen'[r] > 0
  <2> SUFFICES ASSUME NEW r \in appended[h] PROVE seen'[r] > 0
    OBVIOUS
  <2>1. seen[r] \in Nat /\ seen'[r] \in Nat /\ seen'[r] >= seen[r] /\ seen[r] > 0
    BY <1>1, ConstantsAssumption DEF TypeOK, Grows, SeenCap, HeadSound
  <2> QED BY <2>1
<1>3. \A r \in InHand(h) : kind'[r] = kind[r]
  BY <1>1, InHandRows DEF Grows, IInv, HeldByOwner
<1>4. HeldSound(h)'
  BY <1>3 DEF HeldSound, HeadSound, InHand, Grows
<1>5. PrimarySound(h)'
  <2> SUFFICES ASSUME primary[h] # NoRow PROVE PrimarySound(h)'
    BY DEF PrimarySound
  <2>1. primary[h] \in Rows /\ kind'[primary[h]] = kind[primary[h]]
    BY <1>1, <1>3 DEF InHand, TypeOK
  <2>2. Handled(primary[h]) => Handled(primary[h])'
    BY <1>1, <2>1, HandledStays
  <2> QED BY <2>1, <2>2 DEF PrimarySound, HeadSound, Grows
<1> QED BY <1>2, <1>4, <1>5 DEF HeadSound

\* A step of head h that touches only events it has in hand, or that its query
\* found pending, is judged by those events and by its own memory.
LEMMA HeadStep ==
  ASSUME IInv, History, TypeOK', NEW h \in Heads, Lives, kind' = kind,
         NEW S,
         \A r \in Rows \ S : status'[r] = status[r] /\ seen'[r] = seen[r],
         \A r \in S \cap Rows : r \in InHand(h) \/ status[r] = "pending",
         \A g \in Heads : g # h => /\ pc'[g] = pc[g] /\ primary'[g] = primary[g]
                                   /\ held'[g] = held[g] /\ appended'[g] = appended[g],
         \A r \in S \cap Rows : RowSound(r)',
         HeadSound(h)'
  PROVE  History'
<1>1. \A r \in Rows : RowSound(r)'
  <2> SUFFICES ASSUME NEW r \in Rows, r \notin S PROVE RowSound(r)'
    OBVIOUS
  <2> QED BY RowKept DEF IInv, History, Lives
<1>2. \A g \in Heads : HeadSound(g)'
  <2> SUFFICES ASSUME NEW g \in Heads, g # h PROVE HeadSound(g)'
    OBVIOUS
  <2>1. \A r \in held[g] : seen'[r] = seen[r]
    <3> SUFFICES ASSUME NEW r \in held[g] PROVE seen'[r] = seen[r]
      OBVIOUS
    <3>1. r \in InHand(g) /\ r \in Rows
      BY InHandRows DEF InHand, IInv
    <3>2. headOf[r] = g /\ status[r] # "pending"
      BY <3>1 DEF IInv, HeldByOwner
    <3>3. r \notin InHand(h)
      BY <3>2 DEF IInv, HeldByOwner
    <3> QED BY <3>1, <3>2, <3>3
  <2> QED BY <2>1, HeadKept DEF History, Lives
<1> QED BY <1>1, <1>2 DEF History

\* A step of head h that at most inserts an event.
LEMMA InsertSound ==
  ASSUME IInv, History, TypeOK', NEW h \in Heads, Lives, seen' = seen,
         UNCHANGED <<table, status>> \/ \E g \in Heads, k \in Kinds : Insert(g, k),
         \A g \in Heads : g # h => /\ pc'[g] = pc[g] /\ primary'[g] = primary[g]
                                   /\ held'[g] = held[g] /\ appended'[g] = appended[g],
         HeadSound(h)'
  PROVE  History'
<1>1. \A g \in Heads : HeadSound(g)'
  BY HeadKept DEF History, Lives
<1>2. \A r \in Rows : RowSound(r)'
  <2> SUFFICES ASSUME NEW r \in Rows PROVE RowSound(r)'
    OBVIOUS
  <2>1. CASE UNCHANGED <<table, status>>
    BY <2>1, RowKept DEF table, IInv, History, Lives
  <2>2. CASE \E g \in Heads, k \in Kinds : Insert(g, k)
    <3>1. TypeOK /\ rows \in Nat /\ rows + 1 \in Rows
      BY <2>2, ConstantsAssumption DEF IInv, TypeOK, Insert
    <3>2. CASE r = rows + 1
      <4>1. status[r] = "none" /\ seen[r] = 0
        BY <3>1, <3>2 DEF IInv, RowsInOrder, History, RowSound
      <4>2. status'[r] = "pending"
        BY <2>2, <3>1, <3>2 DEF Insert, TypeOK
      <4>3. crashes \in Nat /\ crashes' = crashes
        BY <3>1, ConstantsAssumption DEF TypeOK, Lives
      <4> QED BY <4>1, <4>2, <4>3 DEF RowSound
    <3>3. CASE r # rows + 1
      <4>1. status'[r] = status[r] /\ kind'[r] = kind[r]
        BY <2>2, <3>1, <3>3 DEF Insert, TypeOK
      <4> QED BY <3>1, <4>1, RowKept DEF History, Lives
    <3> QED BY <3>2, <3>3
  <2> QED BY <2>1, <2>2
<1> QED BY <1>1, <1>2 DEF History

\* Appending the rows in S raises their counters and leaves the others.
LEMMA AppendFacts ==
  ASSUME TypeOK, NEW S, Append(S), NEW r \in Rows
  PROVE  /\ r \in S => seen'[r] > 0
         /\ r \notin S => seen'[r] = seen[r]
         /\ seen'[r] \in {seen[r], seen[r] + 1}
         /\ seen[r] \in Nat /\ seen'[r] \in Nat /\ seen'[r] >= seen[r]
<1>1. seen[r] \in Nat /\ SeenCap \in Nat /\ SeenCap > 0 /\ seen[r] <= SeenCap
  BY ConstantsAssumption DEF TypeOK, SeenCap
<1>2. seen'[r] = IF r \in S /\ seen[r] < SeenCap THEN seen[r] + 1 ELSE seen[r]
  BY DEF Append
<1>3. CASE r \in S /\ seen[r] < SeenCap
  BY <1>1, <1>2, <1>3
<1>4. CASE ~(r \in S /\ seen[r] < SeenCap)
  BY <1>1, <1>2, <1>4
<1> QED BY <1>3, <1>4

-----------------------------------------------------------------------------
(* Claiming *)

\* Where the handling of an event starts says what kind it is.
LEMMA EntryFacts ==
  ASSUME TypeOK, NEW r \in Rows
  PROVE  /\ Entry(r) = "stewards" => kind[r] \in Injectable
         /\ Entry(r) \in Answering => kind[r] = "user_message"
<1>1. kind[r] \in Kinds
  BY DEF TypeOK
<1> QED BY <1>1 DEF Entry, Answering, Kinds, Background, Injectable

\* handleEvent() up to its first await, for a primary claimed in the same step
\* or kept for a retry: a fresh message is appended for the first time in this
\* life, and the coalesced events were not injected before.
LEMMA BeginSound ==
  ASSUME IInv, History, TypeOK', NEW h \in Heads, NEW r \in Rows, NEW claimed,
         Begin(h, r, claimed), up, UNCHANGED <<kind, ran, muted, process>>,
         led' = led \cup {r}, primary' = [primary EXCEPT ![h] = r],
         \/ claimed = {r} /\ r \in Pending(h)
         \/ claimed = {} /\ primary[h] = r
  PROVE  History'
<1> DEFINE fresh == kind[r] = "user_message" /\ r \notin appended[h]
           A == IF fresh THEN {r} ELSE {}
           C == Coalesced(h, r)
           S == claimed \cup C
<1>1. TypeOK /\ crashes \in Nat /\ crashes' = crashes /\ up'
  <2>1. TypeOK
    BY DEF IInv
  <2>2. crashes \in 0 .. MaxCrashes
    BY <2>1 DEF TypeOK
  <2> QED BY <2>1, <2>2, ConstantsAssumption DEF process
<1>2. status' = SetStatus(S, "processing") /\ Append(A)
  BY DEF Begin
<1>3. \A q \in C : /\ q \in Rows /\ q # r /\ headOf[q] = h /\ status[q] = "pending"
                   /\ kind[q] \in Background
  BY DEF Coalesced, PendingBackground, Pending
<1>4. /\ held'[h] = C /\ primary'[h] = r /\ pc'[h] = Entry(r)
      /\ appended'[h] = IF fresh THEN appended[h] \cup {r} ELSE appended[h]
  BY <1>1 DEF Begin, Goto, TypeOK
<1>5. \A q \in Rows : /\ seen[q] \in Nat /\ seen'[q] \in Nat /\ seen'[q] >= seen[q]
                      /\ q \notin A => seen'[q] = seen[q]
                      /\ q \in A => seen'[q] > 0
                      /\ seen'[q] <= seen[q] + 1
  BY <1>1, <1>2, AppendFacts
<1>6. \A q \in Rows : q \notin S => status'[q] = status[q]
  BY <1>2 DEF SetStatus
<1>7. Lives
  BY <1>1, <1>5 DEF Grows, Lives
<1>8. fresh => claimed = {r} /\ r \in Pending(h)
  BY DEF History, HeadSound, PrimarySound
<1>9. \A q \in Rows \ S : status'[q] = status[q] /\ seen'[q] = seen[q]
  BY <1>5, <1>6, <1>8
<1>10. \A q \in S : q \in Rows /\ status[q] = "pending" /\ status'[q] = "processing"
  BY <1>2, <1>3 DEF SetStatus, Pending
<1>11. \A q \in S \cap Rows : RowSound(q)'
  <2> SUFFICES ASSUME NEW q \in S, q \in Rows PROVE RowSound(q)'
    OBVIOUS
  <2>1. status[q] = "pending" /\ status'[q] = "processing" /\ RowSound(q)
    BY <1>10 DEF History
  <2>2. kind[q] = "user_message" => seen'[q] <= crashes + 1
    BY <1>1, <1>5, <2>1 DEF RowSound
  <2>3. kind[q] \in Injectable /\ q \notin led => seen'[q] = 0
    <3>1. kind[q] \in Injectable => q \notin A
      BY DEF Injectable
    <3> QED BY <1>5, <2>1, <3>1 DEF RowSound
  <2> QED BY <1>1, <1>5, <2>1, <2>2, <2>3 DEF RowSound
<1>12. HeadSound(h)'
  <2>1. \A q \in appended[h]' : seen'[q] > 0
    <3> SUFFICES ASSUME NEW q \in appended'[h] PROVE seen'[q] > 0
      OBVIOUS
    <3>1. q \in Rows /\ (q \in A \/ q \in appended[h])
      BY <1>1, <1>4 DEF TypeOK
    <3>2. q \in appended[h] => seen[q] > 0
      BY DEF History, HeadSound
    <3> QED BY <1>5, <3>1, <3>2
  <2>2. HeldSound(h)'
    <3> SUFFICES ASSUME NEW q \in C
                 PROVE  /\ kind[q] = "user_message" => seen'[q] <= crashes
                        /\ kind[q] \in Injectable /\ q \notin led' => seen'[q] = 0
                        /\ kind[q] \in Background
      BY <1>1, <1>4 DEF HeldSound
    <3>1. q \in Rows /\ status[q] = "pending" /\ kind[q] \in Background /\ seen'[q] = seen[q]
      BY <1>3, <1>5
    <3>2. RowSound(q) /\ seen[q] \in Nat
      BY <1>5, <3>1 DEF History
    <3> QED BY <3>1, <3>2 DEF RowSound, Background
  <2>3. PrimarySound(h)'
    <3>1. r \in led' /\ (kind[r] = "user_message" => r \in appended'[h])
      BY <1>4
    <3>2. pc'[h] = "stewards" => kind[r] \in Injectable
      BY <1>1, <1>4, EntryFacts
    <3>3. pc'[h] \in Answering => Handled(r)'
      BY <1>1, <1>4, <2>1, <3>1, EntryFacts DEF Handled
    <3> QED BY <1>4, <3>1, <3>2, <3>3 DEF PrimarySound
  <2> QED BY <2>1, <2>2, <2>3 DEF HeadSound
<1>13. \A g \in Heads : g # h => /\ pc'[g] = pc[g] /\ primary'[g] = primary[g]
                                 /\ held'[g] = held[g] /\ appended'[g] = appended[g]
  BY <1>1 DEF Begin, Goto, TypeOK
<1> HIDE DEF S
<1> QED BY <1>7, <1>9, <1>10, <1>11, <1>12, <1>13, HeadStep

LEMMA ClaimSound ==
  ASSUME IInv, IInv', History, up, NEW h \in Heads, Claim(h)
  PROVE  History'
<1>1. PICK r \in Rows : /\ IsNext(h, r)
                        /\ primary' = [primary EXCEPT ![h] = r]
                        /\ led' = led \cup {r}
                        /\ Begin(h, r, {r})
  BY DEF Claim
<1>2. r \in Pending(h) /\ UNCHANGED <<kind, ran, muted, process>>
  BY <1>1 DEF IsNext, Claim, table
<1> QED BY <1>1, <1>2, BeginSound DEF IInv

LEMMA RetrySound ==
  ASSUME IInv, IInv', History, up, NEW h \in Heads, Retry(h)
  PROVE  History'
<1>1. Begin(h, primary[h], {}) /\ UNCHANGED <<kind, ran, muted, led, process, primary>>
  BY DEF Retry, table
<1>2. primary[h] \in Rows /\ primary[h] \in led
  BY DEF Retry, IInv, BusyHasPrimary, TypeOK, History, HeadSound, PrimarySound
<1>3. primary' = [primary EXCEPT ![h] = primary[h]] /\ led' = led \cup {primary[h]}
  BY <1>1, <1>2 DEF IInv, TypeOK
<1> QED BY <1>1, <1>2, <1>3, BeginSound DEF IInv

\* The messages folded into the conversation were pending until now.
LEMMA BatchClaimSound ==
  ASSUME IInv, IInv', History, up, NEW h \in Heads, BatchClaim(h)
  PROVE  History'
<1> DEFINE S == PendingUser(h)
<1>1. TypeOK /\ TypeOK' /\ crashes \in Nat
  <2>1. TypeOK /\ TypeOK'
    BY DEF IInv
  <2>2. crashes \in Nat
    BY <2>1, ConstantsAssumption DEF TypeOK
  <2> QED BY <2>1, <2>2
<1>2. status' = SetStatus(S, "processing") /\ seen' = seen
      /\ UNCHANGED <<kind, ran, muted, led, up, crashes, primary, appended>>
  BY DEF BatchClaim, table, ledger, process
<1>3. Lives
  BY <1>1, <1>2, ConstantsAssumption DEF Grows, Lives, TypeOK, SeenCap
<1>4. \A q \in S : /\ q \in Rows /\ status[q] = "pending" /\ status'[q] = "processing"
                   /\ kind[q] \in FromUser
  BY <1>2 DEF PendingUser, Pending, SetStatus
<1>5. \A q \in Rows \ S : status'[q] = status[q] /\ seen'[q] = seen[q]
  BY <1>2 DEF SetStatus
<1>6. \A q \in S \cap Rows : RowSound(q)'
  <2> SUFFICES ASSUME NEW q \in S PROVE RowSound(q)'
    OBVIOUS
  <2>1. status[q] = "pending" /\ status'[q] = "processing" /\ RowSound(q) /\ seen[q] \in Nat
    BY <1>1, <1>4, ConstantsAssumption DEF History, TypeOK, SeenCap
  <2> QED BY <1>1, <1>2, <2>1 DEF RowSound
<1>7. held'[h] = S /\ pc'[h] \in {"batch", "deliver"}
  BY <1>1 DEF BatchClaim, Goto, TypeOK
<1>8. HeadSound(h)'
  <2>1. HeldSound(h)'
    <3> SUFFICES ASSUME NEW q \in S
                 PROVE  /\ kind[q] = "user_message" => seen[q] <= crashes
                        /\ kind[q] \notin Injectable
      BY <1>2, <1>7 DEF HeldSound
    <3>1. RowSound(q) /\ status[q] = "pending" /\ kind[q] \in FromUser
      BY <1>4 DEF History
    <3> QED BY <3>1 DEF RowSound, FromUser, Injectable
  <2>2. PrimarySound(h)'
    <3>1. pc[h] \in Answering /\ pc'[h] \in Answering
      BY <1>7 DEF BatchClaim, Answering
    <3> QED BY <1>2, <1>7, <3>1 DEF PrimarySound, History, HeadSound, Handled
  <2> QED BY <1>2, <2>1, <2>2 DEF HeadSound, History
<1>9. \A g \in Heads : g # h => /\ pc'[g] = pc[g] /\ primary'[g] = primary[g]
                                /\ held'[g] = held[g] /\ appended'[g] = appended[g]
  BY <1>1, <1>2 DEF BatchClaim, Goto, TypeOK
<1> HIDE DEF S
<1> QED BY <1>1, <1>2, <1>3, <1>4, <1>5, <1>6, <1>8, <1>9, HeadStep

-----------------------------------------------------------------------------
(* Injecting and suppressing *)

\* The other heads remember what they did.
Apart(h) ==
  \A g \in Heads : g # h => /\ pc'[g] = pc[g] /\ primary'[g] = primary[g]
                            /\ held'[g] = held[g] /\ appended'[g] = appended[g]

\* What the stewards may silence: the completions in hand.
LEMMA VerdictFacts ==
  ASSUME TypeOK, NEW h \in Heads, NEW V \in Verdicts(h)
  PROVE  V \subseteq InHand(h) /\ V \subseteq Rows
BY InHandRows DEF Verdicts

\* A suppressed primary and the suppressed rows that rode along are muted.
LEMMA SuppressSound ==
  ASSUME IInv, IInv', History, up, NEW h \in Heads, Suppress(h)
  PROVE  History'
<1>1. TypeOK /\ TypeOK'
  BY DEF IInv
<1>2. PICK V \in Verdicts(h) : /\ primary[h] \in V
                               /\ muted' = muted \cup V
                               /\ status' = SetStatus(held[h] \cap V, "done")
  BY DEF Suppress
<1> DEFINE S == held[h] \cap V
<1>3. /\ UNCHANGED <<kind, seen, ran, led, up, crashes, primary, appended>>
      /\ held'[h] = {} /\ pc'[h] = "ack" /\ pc[h] = "stewards"
  BY <1>1 DEF Suppress, table, process, Goto, TypeOK
<1>4. Lives
  <2>1. \A r \in Rows : seen'[r] >= seen[r]
    BY <1>1, <1>3, ConstantsAssumption DEF TypeOK, SeenCap
  <2> QED BY <1>2, <1>3, <2>1 DEF Grows, Lives
<1>5. \A r \in Rows \ S : status'[r] = status[r] /\ seen'[r] = seen[r]
  BY <1>2, <1>3 DEF SetStatus
<1>6. \A r \in S \cap Rows : r \in InHand(h) \/ status[r] = "pending"
  BY DEF InHand
<1>7. \A r \in S \cap Rows : RowSound(r)'
  <2> SUFFICES ASSUME NEW r \in S, r \in Rows PROVE RowSound(r)'
    OBVIOUS
  <2>1. r \in muted' /\ kind[r] \in Background /\ r \in InHand(h)
    BY <1>2, <1>3 DEF History, HeadSound, HeldSound, InHand
  <2>2. status[r] \in {"processing", "gone"}
    BY <2>1 DEF IInv, HeldByOwner
  <2>3. status'[r] \in {"done", "gone"}
    BY <1>2, <2>2 DEF SetStatus
  <2>4. kind[r] \in Injectable /\ r \notin led => seen[r] <= 1
    BY <1>1, <1>3 DEF History, HeadSound, HeldSound
  <2> QED BY <1>3, <2>1, <2>3, <2>4 DEF RowSound, Handled, Background
<1>8. HeadSound(h)'
  BY <1>2, <1>3 DEF HeadSound, HeldSound, PrimarySound, Handled, History
<1>9. Apart(h)
  BY <1>1, <1>3 DEF Suppress, Goto, TypeOK, Apart
<1> HIDE DEF S
<1> QED BY <1>1, <1>3, <1>4, <1>5, <1>6, <1>7, <1>8, <1>9, HeadStep DEF Apart

\* Every row in hand is injected or muted, in one transaction with the
\* acknowledgement of the rows that rode along.
LEMMA InjectSound ==
  ASSUME IInv, IInv', History, up, NEW h \in Heads, Inject(h)
  PROVE  History'
<1>1. TypeOK /\ TypeOK'
  BY DEF IInv
<1>2. PICK V \in Verdicts(h) : /\ primary[h] \notin V
                               /\ muted' = muted \cup V
                               /\ Append({r \in InHand(h) \ V : kind[r] \in Injectable})
  BY DEF Inject
<1> DEFINE A == {r \in InHand(h) \ V : kind[r] \in Injectable}
           S == InHand(h)
<1>3. /\ UNCHANGED <<kind, ran, led, up, crashes, primary, appended>>
      /\ status' = SetStatus(held[h], "done")
      /\ held'[h] = {} /\ pc'[h] = "llm" /\ pc[h] = "stewards"
  BY <1>1 DEF Inject, table, process, Goto, TypeOK
<1>4. \A r \in Rows : /\ seen[r] \in Nat /\ seen'[r] \in Nat /\ seen'[r] >= seen[r]
                      /\ (r \notin A => seen'[r] = seen[r])
                      /\ (r \in A => seen'[r] > 0)
                      /\ seen'[r] \in {seen[r], seen[r] + 1}
  BY <1>1, <1>2, AppendFacts
<1>5. Lives
  BY <1>2, <1>3, <1>4 DEF Grows, Lives
<1>6. \A r \in Rows \ S : status'[r] = status[r] /\ seen'[r] = seen[r]
  BY <1>3, <1>4 DEF SetStatus, InHand
<1>7. primary[h] \in Rows /\ primary[h] \in led /\ kind[primary[h]] \in Injectable
      /\ primary[h] \in A /\ primary[h] \notin held[h]
  <2>1. primary[h] # NoRow
    BY <1>3 DEF IInv, BusyHasPrimary
  <2>2. primary[h] \in InHand(h)
    BY <2>1 DEF InHand
  <2> QED BY <1>1, <1>2, <1>3, <2>1, <2>2
          DEF History, HeadSound, PrimarySound, IInv, HeldByOwner, TypeOK
<1>8. \A r \in S \cap Rows : RowSound(r)'
  <2> SUFFICES ASSUME NEW r \in InHand(h), r \in Rows PROVE RowSound(r)'
    OBVIOUS
  <2>1. status[r] \in {"processing", "gone"}
    BY DEF IInv, HeldByOwner
  <2>2. CASE r = primary[h]
    <3>1. status'[r] = status[r]
      BY <1>3, <1>7, <2>2 DEF SetStatus
    <3> QED BY <1>3, <1>7, <2>1, <2>2, <3>1 DEF RowSound, Injectable
  <2>3. CASE r \in held[h]
    <3>1. status'[r] \in {"done", "gone"}
      BY <1>3, <2>1, <2>3 DEF SetStatus
    <3>2. kind[r] \in Background
      BY <1>3, <2>3 DEF History, HeadSound, HeldSound
    <3>3. kind[r] \in Injectable => seen'[r] > 0 \/ r \in muted'
      BY <1>2, <1>4
    <3>4. kind[r] \in Injectable /\ r \notin led => seen'[r] <= 1
      <4>1. kind[r] \in Injectable /\ r \notin led => seen[r] = 0
        BY <2>3 DEF History, HeadSound, HeldSound
      <4> QED BY <1>4, <4>1
    <3> QED BY <1>3, <3>1, <3>2, <3>3, <3>4 DEF RowSound, Handled, Background, Injectable
  <2> QED BY <2>2, <2>3 DEF InHand
<1>9. HeadSound(h)'
  <2>1. \A r \in appended[h] : seen'[r] > 0
    <3> SUFFICES ASSUME NEW r \in appended[h] PROVE seen'[r] > 0
      OBVIOUS
    <3>1. r \in Rows /\ seen[r] > 0
      BY <1>1 DEF History, HeadSound, TypeOK
    <3> QED BY <1>4, <3>1
  <2>2. HeldSound(h)'
    BY <1>3 DEF HeldSound
  <2>3. PrimarySound(h)'
    <3>1. seen'[primary[h]] > 0
      BY <1>4, <1>7
    <3> QED BY <1>3, <1>7, <3>1 DEF PrimarySound, Injectable, Handled
  <2> QED BY <1>3, <2>1, <2>2, <2>3 DEF HeadSound
<1>10. Apart(h)
  BY <1>1, <1>3 DEF Inject, Goto, TypeOK, Apart
<1> QED BY <1>1, <1>3, <1>5, <1>6, <1>8, <1>9, <1>10, HeadStep DEF Apart

-----------------------------------------------------------------------------
(* Folding messages in, acknowledging, failing *)

\* A folded message was held, so it was not appended in this life.
LEMMA BatchAppendSound ==
  ASSUME IInv, IInv', History, up, NEW h \in Heads, BatchAppend(h)
  PROVE  History'
<1>1. TypeOK /\ TypeOK'
  BY DEF IInv
<1>2. PICK r \in held[h] : /\ InBatch(h, r)
                           /\ kind[r] = "user_message"
                           /\ Append({r})
                           /\ status' = SetStatus({r}, "done")
                           /\ held' = [held EXCEPT ![h] = @ \ {r}]
  BY DEF BatchAppend
<1>3. /\ UNCHANGED <<kind, ran, muted, led, up, crashes, primary, appended>>
      /\ held'[h] = held[h] \ {r} /\ pc'[h] = "rebatch" /\ pc[h] \in {"batch", "rebatch"}
      /\ r \in Rows /\ r \in InHand(h)
  BY <1>1, <1>2 DEF BatchAppend, InBatch, table, process, Goto, TypeOK, InHand
<1>4. \A q \in Rows : /\ seen[q] \in Nat /\ seen'[q] \in Nat /\ seen'[q] >= seen[q]
                      /\ (q # r => seen'[q] = seen[q])
  BY <1>1, <1>2, AppendFacts
<1>5. seen'[r] > 0 /\ seen'[r] \in {seen[r], seen[r] + 1}
  BY <1>1, <1>2, <1>3, AppendFacts
<1>6. Lives
  BY <1>3, <1>4 DEF Grows, Lives
<1>7. \A q \in Rows \ {r} : status'[q] = status[q] /\ seen'[q] = seen[q]
  BY <1>2, <1>4 DEF SetStatus
<1>8. RowSound(r)'
  <2>1. status'[r] \in {"done", "gone"}
    BY <1>2, <1>3 DEF IInv, HeldByOwner, SetStatus
  <2>2. seen'[r] <= crashes + 1
    <3>1. seen[r] <= crashes /\ crashes \in Nat /\ seen[r] \in Nat
      BY <1>1, <1>2, <1>3, <1>4, ConstantsAssumption DEF History, HeadSound, HeldSound, TypeOK
    <3> QED BY <1>5, <3>1
  <2> QED BY <1>2, <1>3, <1>5, <2>1, <2>2 DEF RowSound, Handled, Injectable
<1>9. HeadSound(h)'
  <2>1. \A q \in appended[h] : seen'[q] > 0
    <3> SUFFICES ASSUME NEW q \in appended[h] PROVE seen'[q] > 0
      OBVIOUS
    <3>1. q \in Rows /\ seen[q] > 0
      BY <1>1 DEF History, HeadSound, TypeOK
    <3> QED BY <1>4, <3>1
  <2>2. HeldSound(h)'
    <3> SUFFICES ASSUME NEW q \in held[h], q # r
                 PROVE  /\ kind[q] = "user_message" => seen'[q] <= crashes
                        /\ kind[q] \in Injectable /\ q \notin led => seen'[q] = 0
      BY <1>3 DEF HeldSound
    <3>1. q \in Rows /\ seen'[q] = seen[q]
      BY <1>1, <1>4 DEF TypeOK
    <3> QED BY <3>1 DEF History, HeadSound, HeldSound
  <2>3. PrimarySound(h)'
    <3>1. \A q \in Rows : Handled(q) => Handled(q)'
      BY <1>1, <1>6, HandledStays DEF Lives
    <3>2. primary[h] # NoRow => primary[h] \in Rows
      BY <1>1 DEF TypeOK
    <3> QED BY <1>3, <3>1, <3>2 DEF PrimarySound, Answering, History, HeadSound
  <2> QED BY <1>3, <2>1, <2>2, <2>3 DEF HeadSound
<1>10. Apart(h)
  BY <1>1, <1>2, <1>3 DEF BatchAppend, Goto, TypeOK, Apart
<1> QED BY <1>1, <1>3, <1>6, <1>7, <1>8, <1>9, <1>10, HeadStep DEF Apart

LEMMA BatchCommandSound ==
  ASSUME IInv, IInv', History, up, NEW h \in Heads, BatchCommand(h)
  PROVE  History'
<1>1. TypeOK /\ TypeOK'
  BY DEF IInv
<1>2. PICK r \in held[h] : /\ kind[r] = "command"
                           /\ ran' = ran \cup {r}
                           /\ status' = SetStatus({r}, "done")
                           /\ held' = [held EXCEPT ![h] = @ \ {r}]
  BY DEF BatchCommand
<1>3. /\ UNCHANGED <<kind, seen, muted, led, up, crashes, pc, primary, appended>>
      /\ held'[h] = held[h] \ {r} /\ r \in Rows /\ r \in InHand(h)
  BY <1>1, <1>2 DEF BatchCommand, table, process, TypeOK, InHand
<1>4. Lives
  <2>1. \A q \in Rows : seen'[q] >= seen[q]
    BY <1>1, <1>3, ConstantsAssumption DEF TypeOK, SeenCap
  <2> QED BY <1>2, <1>3, <2>1 DEF Grows, Lives
<1>5. \A q \in Rows \ {r} : status'[q] = status[q] /\ seen'[q] = seen[q]
  BY <1>2, <1>3 DEF SetStatus
<1>6. RowSound(r)'
  <2>1. status'[r] \in {"done", "gone"}
    BY <1>2, <1>3 DEF IInv, HeldByOwner, SetStatus
  <2> QED BY <1>2, <1>3, <2>1 DEF RowSound, Handled, Injectable
<1>7. HeadSound(h)'
  <2>1. HeldSound(h)'
    BY <1>3 DEF HeldSound, History, HeadSound
  <2>2. PrimarySound(h)'
    BY <1>2, <1>3 DEF PrimarySound, Handled, History, HeadSound
  <2> QED BY <1>3, <2>1, <2>2 DEF HeadSound, History
<1>8. Apart(h)
  BY <1>1, <1>2, <1>3 DEF TypeOK, Apart
<1> QED BY <1>1, <1>3, <1>4, <1>5, <1>6, <1>7, <1>8, HeadStep DEF Apart

\* The loop acknowledges its primary only past its effect.
LEMMA AckSound ==
  ASSUME IInv, IInv', History, up, NEW h \in Heads, Ack(h)
  PROVE  History'
<1>1. TypeOK /\ TypeOK'
  BY DEF IInv
<1>2. PICK r \in Rows : /\ r = primary[h] /\ r # NoRow /\ r \in InHand(h)
                        /\ pc[h] = "ack"
  BY <1>1 DEF Ack, IInv, BusyHasPrimary, TypeOK, InHand
<1>3. /\ UNCHANGED <<kind, seen, ran, muted, led, up, crashes, held, appended>>
      /\ status' = SetStatus({r}, "done")
      /\ primary'[h] = NoRow /\ pc'[h] = "idle"
  BY <1>1, <1>2 DEF Ack, table, ledger, process, Goto, TypeOK
<1>4. Lives
  <2>1. \A q \in Rows : seen'[q] >= seen[q]
    BY <1>1, <1>3, ConstantsAssumption DEF TypeOK, SeenCap
  <2> QED BY <1>3, <2>1 DEF Grows, Lives
<1>5. \A q \in Rows \ {r} : status'[q] = status[q] /\ seen'[q] = seen[q]
  BY <1>3 DEF SetStatus
<1>6. RowSound(r)'
  <2>1. status[r] \in {"processing", "gone"} /\ status'[r] \in {"done", "gone"}
    BY <1>2, <1>3 DEF IInv, HeldByOwner, SetStatus
  <2>2. kind[r] = "schedule_trigger" \/ Handled(r)
    BY <1>2 DEF History, HeadSound, PrimarySound, Answering
  <2>3. r \in led
    BY <1>2 DEF History, HeadSound, PrimarySound
  <2>4. RowSound(r)
    BY <1>2 DEF History
  <2> QED BY <1>3, <2>1, <2>2, <2>3, <2>4 DEF RowSound, Handled
<1>7. HeadSound(h)'
  BY <1>3 DEF HeadSound, HeldSound, PrimarySound, History
<1>8. Apart(h)
  BY <1>1, <1>3 DEF Ack, Goto, TypeOK, Apart
<1> QED BY <1>1, <1>2, <1>3, <1>4, <1>5, <1>6, <1>7, <1>8, HeadStep DEF Apart

\* What a failed activation had claimed beside its primary is forgotten, never
\* acknowledged; the primary is failed or kept for the retry.
LEMMA FailSound ==
  ASSUME IInv, IInv', History, up, NEW h \in Heads, HandlerFails(h) \/ BatchCommandFails(h)
  PROVE  History'
<1>1. TypeOK /\ TypeOK'
  BY DEF IInv
<1>2. PICK err \in Errors : Throw(h, err)
  BY DEF HandlerFails, BatchCommandFails
<1>3. UNCHANGED <<kind, seen, ran, muted, led, up, crashes, appended>>
  BY DEF HandlerFails, BatchCommandFails, table, ledger, process
<1>4. PICK r \in Rows : r = primary[h] /\ r # NoRow /\ r \in InHand(h)
  <2>1. pc[h] \in {"llm", "command", "trigger", "batch", "rebatch"}
    BY DEF HandlerFails, BatchCommandFails, InBatch
  <2> QED BY <1>1, <2>1 DEF IInv, BusyHasPrimary, TypeOK, InHand
<1>5. /\ held'[h] = {} /\ pc'[h] \in {"apology", "idle", "backoff"}
      /\ primary'[h] \in {r, NoRow}
      /\ status' = status \/ status' = SetStatus({r}, "failed")
      /\ Apart(h)
  BY <1>1, <1>2, <1>3, <1>4 DEF Throw, Goto, TypeOK, Apart
<1>6. Lives
  <2>1. \A q \in Rows : seen'[q] >= seen[q]
    BY <1>1, <1>3, ConstantsAssumption DEF TypeOK, SeenCap
  <2> QED BY <1>3, <2>1 DEF Grows, Lives
<1>7. \A q \in Rows \ {r} : status'[q] = status[q] /\ seen'[q] = seen[q]
  BY <1>3, <1>5 DEF SetStatus
<1>8. RowSound(r)'
  <2>1. status[r] \in {"processing", "gone"}
    BY <1>4 DEF IInv, HeldByOwner
  <2>2. status'[r] \in {"processing", "failed", "gone"}
    BY <1>5, <2>1 DEF SetStatus
  <2>3. r \in led /\ RowSound(r)
    BY <1>4 DEF History, HeadSound, PrimarySound
  <2> QED BY <1>3, <2>1, <2>2, <2>3 DEF RowSound
<1>9. HeadSound(h)'
  BY <1>3, <1>4, <1>5 DEF HeadSound, HeldSound, PrimarySound, History, Answering
<1> QED BY <1>1, <1>3, <1>4, <1>5, <1>6, <1>7, <1>8, <1>9, HeadStep DEF Apart

-----------------------------------------------------------------------------
(* The other steps *)

\* A step that only moves a loop on, to a place that promises no more than
\* where it was.
LEMMA QuietSound ==
  ASSUME IInv, IInv', History, up, NEW h \in Heads,
         \/ ClaimBlocked(h) \/ StopBlocked(h)
         \/ Answer(h) \/ BatchRerun(h) \/ Apologise(h)
  PROVE  History'
<1>1. TypeOK /\ TypeOK'
  BY DEF IInv
<1>2. UNCHANGED <<table, status, seen, ran, muted, led, up, crashes, primary, held, appended>>
  BY DEF ClaimBlocked, StopBlocked, Answer, BatchRerun, Apologise, ledger, process
<1>3. /\ pc'[h] # "stewards"
      /\ pc'[h] \in Answering => pc[h] \in Answering
  BY <1>1 DEF ClaimBlocked, StopBlocked, Answer, BatchRerun, Apologise, Goto, TypeOK, Answering
<1>4. Lives
  <2>1. \A q \in Rows : seen'[q] >= seen[q]
    BY <1>1, <1>2, ConstantsAssumption DEF TypeOK, SeenCap
  <2> QED BY <1>2, <2>1 DEF Grows, Lives, table
<1>5. HeadSound(h)'
  BY <1>2, <1>3 DEF HeadSound, HeldSound, PrimarySound, Handled, History, table
<1>6. \A g \in Heads : g # h => /\ pc'[g] = pc[g] /\ primary'[g] = primary[g]
                                /\ held'[g] = held[g] /\ appended'[g] = appended[g]
  BY <1>1, <1>2 DEF ClaimBlocked, StopBlocked, Answer, BatchRerun, Apologise, Goto, TypeOK
<1> QED BY <1>1, <1>2, <1>4, <1>5, <1>6, InsertSound

\* An insert gives no event of the table another kind.
LEMMA InsertKeepsKinds ==
  ASSUME IInv, \E g \in Heads, k \in Kinds : Insert(g, k)
  PROVE  \A r \in Rows : status[r] # "none" => kind'[r] = kind[r]
<1>1. rows \in Nat /\ rows + 1 \in Rows
  BY ConstantsAssumption DEF IInv, TypeOK, Insert
<1>2. status[rows + 1] = "none"
  BY <1>1 DEF IInv, RowsInOrder
<1>3. \A r \in Rows \ {rows + 1} : kind'[r] = kind[r]
  BY <1>1 DEF IInv, TypeOK, Insert
<1> QED BY <1>2, <1>3

\* A loop that goes to its acknowledgement with its memory as it was stays
\* sound, if its primary had its effect by now.
LEMMA HandInserted ==
  ASSUME IInv, TypeOK', Lives, NEW h \in Heads, HeadSound(h),
         UNCHANGED <<seen, primary, held, appended>>, pc'[h] = "ack",
         pc[h] \in Answering \/ primary[h] \in ran'
  PROVE  HeadSound(h)'
<1>1. TypeOK /\ InHand(h) \subseteq Rows
  BY InHandRows DEF IInv
<1>2. \A r \in InHand(h) : kind'[r] = kind[r]
  BY <1>1 DEF IInv, HeldByOwner, Lives, Grows
<1>3. \A r \in Rows : Handled(r) => Handled(r)'
  BY <1>1, HandledStays DEF Lives
<1>4. HeldSound(h)'
  BY <1>2 DEF HeldSound, HeadSound, InHand, Lives, Grows
<1>5. PrimarySound(h)'
  <2> SUFFICES ASSUME primary[h] # NoRow PROVE PrimarySound(h)'
    BY DEF PrimarySound
  <2>1. primary[h] \in Rows /\ kind'[primary[h]] = kind[primary[h]]
    BY <1>1, <1>2 DEF InHand, TypeOK
  <2> QED BY <1>3, <2>1 DEF PrimarySound, HeadSound, Handled, Lives, Grows
<1> QED BY <1>4, <1>5 DEF HeadSound

\* The reply is delivered: the primary had its effect before.
LEMMA DeliverSound ==
  ASSUME IInv, IInv', History, up, NEW h \in Heads, Deliver(h)
  PROVE  History'
<1>1. TypeOK /\ TypeOK'
  BY DEF IInv
<1>2. UNCHANGED <<seen, ran, muted, led, up, crashes, primary, held, appended>>
  BY DEF Deliver, ledger, process
<1>3. UNCHANGED <<table, status>> \/ \E g \in Heads, k \in Kinds : Insert(g, k)
  BY ConstantsAssumption DEF Deliver, Kinds
<1>4. Lives
  <2>1. \A q \in Rows : status[q] # "none" => kind'[q] = kind[q]
    BY <1>1, <1>3, InsertKeepsKinds DEF IInv, table
  <2>2. \A q \in Rows : seen'[q] >= seen[q]
    BY <1>1, <1>2, ConstantsAssumption DEF TypeOK, SeenCap
  <2> QED BY <1>2, <2>1, <2>2 DEF Grows, Lives
<1>5. pc[h] = "deliver" /\ pc'[h] = "ack"
  BY <1>1 DEF Deliver, Goto, TypeOK
<1>6. HeadSound(h)'
  BY <1>1, <1>2, <1>4, <1>5, HandInserted DEF History, Answering
<1>7. Apart(h)
  BY <1>1, <1>2 DEF Deliver, Goto, TypeOK, Apart
<1> QED BY <1>1, <1>2, <1>3, <1>4, <1>6, <1>7, InsertSound DEF Apart

\* A command or a trigger ran; a reminder that fires enqueues a message.
LEMMA HandlerDoneSound ==
  ASSUME IInv, IInv', History, up, NEW h \in Heads, HandlerDone(h)
  PROVE  History'
<1>1. TypeOK /\ TypeOK'
  BY DEF IInv
<1>2. UNCHANGED <<seen, muted, led, up, crashes, primary, held, appended>>
  BY DEF HandlerDone, process
<1>3. UNCHANGED <<table, status>> \/ \E g \in Heads, k \in Kinds : Insert(g, k)
  BY DEF HandlerDone, Kinds
<1>4. Lives /\ ran' = ran \cup {primary[h]}
  <2>1. \A q \in Rows : status[q] # "none" => kind'[q] = kind[q]
    BY <1>1, <1>3, InsertKeepsKinds DEF IInv, table
  <2>2. \A q \in Rows : seen'[q] >= seen[q]
    BY <1>1, <1>2, ConstantsAssumption DEF TypeOK, SeenCap
  <2> QED BY <1>2, <2>1, <2>2 DEF Grows, Lives, HandlerDone
<1>5. pc'[h] = "ack"
  BY <1>1 DEF HandlerDone, Goto, TypeOK
<1>6. HeadSound(h)'
  BY <1>1, <1>2, <1>4, <1>5, HandInserted DEF History
<1>7. Apart(h)
  BY <1>1, <1>2 DEF HandlerDone, Goto, TypeOK, Apart
<1> QED BY <1>1, <1>2, <1>3, <1>4, <1>6, <1>7, InsertSound DEF Apart

\* Steps beside the loops that leave table, history and memory alone.
LEMMA BesideSound ==
  ASSUME IInv, IInv', History,
         UNCHANGED <<table, status, ledger, up, crashes, memory>>
  PROVE  History'
<1> USE DEF table, ledger, memory
<1>1. \A r \in Rows : RowSound(r)'
  BY DEF History, RowSound, Handled
<1>2. \A h \in Heads : HeadSound(h)'
  BY DEF History, HeadSound, HeldSound, PrimarySound, Handled
<1> QED BY <1>1, <1>2 DEF History

LEMMA EnqueueSound ==
  ASSUME IInv, IInv', History, NEW h \in Heads, NEW k \in Inputs, Enqueue(h, k)
  PROVE  History'
<1>1. TypeOK /\ TypeOK' /\ k \in Kinds
  BY ConstantsAssumption DEF IInv
<1>2. Insert(h, k) /\ UNCHANGED <<seen, ran, muted, led, up, crashes, memory>> /\ up
  BY DEF Enqueue, ledger, process
<1>3. Lives
  <2>1. \A q \in Rows : status[q] # "none" => kind'[q] = kind[q]
    BY <1>1, <1>2, InsertKeepsKinds
  <2>2. \A q \in Rows : seen'[q] >= seen[q]
    BY <1>1, <1>2, ConstantsAssumption DEF TypeOK, SeenCap
  <2> QED BY <1>2, <2>1, <2>2 DEF Grows, Lives
<1>4. \A g \in Heads : /\ pc'[g] = pc[g] /\ primary'[g] = primary[g]
                       /\ held'[g] = held[g] /\ appended'[g] = appended[g]
  BY <1>2 DEF memory
<1>5. HeadSound(h)'
  BY <1>1, <1>2, <1>3, <1>4, HeadKept DEF History, Lives
<1> QED BY <1>1, <1>2, <1>3, <1>4, <1>5, InsertSound

\* A deleted row claims nothing about its effect any more.
LEMMA ResetSound ==
  ASSUME IInv, IInv', History, Reset
  PROVE  History'
<1>1. TypeOK /\ TypeOK' /\ UNCHANGED <<kind, seen, ran, muted, led, up, crashes, memory>>
  BY DEF IInv, Reset, table, ledger, process
<1>2. \A r \in Rows : RowSound(r)'
  <2> SUFFICES ASSUME NEW r \in Rows PROVE RowSound(r)'
    OBVIOUS
  <2>1. status'[r] = IF status[r] = "none" THEN "none" ELSE "gone"
    BY <1>1 DEF Reset, SetStatus
  <2>2. seen[r] \in Nat /\ crashes \in Nat /\ RowSound(r)
    BY <1>1, ConstantsAssumption DEF TypeOK, SeenCap, History
  <2> QED BY <1>1, <2>1, <2>2 DEF RowSound
<1>3. \A h \in Heads : HeadSound(h)'
  BY <1>1 DEF History, HeadSound, HeldSound, PrimarySound, Handled, memory
<1> QED BY <1>2, <1>3 DEF History

\* A death leaves every message to another life, and nothing in any hand.
LEMMA CrashSound ==
  ASSUME IInv, IInv', History, Crash \/ \E h \in Heads : CrashMidBatch(h)
  PROVE  History'
<1>1. TypeOK /\ TypeOK' /\ up /\ ~up' /\ crashes' = crashes + 1
      /\ UNCHANGED <<table, status, ran, muted, led>>
  BY DEF IInv, Crash, CrashMidBatch, Die, ledger
<1>2. \A r \in Rows : seen[r] \in Nat /\ crashes \in Nat
  BY <1>1, ConstantsAssumption DEF TypeOK, SeenCap
<1>3. \A r \in Rows : RowSound(r)'
  <2> SUFFICES ASSUME NEW r \in Rows PROVE RowSound(r)'
    OBVIOUS
  <2>1. CASE seen'[r] = seen[r]
    BY <1>1, <1>2, <2>1 DEF RowSound, History, Handled, table
  <2>2. CASE seen'[r] # seen[r]
    <3>1. PICK h \in Heads : \E q \in held[h] : kind[q] = "user_message" /\ Append({q})
      BY <2>2 DEF Crash, CrashMidBatch, ledger
    <3>2. PICK q \in held[h] : kind[q] = "user_message" /\ Append({q})
      BY <3>1
    <3>3. q = r /\ seen'[r] \in {seen[r], seen[r] + 1} /\ seen'[r] > 0
      BY <1>1, <2>2, <3>2, AppendFacts
    <3>4. seen[r] <= crashes /\ status[r] # "none"
      BY <3>2, <3>3 DEF History, HeadSound, HeldSound, IInv, HeldByOwner, InHand
    <3> QED BY <1>1, <1>2, <3>2, <3>3, <3>4 DEF RowSound, Handled, Injectable, table
  <2> QED BY <2>1, <2>2
<1>4. \A h \in Heads : HeadSound(h)'
  BY DEF Crash, CrashMidBatch, Die, Forget, HeadSound, HeldSound, PrimarySound
<1> QED BY <1>3, <1>4 DEF History

\* Recovery hands back only what the last life left unsettled.
LEMMA BootSound ==
  ASSUME IInv, IInv', History, Boot
  PROVE  History'
<1>1. TypeOK /\ TypeOK' /\ ~up /\ up' /\ status' = SetStatus(Stale, "pending")
      /\ UNCHANGED <<kind, seen, ran, muted, led, crashes, memory>>
  BY DEF IInv, Boot, table, ledger
<1>2. \A r \in Rows : RowSound(r)'
  <2> SUFFICES ASSUME NEW r \in Rows PROVE RowSound(r)'
    OBVIOUS
  <2>1. seen[r] \in Nat /\ crashes \in Nat /\ RowSound(r)
    BY <1>1, ConstantsAssumption DEF TypeOK, SeenCap, History
  <2>2. \/ status'[r] = status[r]
        \/ status[r] = "processing" /\ status'[r] = "pending"
    BY <1>1 DEF SetStatus, Stale
  <2> QED BY <1>1, <2>1, <2>2 DEF RowSound, Handled
<1>3. \A h \in Heads : HeadSound(h)'
  BY <1>1 DEF History, HeadSound, HeldSound, PrimarySound, Handled, memory
<1> QED BY <1>2, <1>3 DEF History

-----------------------------------------------------------------------------
(* Theorems *)

LEMMA InitHistory == Init => History
<1> SUFFICES ASSUME Init PROVE History OBVIOUS
<1>1. \A r \in Rows : RowSound(r)
  BY DEF Init, RowSound
<1>2. \A h \in Heads : HeadSound(h)
  BY DEF Init, HeadSound, HeldSound, PrimarySound
<1> QED BY <1>1, <1>2 DEF History

\* A loop runs in a live process.
LEMMA LoopLives == ASSUME DeadIsIdle, NEW h \in Heads, LoopStep(h) PROVE up
<1>1. pc[h] # "idle" \/ running[h]
  BY DEF LoopStep, Claim, ClaimBlocked, StopBlocked, HandlerDone, Suppress, Inject, Answer,
     BatchClaim, BatchAppend, BatchCommand, InBatch, BatchRerun, Deliver, Ack, HandlerFails,
     BatchCommandFails, Retry, Apologise
<1> QED BY <1>1 DEF DeadIsIdle

LEMMA HistoryStep ==
  ASSUME IInv, IInv', DeadIsIdle, History, [Next]_vars
  PROVE  History'
<1>1. CASE \E h \in Heads : LoopStep(h)
  BY <1>1, LoopLives, ClaimSound, RetrySound, BatchClaimSound, SuppressSound, InjectSound,
     BatchAppendSound, BatchCommandSound, AckSound, FailSound, QuietSound, DeliverSound,
     HandlerDoneSound DEF LoopStep
<1>2. CASE \E h \in Heads, k \in Inputs : Enqueue(h, k)
  BY <1>2, EnqueueSound
<1>3. CASE BudgetMoves \/ (\E h \in Heads : Stop(h)) \/ UNCHANGED vars
  <2>1. UNCHANGED <<table, status, ledger, up, crashes, memory>>
    BY <1>3 DEF BudgetMoves, Stop, vars, process
  <2> QED BY <2>1, BesideSound
<1>4. CASE Reset
  BY <1>4, ResetSound
<1>5. CASE Crash \/ \E h \in Heads : CrashMidBatch(h)
  BY <1>5, CrashSound
<1>6. CASE Boot
  BY <1>6, BootSound
<1> QED BY <1>1, <1>2, <1>3, <1>4, <1>5, <1>6 DEF Next

\* What the table says of an event and what the history holds of it agree in
\* every reachable state.
THEOREM HistoryKept == Spec => []History
<1>1. Init => History
  BY InitHistory
<1>2. IInv /\ IInv' /\ DeadIsIdle /\ History /\ [Next]_vars => History'
  BY HistoryStep
<1> QED BY <1>1, <1>2, Invariance, PTL DEF Spec

\* No event is acknowledged as done without its effect, whatever fails, is
\* retried, coalesced, suppressed or cut short by a crash.
THEOREM DoneIsHandled == Spec => []DoneMeansHandled
<1>1. History => DoneMeansHandled
  BY DEF History, RowSound, Handled, DoneMeansHandled
<1> QED BY <1>1, HistoryKept, PTL

\* No retry and no batch appends a user message twice in one life.
THEOREM MessagesOncePerLife == Spec => []AppendedOncePerLife
<1>1. TypeOK /\ History => AppendedOncePerLife
  <2> SUFFICES ASSUME TypeOK, History, NEW r \in Rows, kind[r] = "user_message"
               PROVE  seen[r] <= crashes + 1
    BY DEF AppendedOncePerLife
  <2>1. seen[r] \in Nat /\ crashes \in Nat
    BY ConstantsAssumption DEF TypeOK, SeenCap
  <2> QED BY <2>1 DEF History, RowSound
<1> QED BY <1>1, HistoryKept, TypeCorrect, PTL

\* A background event that was never primary enters the history at most once,
\* through any number of restarts.
THEOREM RidersInjectedOnce == Spec => []CoalescedOnce
<1>1. TypeOK /\ History => CoalescedOnce
  <2> SUFFICES ASSUME TypeOK, History, NEW r \in Rows, kind[r] \in Injectable, r \notin led
               PROVE  seen[r] <= 1
    BY DEF CoalescedOnce
  <2>1. seen[r] \in Nat
    BY ConstantsAssumption DEF TypeOK, SeenCap
  <2> QED BY <2>1 DEF History, RowSound
<1> QED BY <1>1, HistoryKept, TypeCorrect, PTL

-----------------------------------------------------------------------------
(* Arrival order *)

\* Where a loop can have claimed rows beside its primary, and where it has no
\* primary.
Placed(h) ==
  /\ held[h] # {} => pc[h] \in {"stewards", "batch", "rebatch"}
  /\ pc[h] \in {"idle", "blocked", "apology"} => primary[h] = NoRow

\* What waits in the queue of a head came after what its batch holds.
Queued(h) ==
  pc[h] \in {"batch", "rebatch"} => \A r \in held[h], q \in PendingUser(h) : r < q

Arrivals == \A h \in Heads : Placed(h) /\ Queued(h)

\* A step makes no row pending but one it inserts.
Settles ==
  \A r \in Rows :
    status'[r] = "pending" =>
      \/ status[r] = "pending" /\ headOf'[r] = headOf[r] /\ kind'[r] = kind[r]
      \/ r > rows

\* The handling of an event starts at one of four places, and only background
\* events take others along.
LEMMA BeginPlaces ==
  ASSUME TypeOK, NEW h \in Heads, NEW r \in Rows, NEW claimed, Begin(h, r, claimed)
  PROVE  /\ pc'[h] \in {"llm", "command", "trigger", "stewards"}
         /\ held'[h] # {} => pc'[h] = "stewards"
         /\ status' = SetStatus(claimed \cup Coalesced(h, r), "processing")
         /\ held'[h] = Coalesced(h, r)
<1>1. kind[r] \in Kinds
  BY DEF TypeOK
<1>2. pc'[h] = Entry(r) /\ held'[h] = Coalesced(h, r)
  BY DEF Begin, Goto, TypeOK
<1>3. Entry(r) \in {"llm", "command", "trigger", "stewards"}
  BY <1>1 DEF Entry, Kinds, Background, Injectable
<1>4. Coalesced(h, r) # {} => Entry(r) = "stewards"
  BY DEF Coalesced, Entry, Injectable
<1> QED BY <1>2, <1>3, <1>4 DEF Begin

\* A failed activation holds nothing beside its primary, and has a primary only
\* while it waits for the retry.
LEMMA ThrowPlaces ==
  ASSUME TypeOK, NEW h \in Heads, NEW err, Throw(h, err)
  PROVE  /\ held'[h] = {}
         /\ pc'[h] \in {"apology", "idle", "backoff"}
         /\ pc'[h] # "backoff" => primary'[h] = NoRow
         /\ pc'[h] = "backoff" => primary' = primary /\ status' = status
         /\ status' = status \/ status' = SetStatus({primary[h]}, "failed")
BY DEF Throw, Goto, TypeOK

\* handleEvent() begins for a claimed row or again for the primary.
LEMMA BeginOf ==
  ASSUME IInv, NEW h \in Heads, Claim(h) \/ Retry(h)
  PROVE  \E r \in Rows, S \in SUBSET Rows :
           /\ Begin(h, r, S) /\ primary' = [primary EXCEPT ![h] = r]
           /\ \/ S = {r} /\ Claim(h)
              \/ S = {} /\ r = primary[h] /\ Retry(h)
<1>1. CASE Claim(h)
  BY <1>1 DEF Claim
<1>2. CASE Retry(h)
  <2>1. primary[h] \in Rows /\ primary' = [primary EXCEPT ![h] = primary[h]]
    BY <1>2 DEF Retry, IInv, BusyHasPrimary, TypeOK
  <2> QED BY <1>2, <2>1 DEF Retry
<1> QED BY <1>1, <1>2

\* Every step of a loop keeps its claims where they belong.
LEMMA LoopPlaces ==
  ASSUME IInv, NEW h \in Heads, LoopStep(h), Placed(h)
  PROVE  Placed(h)'
<1>0. TypeOK
  BY DEF IInv
<1>1. CASE Claim(h) \/ Retry(h)
  BY <1>0, <1>1, BeginOf, BeginPlaces DEF Placed
<1>2. CASE HandlerFails(h) \/ BatchCommandFails(h)
  <2>1. PICK err \in Errors : Throw(h, err)
    BY <1>2 DEF HandlerFails, BatchCommandFails
  <2> QED BY <1>0, <2>1, ThrowPlaces DEF Placed
<1>3. CASE ClaimBlocked(h) \/ StopBlocked(h) \/ Answer(h) \/ BatchRerun(h) \/ Apologise(h)
           \/ Deliver(h) \/ HandlerDone(h) \/ Ack(h)
  BY <1>0, <1>3 DEF ClaimBlocked, StopBlocked, Answer, BatchRerun, Apologise, Deliver, HandlerDone,
     Ack, Goto, TypeOK, Placed
<1>4. CASE Suppress(h) \/ Inject(h)
  BY <1>0, <1>4 DEF Suppress, Inject, Goto, TypeOK, Placed
<1>5. CASE BatchClaim(h) \/ BatchAppend(h) \/ BatchCommand(h)
  BY <1>0, <1>5 DEF BatchClaim, BatchAppend, BatchCommand, InBatch, Goto, TypeOK, Placed
<1> QED BY <1>1, <1>2, <1>3, <1>4, <1>5 DEF LoopStep

\* A batch is what its claim left no younger, or what is left of it.
LEMMA BatchShrinks ==
  ASSUME IInv, NEW h \in Heads, LoopStep(h), Placed(h), pc'[h] \in {"batch", "rebatch"}
  PROVE  /\ kind' = kind /\ headOf' = headOf
         /\ \/ held'[h] = {} 
            \/ PendingUser(h)' = {}
            \/ pc[h] \in {"batch", "rebatch"} /\ held'[h] \subseteq held[h]
<1>0. TypeOK
  BY DEF IInv
<1>1. CASE Claim(h) \/ Retry(h)
  BY <1>0, <1>1, BeginOf, BeginPlaces
<1>2. CASE HandlerFails(h) \/ BatchCommandFails(h)
  BY <1>0, <1>2, ThrowPlaces DEF HandlerFails, BatchCommandFails
<1>3. CASE ClaimBlocked(h) \/ StopBlocked(h) \/ Answer(h) \/ BatchRerun(h) \/ Apologise(h)
           \/ Deliver(h) \/ HandlerDone(h) \/ Ack(h)
  BY <1>0, <1>3 DEF ClaimBlocked, StopBlocked, Answer, BatchRerun, Apologise, Deliver, HandlerDone,
     Ack, Goto, TypeOK, Placed, table
<1>4. CASE Suppress(h) \/ Inject(h)
  BY <1>0, <1>4 DEF Suppress, Inject, Goto, TypeOK
<1>5. CASE BatchClaim(h)
  <2>1. status' = SetStatus(PendingUser(h), "processing") /\ kind' = kind /\ headOf' = headOf
    BY <1>5 DEF BatchClaim, table
  <2>2. PendingUser(h)' = {}
    BY <2>1 DEF PendingUser, Pending, SetStatus
  <2> QED BY <2>1, <2>2
<1>6. CASE BatchAppend(h) \/ BatchCommand(h)
  <2>1. kind' = kind /\ headOf' = headOf /\ pc[h] \in {"batch", "rebatch"}
    BY <1>6 DEF BatchAppend, BatchCommand, InBatch, table
  <2>2. PICK r \in held[h] : held' = [held EXCEPT ![h] = @ \ {r}]
    BY <1>6 DEF BatchAppend, BatchCommand
  <2>3. held'[h] \subseteq held[h]
    BY <1>0, <2>2 DEF TypeOK
  <2> QED BY <2>1, <2>3
<1> QED BY <1>1, <1>2, <1>3, <1>4, <1>5, <1>6 DEF LoopStep

\* An UPDATE to any other status makes no row pending.
LEMMA UpdateSettles ==
  ASSUME TypeOK, NEW S, NEW v, v # "pending", status' = SetStatus(S, v), 
         kind' = kind, headOf' = headOf
  PROVE  Settles
BY DEF SetStatus, Settles

\* An INSERT makes only its own row pending.
LEMMA InsertSettles ==
  ASSUME TypeOK, NEW g, NEW k, Insert(g, k)
  PROVE  Settles
BY ConstantsAssumption DEF Insert, Settles, TypeOK

\* No loop hands a row back to the queue, and none touches another one's memory.
LEMMA LoopSettles ==
  ASSUME IInv, NEW h \in Heads, LoopStep(h)
  PROVE  Settles /\ Apart(h)
<1>0. TypeOK
  BY DEF IInv
<1>1. CASE Claim(h) \/ Retry(h)
  <2>1. PICK r \in Rows, S \in SUBSET Rows :
           Begin(h, r, S) /\ primary' = [primary EXCEPT ![h] = r]
    BY <1>1, BeginOf
  <2>2. kind' = kind /\ headOf' = headOf
    BY <1>1 DEF Claim, Retry, table
  <2>3. Settles
    BY <1>0, <2>1, <2>2, BeginPlaces, UpdateSettles
  <2> QED BY <1>0, <2>1, <2>3 DEF Begin, Goto, Apart, TypeOK
<1>2. CASE HandlerFails(h) \/ BatchCommandFails(h)
  <2>1. PICK err \in Errors : Throw(h, err)
    BY <1>2 DEF HandlerFails, BatchCommandFails
  <2>2. kind' = kind /\ headOf' = headOf /\ appended' = appended
    BY <1>2 DEF HandlerFails, BatchCommandFails, table
  <2>3. status' = status \/ status' = SetStatus({primary[h]}, "failed")
    BY <1>0, <2>1, ThrowPlaces
  <2>4. Settles
    BY <1>0, <2>2, <2>3, UpdateSettles DEF Settles
  <2> QED BY <1>0, <2>1, <2>2, <2>4 DEF Throw, Goto, Apart, TypeOK
<1>3. CASE ClaimBlocked(h) \/ StopBlocked(h) \/ Answer(h) \/ BatchRerun(h) \/ Apologise(h)
  BY <1>0, <1>3 DEF ClaimBlocked, StopBlocked, Answer, BatchRerun, Apologise, Goto, TypeOK,
     Settles, Apart, table
<1>4. CASE Deliver(h) \/ HandlerDone(h)
  <2>1. UNCHANGED <<table, status>> \/ \E g, k : Insert(g, k)
    BY <1>4 DEF Deliver, HandlerDone
  <2>2. Settles
    BY <1>0, <2>1, InsertSettles DEF Settles, table
  <2> QED BY <1>0, <1>4, <2>2 DEF Deliver, HandlerDone, Goto, TypeOK, Apart
<1>5. CASE Ack(h) \/ Suppress(h) \/ Inject(h) \/ BatchClaim(h) \/ BatchAppend(h) \/ BatchCommand(h)
  <2>1. kind' = kind /\ headOf' = headOf
    BY <1>5 DEF Ack, Suppress, Inject, BatchClaim, BatchAppend, BatchCommand, table
  <2>2. \E S : status' = SetStatus(S, "done") \/ status' = SetStatus(S, "processing")
    BY <1>5 DEF Ack, Suppress, Inject, BatchClaim, BatchAppend, BatchCommand
  <2>3. Settles
    BY <1>0, <2>1, <2>2, UpdateSettles
  <2>4. Apart(h)
    BY <1>0, <1>5 DEF Ack, Suppress, Inject, BatchClaim, BatchAppend, BatchCommand, Goto, TypeOK, Apart
  <2> QED BY <2>3, <2>4
<1> QED BY <1>1, <1>2, <1>3, <1>4, <1>5 DEF LoopStep

\* A head whose loop a step leaves alone keeps its order.
LEMMA QueuedKept ==
  ASSUME IInv, Settles, NEW g \in Heads, Queued(g),
         \/ pc'[g] \notin {"batch", "rebatch"}
         \/ held'[g] = {} 
         \/ PendingUser(g)' = {}
         \/ pc[g] \in {"batch", "rebatch"} /\ held'[g] \subseteq held[g]
  PROVE  Queued(g)'
<1> SUFFICES ASSUME pc[g] \in {"batch", "rebatch"}, NEW r \in held[g], NEW q \in PendingUser(g)'
             PROVE  r < q
  BY DEF Queued
<1>1. r \in Rows /\ q \in Rows /\ status'[q] = "pending" /\ rows \in Nat
  BY ConstantsAssumption DEF IInv, TypeOK, PendingUser, Pending
<1>2. CASE status[q] = "pending" /\ headOf'[q] = headOf[q] /\ kind'[q] = kind[q]
  <2>1. q \in PendingUser(g)
    BY <1>2 DEF PendingUser, Pending
  <2> QED BY <2>1 DEF Queued
<1>3. CASE q > rows
  <2>1. status[r] \in {"processing", "gone"}
    BY DEF IInv, HeldByOwner, InHand
  <2>2. r <= rows
    BY <1>1, <2>1 DEF IInv, RowsInOrder
  <2> QED BY <1>1, <1>3, <2>2
<1> QED BY <1>1, <1>2, <1>3 DEF Settles

\* Every step keeps claims in their places and batches older than the queue.
LEMMA ArrivalsStep ==
  ASSUME IInv, DeadIsIdle, Arrivals, [Next]_vars
  PROVE  Arrivals'
<1>0. TypeOK
  BY DEF IInv
<1>1. ASSUME NEW h \in Heads, LoopStep(h) PROVE Arrivals'
  <2>1. Settles /\ Apart(h)
    BY <1>1, LoopSettles
  <2>2. Placed(h)' /\ Queued(h)'
    BY <1>1, <2>1, LoopPlaces, BatchShrinks, QueuedKept DEF Arrivals
  <2>3. \A g \in Heads : g # h => Placed(g)' /\ Queued(g)'
    <3> SUFFICES ASSUME NEW g \in Heads, g # h PROVE Placed(g)' /\ Queued(g)'
      OBVIOUS
    <3>1. pc'[g] = pc[g] /\ held'[g] = held[g] /\ primary'[g] = primary[g]
      BY <2>1 DEF Apart
    <3>2. Queued(g)'
      BY <2>1, <3>1, QueuedKept DEF Arrivals
    <3> QED BY <3>1, <3>2 DEF Arrivals, Placed
  <2> QED BY <2>2, <2>3 DEF Arrivals
<1>2. CASE UNCHANGED memory /\ Settles
  <2>1. \A g \in Heads : pc'[g] = pc[g] /\ held'[g] = held[g] /\ primary'[g] = primary[g]
    BY <1>2 DEF memory
  <2>2. \A g \in Heads : Queued(g)'
    BY <1>2, <2>1, QueuedKept DEF Arrivals
  <2> QED BY <2>1, <2>2 DEF Arrivals, Placed
<1>3. CASE Die \/ Boot
  <2>1. \A g \in Heads : pc'[g] = "idle" /\ held'[g] = {} /\ primary'[g] = NoRow
    BY <1>0, <1>3 DEF Die, Boot, Forget, DeadIsIdle, InHand, memory, TypeOK
  <2> QED BY <2>1 DEF Arrivals, Placed, Queued
<1>4. CASE \E h \in Heads, k \in Inputs : Enqueue(h, k)
  BY <1>0, <1>2, <1>4, InsertSettles DEF Enqueue
<1>5. CASE Reset
  BY <1>0, <1>2, <1>5, UpdateSettles DEF Reset, table
<1>6. CASE BudgetMoves \/ (\E h \in Heads : Stop(h)) \/ UNCHANGED vars
  <2>1. Settles /\ UNCHANGED memory
    BY <1>6 DEF BudgetMoves, Stop, vars, table, Settles
  <2> QED BY <1>2, <2>1
<1> QED BY <1>1, <1>3, <1>4, <1>5, <1>6 DEF Next, Crash, CrashMidBatch

\* At the start no loop holds anything.
LEMMA ArrivalsInit == Init => Arrivals
BY DEF Init, Arrivals, Placed, Queued

\* A step that appends a message of the user leaves no older one waiting: a
\* fresh primary is the oldest pending row of its priority, a batched row is the
\* oldest of its batch, and a retry appends nothing.
LEMMA AppendInOrder ==
  ASSUME IInv, IInv', DeadIsIdle, History, Arrivals, [Next]_vars,
         NEW q \in Rows, NEW r \in Rows,
         q < r, headOf[q] = headOf[r], kind[q] = "user_message", kind[r] = "user_message",
         seen'[r] > seen[r]
  PROVE  status'[q] # "pending" /\ q \notin held'[headOf[q]]
<1>0. TypeOK /\ seen[r] \in Nat
  <2>1. TypeOK
    BY DEF IInv
  <2> QED BY <2>1, ConstantsAssumption DEF TypeOK, SeenCap
<1>1. ASSUME NEW S, Append(S) PROVE r \in S
  BY <1>0, <1>1 DEF Append
<1> DEFINE h == headOf[q]
<1>2. ASSUME NEW g \in Heads, Claim(g) \/ Retry(g)
      PROVE  status'[q] # "pending" /\ q \notin held'[h]
  <2>1. PICK p \in Rows, S \in SUBSET Rows :
           /\ Begin(g, p, S) /\ primary' = [primary EXCEPT ![g] = p]
           /\ \/ S = {p} /\ Claim(g)
              \/ S = {} /\ p = primary[g] /\ Retry(g)
    BY <1>2, BeginOf
  <2>2. p = r /\ r \notin appended[g]
    BY <1>1, <2>1 DEF Begin
  <2>3. Claim(g)
    <3> SUFFICES ASSUME p = primary[g] PROVE FALSE
      BY <2>1
    <3>1. PrimarySound(g)
      BY DEF History, HeadSound
    <3> QED BY <2>2, <3>1 DEF PrimarySound
  <2>4. IsNext(g, r)
    <3>1. PICK p2 \in Rows : IsNext(g, p2) /\ primary' = [primary EXCEPT ![g] = p2]
      BY <2>3 DEF Claim
    <3>2. p2 = p
      BY <1>0, <2>1, <3>1 DEF TypeOK
    <3> QED BY <2>2, <3>1, <3>2
  <2>5. h = g
    BY <2>4 DEF IsNext, Pending
  <2>6. status[q] # "pending"
    <3> SUFFICES ASSUME status[q] = "pending" PROVE FALSE
      OBVIOUS
    <3>1. q \in Pending(g)
      BY <2>5 DEF Pending
    <3>2. Priority["user_message"] = 100
      BY DEF Priority, Kinds
    <3> QED BY <2>4, <3>1, <3>2 DEF IsNext
  <2>7. held'[g] = {} /\ status' = SetStatus(S \cup {}, "processing")
    BY <1>0, <2>1, <2>2, BeginPlaces DEF Coalesced, Injectable
  <2> QED BY <2>5, <2>6, <2>7 DEF SetStatus
<1>3. ASSUME NEW g \in Heads, NEW p \in held[g], InBatch(g, p), Append({p})
      PROVE  status[q] # "pending" /\ g = h /\ q \notin held[g]
  <2>1. p = r
    BY <1>1, <1>3
  <2>2. headOf[r] = g
    BY <2>1 DEF IInv, HeldByOwner, InHand
  <2>3. q \notin held[g]
    BY <1>3, <2>1 DEF InBatch
  <2>4. q \notin PendingUser(g)
    BY <1>3, <2>1 DEF InBatch, Arrivals, Queued
  <2> QED BY <2>2, <2>3, <2>4 DEF PendingUser, Pending, FromUser
<1>4. ASSUME NEW g \in Heads, BatchAppend(g)
      PROVE  status'[q] # "pending" /\ q \notin held'[h]
  <2>1. PICK p \in held[g] : /\ InBatch(g, p) /\ Append({p})
                             /\ status' = SetStatus({p}, "done")
                             /\ held' = [held EXCEPT ![g] = @ \ {p}]
    BY <1>4 DEF BatchAppend
  <2>2. status[q] # "pending" /\ g = h /\ q \notin held[g]
    BY <1>3, <2>1
  <2> QED BY <1>0, <2>1, <2>2 DEF SetStatus, TypeOK
<1>5. ASSUME NEW g \in Heads, CrashMidBatch(g)
      PROVE  status'[q] # "pending" /\ q \notin held'[h]
  <2>1. PICK p \in held[g] : InBatch(g, p) /\ Append({p})
    BY <1>5 DEF CrashMidBatch
  <2>2. status[q] # "pending" /\ g = h
    BY <1>3, <2>1
  <2>3. status' = status /\ held'[h] = {}
    BY <1>5, <2>2 DEF CrashMidBatch, Die, Forget
  <2> QED BY <2>2, <2>3
<1>6. ASSUME NEW g \in Heads, Inject(g) PROVE FALSE
  <2>1. PICK S \in Verdicts(g) : Append({p \in InHand(g) \ S : kind[p] \in Injectable})
    BY <1>6 DEF Inject
  <2>2. kind[r] \in Injectable
    BY <1>1, <2>1
  <2> QED BY <2>2 DEF Injectable
<1>7. \/ \E g \in Heads : \/ Claim(g) \/ Retry(g) \/ BatchAppend(g) \/ Inject(g)
                            \/ CrashMidBatch(g)
      \/ seen' = seen
  BY DEF Next, LoopStep, ClaimBlocked, StopBlocked, HandlerDone, Suppress, Answer, BatchClaim,
     BatchCommand, BatchRerun, Deliver, Ack, HandlerFails, BatchCommandFails, Apologise,
     Enqueue, Stop, BudgetMoves, Reset, Crash, Boot, vars, ledger
<1> QED BY <1>0, <1>2, <1>4, <1>5, <1>6, <1>7

\* A batch is older than the queue it was taken from, in every reachable state.
THEOREM ArrivalsKept == Spec => []Arrivals
<1>1. IInv /\ DeadIsIdle /\ Arrivals /\ [Next]_vars => Arrivals'
  BY ArrivalsStep
<1> QED BY <1>1, ArrivalsInit, Invariance, PTL DEF Spec

\* Messages of one head enter its history in the order they arrived, through
\* batches, retries and crashes.
THEOREM InArrivalOrder == Spec => ArrivalOrder
<1>1. IInv /\ IInv' /\ DeadIsIdle /\ History /\ Arrivals /\ [Next]_vars
      => [\A q, r \in Rows :
            /\ q < r /\ headOf[q] = headOf[r]
            /\ kind[q] = "user_message" /\ kind[r] = "user_message"
            /\ seen'[r] > seen[r]
            => status'[q] # "pending" /\ q \notin held'[headOf[q]]]_vars
  BY AppendInOrder
<1> QED BY <1>1, Invariance, HistoryKept, ArrivalsKept, PTL DEF Spec, ArrivalOrder


-----------------------------------------------------------------------------
(* Rows left in 'processing' *)

\* What a loop claimed at once beside its primary: ~reset deletes all of it or
\* nothing, and a batch is what users sent.
Together(h) ==
  /\ (\A r \in held[h] : status[r] = "processing") \/ (\A r \in held[h] : status[r] = "gone")
  /\ pc[h] \in {"batch", "rebatch"} => \A r \in held[h] : kind[r] \in FromUser

\* An event that was primary is in the table.
LedKnown == \A r \in led : r \in Rows /\ r <= rows

Batches == LedKnown /\ \A h \in Heads : Together(h)

\* The table grows at its end: rows that are there keep their head and kind.
Extends ==
  /\ rows' >= rows
  /\ \A r \in Rows : r <= rows => headOf'[r] = headOf[r] /\ kind'[r] = kind[r]

\* A row of which a loop has nothing in hand, and that does not wait, is none of
\* its business.
LEMMA LeftAlone ==
  ASSUME IInv, NEW h \in Heads, LoopStep(h), NEW r \in Rows,
         status[r] \in {"processing", "gone"}, r \notin InHand(h)
  PROVE  status'[r] = status[r] /\ r \notin InHand(h)'
<1>0. TypeOK /\ InHand(h) \subseteq Rows
  BY InHandRows DEF IInv
<1>1. CASE Claim(h) \/ Retry(h)
  <2>1. PICK p \in Rows, S \in SUBSET Rows :
           /\ Begin(h, p, S) /\ primary' = [primary EXCEPT ![h] = p]
           /\ \/ S = {p} /\ Claim(h)
              \/ S = {} /\ p = primary[h] /\ Retry(h)
    BY <1>1, BeginOf
  <2>2. status' = SetStatus(S \cup held'[h], "processing") /\ held'[h] = Coalesced(h, p)
    BY <1>0, <2>1, BeginPlaces
  <2>3. r \notin Coalesced(h, p)
    BY DEF Coalesced, PendingBackground, Pending
  <2>4. r # p
    <3>1. CASE Claim(h)
      <4>1. PICK p2 \in Rows : IsNext(h, p2) /\ primary' = [primary EXCEPT ![h] = p2]
        BY <3>1 DEF Claim
      <4>2. p2 = p
        BY <1>0, <2>1, <4>1 DEF TypeOK
      <4> QED BY <4>1, <4>2 DEF IsNext, Pending
    <3>2. CASE p = primary[h]
      BY <3>2 DEF InHand
    <3> QED BY <2>1, <3>1, <3>2
  <2>5. InHand(h)' = Coalesced(h, p) \cup {p}
    BY <1>0, <2>1, <2>2 DEF InHand, TypeOK
  <2> QED BY <2>1, <2>2, <2>3, <2>4, <2>5 DEF SetStatus
<1>2. CASE HandlerFails(h) \/ BatchCommandFails(h)
  <2>1. PICK err \in Errors : Throw(h, err)
    BY <1>2 DEF HandlerFails, BatchCommandFails
  <2>2. /\ held'[h] = {} /\ primary'[h] \in {primary[h], NoRow}
        /\ status' = status \/ status' = SetStatus({primary[h]}, "failed")
    BY <1>0, <2>1, ThrowPlaces
  <2>3. r # primary[h]
    BY DEF InHand
  <2>4. status'[r] = status[r]
    BY <2>2, <2>3 DEF SetStatus
  <2> QED BY <2>2, <2>3, <2>4 DEF InHand
<1>3. CASE \/ ClaimBlocked(h) \/ StopBlocked(h) \/ Answer(h) \/ BatchRerun(h) \/ Apologise(h)
           \/ Deliver(h) \/ HandlerDone(h)
  <2>1. held' = held /\ primary' = primary
    BY <1>3 DEF ClaimBlocked, StopBlocked, Answer, BatchRerun, Apologise, Deliver, HandlerDone
  <2>2. status' = status \/ status' = [status EXCEPT ![rows + 1] = "pending"]
    BY <1>3 DEF ClaimBlocked, StopBlocked, Answer, BatchRerun, Apologise, Deliver, HandlerDone,
       Insert
  <2>3. r <= rows /\ rows \in Nat /\ r \in Nat
    BY <1>0, ConstantsAssumption DEF IInv, RowsInOrder, TypeOK
  <2>4. r # rows + 1
    BY <2>3
  <2>5. status'[r] = status[r]
    <3>1. status \in [Rows -> Lifecycle]
      BY <1>0 DEF TypeOK
    <3> QED BY <2>2, <2>4, <3>1
  <2> QED BY <2>1, <2>5 DEF InHand
<1>4. CASE Suppress(h)
  <2>1. PICK S \in Verdicts(h) : status' = SetStatus(held[h] \cap S, "done")
    BY <1>4 DEF Suppress
  <2>2. held'[h] = {} /\ primary' = primary
    BY <1>0, <1>4 DEF Suppress, TypeOK
  <2>3. r \notin held[h] \cap S /\ r # primary[h]
    BY DEF InHand
  <2>4. status'[r] = status[r]
    BY <2>1, <2>3 DEF SetStatus
  <2> QED BY <2>2, <2>3, <2>4 DEF InHand
<1>5. CASE Inject(h)
  <2>1. status' = SetStatus(held[h], "done") /\ primary' = primary /\ held'[h] = {}
    BY <1>0, <1>5 DEF Inject, TypeOK
  <2> QED BY <2>1 DEF InHand, SetStatus
<1>6. CASE BatchClaim(h)
  <2>1. /\ status' = SetStatus(PendingUser(h), "processing") /\ primary' = primary
        /\ held'[h] = PendingUser(h)
    BY <1>0, <1>6 DEF BatchClaim, TypeOK
  <2> QED BY <2>1 DEF InHand, SetStatus, PendingUser, Pending
<1>7. CASE BatchAppend(h) \/ BatchCommand(h)
  <2>1. PICK q \in held[h] : /\ status' = SetStatus({q}, "done")
                             /\ held' = [held EXCEPT ![h] = @ \ {q}]
    BY <1>7 DEF BatchAppend, BatchCommand
  <2>2. primary' = primary /\ held'[h] = held[h] \ {q}
    BY <1>0, <1>7, <2>1 DEF BatchAppend, BatchCommand, TypeOK
  <2> QED BY <2>1, <2>2 DEF InHand, SetStatus
<1>8. CASE Ack(h)
  <2>1. status' = SetStatus({primary[h]}, "done") /\ held' = held /\ primary'[h] = NoRow
    BY <1>0, <1>8 DEF Ack, TypeOK
  <2> QED BY <2>1 DEF InHand, SetStatus
<1> QED BY <1>1, <1>2, <1>3, <1>4, <1>5, <1>6, <1>7, <1>8 DEF LoopStep

\* Whatever happens, what was recorded of an event stays.
LEMMA TableExtends ==
  ASSUME IInv, [Next]_vars
  PROVE  Extends /\ muted \subseteq muted' /\ led \subseteq led'
<1>1. UNCHANGED table \/ \E g \in Heads, k \in Kinds : Insert(g, k)
  <2>1. Inputs \subseteq Kinds /\ "user_message" \in Kinds /\ DefaultHead \in Heads
        /\ "agent_event" \in Kinds
    BY ConstantsAssumption DEF Kinds, Background
  <2> QED BY <2>1 DEF Next, LoopStep, Claim, Retry, ClaimBlocked, StopBlocked, HandlerDone,
        Suppress, Inject, Answer, BatchClaim, BatchAppend, BatchCommand, BatchRerun, Deliver, Ack,
        HandlerFails, BatchCommandFails, Apologise, Enqueue, Stop, BudgetMoves, Reset, Crash,
        CrashMidBatch, Die, Boot, vars, table
<1>2. Extends
  BY <1>1, ConstantsAssumption DEF Extends, Insert, table, IInv, TypeOK
<1>3. muted \subseteq muted' /\ led \subseteq led'
  BY DEF Next, LoopStep, Claim, Retry, ClaimBlocked, StopBlocked, HandlerDone,
     Suppress, Inject, Answer, BatchClaim, BatchAppend, BatchCommand, BatchRerun, Deliver, Ack,
     HandlerFails, BatchCommandFails, Apologise, Enqueue, Stop, BudgetMoves, Reset, Crash,
     CrashMidBatch, Die, Boot, vars, ledger
<1> QED BY <1>2, <1>3

\* What a loop has in hand is in the table.
LEMMA HandKnown ==
  ASSUME IInv, NEW h \in Heads, NEW r \in InHand(h)
  PROVE  r \in Rows /\ r <= rows /\ headOf[r] = h /\ status[r] \in {"processing", "gone"}
<1>1. r \in Rows /\ headOf[r] = h /\ status[r] \in {"processing", "gone"}
  BY InHandRows DEF IInv, HeldByOwner
<1>2. r <= rows
  BY <1>1, ConstantsAssumption DEF IInv, RowsInOrder, TypeOK
<1> QED BY <1>1, <1>2

\* A loop's own claims stay together.
LEMMA OwnTogether ==
  ASSUME IInv, Extends, NEW h \in Heads, LoopStep(h), Placed(h), Together(h)
  PROVE  Together(h)'
<1>0. TypeOK /\ held[h] \subseteq Rows /\ \A r \in held[h] : kind'[r] = kind[r]
  <2>1. \A r \in held[h] : r \in Rows /\ r <= rows
    BY HandKnown DEF InHand
  <2> QED BY <2>1 DEF IInv, Extends
<1>1. CASE held'[h] = {}
  BY <1>1 DEF Together
<1>2. CASE Claim(h) \/ Retry(h)
  <2>1. PICK p \in Rows, S \in SUBSET Rows : Begin(h, p, S)
    BY <1>2, BeginOf
  <2>2. /\ status' = SetStatus(S \cup Coalesced(h, p), "processing")
        /\ held'[h] = Coalesced(h, p) /\ pc'[h] \notin {"batch", "rebatch"}
    BY <1>0, <2>1, BeginPlaces
  <2>3. \A r \in Coalesced(h, p) : r \in Rows /\ status[r] = "pending"
    BY DEF Coalesced, PendingBackground, Pending
  <2> QED BY <2>2, <2>3 DEF Together, SetStatus
<1>3. CASE BatchClaim(h)
  <2>1. /\ status' = SetStatus(PendingUser(h), "processing") /\ held'[h] = PendingUser(h)
        /\ kind' = kind
    BY <1>0, <1>3 DEF BatchClaim, TypeOK, table
  <2>2. \A r \in PendingUser(h) : r \in Rows /\ status[r] = "pending" /\ kind[r] \in FromUser
    BY DEF PendingUser, Pending
  <2> QED BY <2>1, <2>2 DEF Together, SetStatus
<1>4. CASE BatchAppend(h) \/ BatchCommand(h)
  <2>1. PICK q \in held[h] : /\ status' = SetStatus({q}, "done")
                             /\ held' = [held EXCEPT ![h] = @ \ {q}]
    BY <1>4 DEF BatchAppend, BatchCommand
  <2>2. held'[h] = held[h] \ {q} /\ pc[h] \in {"batch", "rebatch"}
    BY <1>0, <1>4, <2>1 DEF BatchAppend, BatchCommand, InBatch, TypeOK
  <2>3. \A r \in held'[h] : status'[r] = status[r]
    BY <1>0, <2>1, <2>2 DEF SetStatus
  <2> QED BY <1>0, <2>2, <2>3 DEF Together
<1>5. CASE Suppress(h) \/ Inject(h) \/ HandlerFails(h) \/ BatchCommandFails(h)
  <2>1. held'[h] = {}
    <3>1. CASE Suppress(h) \/ Inject(h)
      BY <1>0, <3>1 DEF Suppress, Inject, TypeOK
    <3>2. CASE HandlerFails(h) \/ BatchCommandFails(h)
      BY <1>0, <3>2, ThrowPlaces DEF HandlerFails, BatchCommandFails
    <3> QED BY <1>5, <3>1, <3>2
  <2> QED BY <1>1, <2>1
<1>6. CASE \/ ClaimBlocked(h) \/ StopBlocked(h) \/ Answer(h) \/ BatchRerun(h) \/ Apologise(h)
           \/ Deliver(h) \/ HandlerDone(h) \/ Ack(h)
  <2>1. held' = held
    BY <1>6 DEF ClaimBlocked, StopBlocked, Answer, BatchRerun, Apologise, Deliver, HandlerDone, Ack
  <2>2. held[h] = {} \/ pc[h] \in {"batch", "rebatch", "stewards"}
    BY DEF Placed
  <2>3. pc[h] \in {"batch", "rebatch", "stewards"} => held[h] = {}
    <3> SUFFICES ASSUME pc[h] \in {"batch", "rebatch", "stewards"} PROVE held[h] = {}
      OBVIOUS
    <3>1. BatchRerun(h)
      BY <1>6 DEF ClaimBlocked, StopBlocked, Answer, Apologise, Deliver, HandlerDone, Ack
    <3> QED BY <3>1 DEF BatchRerun
  <2> QED BY <1>1, <2>1, <2>2, <2>3
<1> QED BY <1>2, <1>3, <1>4, <1>5, <1>6 DEF LoopStep

\* So do everybody else's, whoever does something.
LEMMA BatchesStep ==
  ASSUME IInv, IInv', DeadIsIdle, Arrivals, Batches, [Next]_vars
  PROVE  Batches'
<1>0. TypeOK /\ TypeOK' /\ Extends
  BY TableExtends DEF IInv
<1>1. LedKnown'
  <2>1. led' = led \/ \E h \in Heads : Claim(h)
    BY DEF Next, LoopStep, Retry, ClaimBlocked, StopBlocked, HandlerDone,
     Suppress, Inject, Answer, BatchClaim, BatchAppend, BatchCommand, BatchRerun, Deliver, Ack,
     HandlerFails, BatchCommandFails, Apologise, Enqueue, Stop, BudgetMoves, Reset, Crash,
     CrashMidBatch, Die, Boot, vars, ledger
  <2>2. rows \in Nat /\ rows' \in Nat /\ rows <= rows' /\ \A r \in Rows : r \in Nat
    BY <1>0, ConstantsAssumption DEF Extends, TypeOK
  <2>3. CASE led' = led
    BY <2>2, <2>3 DEF LedKnown, Batches
  <2>4. ASSUME NEW h \in Heads, Claim(h) PROVE LedKnown'
    <3>1. PICK r \in Rows : IsNext(h, r) /\ led' = led \cup {r}
      BY <2>4 DEF Claim
    <3>2. r <= rows
      BY <2>2, <3>1 DEF IsNext, Pending, IInv, RowsInOrder
    <3> QED BY <2>2, <3>1, <3>2 DEF LedKnown, Batches
  <2> QED BY <2>1, <2>3, <2>4
<1>2. ASSUME NEW g \in Heads, held'[g] = {} PROVE Together(g)'
  BY <1>2 DEF Together
<1>3. ASSUME NEW g \in Heads, held'[g] = held[g], pc'[g] = pc[g],
             \A r \in held[g] : status'[r] = status[r]
      PROVE  Together(g)'
  <2>1. \A r \in held[g] : kind'[r] = kind[r]
    BY <1>0, HandKnown DEF Extends, InHand
  <2> QED BY <1>3, <2>1 DEF Together, Batches
<1>4. ASSUME NEW h \in Heads, LoopStep(h), NEW g \in Heads PROVE Together(g)'
  <2>1. CASE g = h
    BY <1>0, <1>4, <2>1, OwnTogether DEF Arrivals, Batches
  <2>2. CASE g # h
    <3>1. Apart(h)
      BY <1>4, LoopSettles
    <3>2. \A r \in held[g] : status'[r] = status[r]
      <4> SUFFICES ASSUME NEW r \in held[g] PROVE status'[r] = status[r]
        OBVIOUS
      <4>1. r \in Rows /\ headOf[r] = g /\ status[r] \in {"processing", "gone"}
        BY HandKnown DEF InHand
      <4>2. r \notin InHand(h)
        BY <2>2, <4>1, HandKnown
      <4> QED BY <1>4, <4>1, <4>2, LeftAlone
    <3> QED BY <1>3, <2>2, <3>1, <3>2 DEF Apart
  <2> QED BY <2>1, <2>2
<1>5. ASSUME UNCHANGED memory, NEW g \in Heads,
             \/ \A r \in Rows : r <= rows => status'[r] = status[r]
             \/ Reset
      PROVE  Together(g)'
  <2>1. \A r \in held[g] : r \in Rows /\ r <= rows /\ kind'[r] = kind[r]
                           /\ status[r] \in {"processing", "gone"}
    BY <1>0, HandKnown DEF Extends, InHand
  <2>2. held'[g] = held[g] /\ pc'[g] = pc[g]
    BY <1>5 DEF memory
  <2>3. CASE \A r \in Rows : r <= rows => status'[r] = status[r]
    BY <1>3, <2>1, <2>2, <2>3
  <2>4. CASE Reset
    <3>1. \A r \in held[g] : status'[r] = "gone"
      BY <2>1, <2>4 DEF Reset, SetStatus
    <3> QED BY <2>1, <2>2, <3>1 DEF Together, Batches
  <2> QED BY <1>5, <2>3, <2>4
<1>6. CASE \E h \in Heads, k \in Inputs : Enqueue(h, k)
  <2>1. UNCHANGED memory /\ status' = [status EXCEPT ![rows + 1] = "pending"]
    BY <1>6 DEF Enqueue, Insert
  <2>2. status \in [Rows -> Lifecycle] /\ rows \in Nat
    BY <1>0, ConstantsAssumption DEF TypeOK
  <2>3. \A r \in Rows : r <= rows => status'[r] = status[r]
    BY <2>1, <2>2, ConstantsAssumption
  <2> QED BY <1>1, <1>5, <2>1, <2>3 DEF Batches
<1>7. CASE Reset
  BY <1>1, <1>5, <1>7 DEF Batches, Reset
<1>8. CASE BudgetMoves \/ (\E h \in Heads : Stop(h)) \/ UNCHANGED vars
  <2>1. UNCHANGED memory /\ status' = status
    BY <1>8 DEF BudgetMoves, Stop, vars
  <2> QED BY <1>1, <1>5, <2>1 DEF Batches
<1>9. CASE Die \/ Boot
  <2>1. \A g \in Heads : held'[g] = {}
    <3>1. CASE Die
      BY <3>1 DEF Die, Forget
    <3>2. CASE Boot
      BY <3>2 DEF Boot, memory, DeadIsIdle, InHand
    <3> QED BY <1>9, <3>1, <3>2
  <2> QED BY <1>1, <1>2, <2>1 DEF Batches
<1> QED BY <1>1, <1>4, <1>6, <1>7, <1>8, <1>9 DEF Next, Crash, CrashMidBatch, Batches

\* How a row is in processing after a step of a loop: in its hands, as it was
\* before, claimed along with an event that is suppressed, or in a batch with a
\* command that throws.
LEMMA LoopTracks ==
  ASSUME IInv, Arrivals, History, Batches, NEW h \in Heads, LoopStep(h),
         NEW r \in Rows, status'[r] = "processing"
  PROVE  \/ r \in InHand(h)'
         \/ status[r] = "processing" /\ r \notin InHand(h)
         \/ /\ r \in held[h] /\ kind[r] \in Background
            /\ primary[h] \in InHand(h) /\ primary[h] \in muted' \cap led'
         \/ /\ r \in held[h] /\ kind[r] \in FromUser
            /\ \E c \in held[h] : /\ kind[c] = "command" /\ status'[c] = "processing"
                                  /\ c \notin InHand(h)'
<1>0. TypeOK /\ Placed(h) /\ Together(h) /\ HeldSound(h) /\ PrimarySound(h)
  BY DEF IInv, Arrivals, History, HeadSound, Batches
<1>1. CASE Claim(h) \/ Retry(h)
  <2>1. PICK p \in Rows, S \in SUBSET Rows :
           /\ Begin(h, p, S) /\ primary' = [primary EXCEPT ![h] = p]
           /\ \/ S = {p} /\ Claim(h)
              \/ S = {} /\ p = primary[h] /\ Retry(h)
    BY <1>1, BeginOf
  <2>2. status' = SetStatus(S \cup held'[h], "processing")
    BY <1>0, <2>1, BeginPlaces
  <2>3. InHand(h)' = held'[h] \cup {p} /\ S \subseteq {p}
    BY <1>0, <2>1 DEF InHand, TypeOK
  <2>4. InHand(h) \subseteq {p}
    BY <1>0, <2>1 DEF InHand, Claim, Retry, Placed
  <2> QED BY <2>2, <2>3, <2>4 DEF SetStatus
<1>2. CASE HandlerFails(h)
  <2>1. PICK err \in Errors : Throw(h, err)
    BY <1>2 DEF HandlerFails
  <2>2. held[h] = {} /\ held'[h] = {}
    BY <1>0, <1>2, <2>1, ThrowPlaces DEF HandlerFails, Placed
  <2>3. CASE pc'[h] = "backoff"
    BY <1>0, <2>1, <2>2, <2>3, ThrowPlaces DEF InHand
  <2>4. CASE status' = SetStatus({primary[h]}, "failed")
    <3>1. status[r] = "processing" /\ r # primary[h]
      BY <2>4 DEF SetStatus
    <3> QED BY <2>2, <3>1 DEF InHand
  <2>5. pc'[h] = "backoff" \/ status' = SetStatus({primary[h]}, "failed")
    BY <1>0, <2>1 DEF Throw, Goto, TypeOK
  <2> QED BY <2>3, <2>4, <2>5
<1>3. CASE BatchCommandFails(h)
  <2>1. PICK err \in Errors : Throw(h, err)
    BY <1>3 DEF BatchCommandFails
  <2>2. PICK c \in held[h] : kind[c] = "command" /\ pc[h] \in {"batch", "rebatch"}
    BY <1>3 DEF BatchCommandFails, InBatch
  <2>3. /\ held'[h] = {} /\ primary'[h] \in {primary[h], NoRow}
        /\ status' = status \/ status' = SetStatus({primary[h]}, "failed")
        /\ pc'[h] = "backoff" => primary' = primary /\ status' = status
        /\ pc'[h] # "backoff" => primary'[h] = NoRow
    BY <1>0, <2>1, ThrowPlaces
  <2>4. primary[h] \notin held[h]
    BY DEF IInv, HeldByOwner
  <2>5. status[r] = "processing"
    BY <2>3 DEF SetStatus
  <2>6. CASE r \in held[h]
    <3>1. c \in Rows /\ c # primary[h] /\ c # NoRow /\ status[c] = "processing"
      BY <1>0, <2>2, <2>4, <2>5, <2>6 DEF TypeOK, Together
    <3>2. status'[c] = "processing"
      BY <2>3, <3>1 DEF SetStatus
    <3>3. c \notin InHand(h)'
      BY <2>3, <3>1 DEF InHand
    <3>4. kind[r] \in FromUser
      BY <1>0, <2>2, <2>6 DEF Together
    <3> QED BY <2>2, <2>6, <3>2, <3>3, <3>4
  <2>7. CASE r = primary[h]
    <3>1. status' = status \/ r \notin InHand(h)
      BY <2>3, <2>7 DEF SetStatus
    <3>2. pc'[h] = "backoff" \/ status' = SetStatus({primary[h]}, "failed")
      BY <1>0, <2>1 DEF Throw, Goto, TypeOK
    <3>3. pc'[h] = "backoff"
      BY <2>5, <2>7, <3>2 DEF SetStatus
    <3> QED BY <2>3, <2>7, <3>3 DEF InHand
  <2>8. CASE r \notin held[h] /\ r # primary[h]
    BY <2>5, <2>8 DEF InHand
  <2> QED BY <2>6, <2>7, <2>8
<1>4. CASE \/ ClaimBlocked(h) \/ StopBlocked(h) \/ Answer(h) \/ BatchRerun(h) \/ Apologise(h)
           \/ Deliver(h) \/ HandlerDone(h)
  <2>1. held' = held /\ primary' = primary
    BY <1>4 DEF ClaimBlocked, StopBlocked, Answer, BatchRerun, Apologise, Deliver, HandlerDone
  <2>2. status' = status \/ status' = [status EXCEPT ![rows + 1] = "pending"]
    BY <1>4 DEF ClaimBlocked, StopBlocked, Answer, BatchRerun, Apologise, Deliver, HandlerDone,
       Insert
  <2>3. status[r] = "processing"
    BY <1>0, <2>2 DEF TypeOK
  <2> QED BY <2>1, <2>3 DEF InHand
<1>5. CASE Suppress(h)
  <2>1. PICK S \in Verdicts(h) : /\ primary[h] \in S /\ muted' = muted \cup S
                                 /\ status' = SetStatus(held[h] \cap S, "done")
    BY <1>5 DEF Suppress
  <2>2. /\ pc[h] = "stewards" /\ led' = led /\ primary' = primary /\ held'[h] = {}
    BY <1>0, <1>5 DEF Suppress, TypeOK
  <2>3. primary[h] \in Rows /\ primary[h] \in led /\ primary[h] \in InHand(h)
    <3>1. primary[h] # NoRow
      BY <2>2 DEF IInv, BusyHasPrimary
    <3> QED BY <1>0, <3>1 DEF PrimarySound, TypeOK, InHand
  <2>4. status[r] = "processing"
    BY <2>1 DEF SetStatus
  <2>5. CASE r \in held[h]
    BY <1>0, <2>1, <2>2, <2>3, <2>5 DEF HeldSound
  <2>6. CASE r \notin held[h]
    BY <2>2, <2>4, <2>6 DEF InHand
  <2> QED BY <2>5, <2>6
<1>6. CASE Inject(h)
  <2>1. status' = SetStatus(held[h], "done") /\ primary' = primary
    BY <1>6 DEF Inject
  <2> QED BY <2>1 DEF InHand, SetStatus
<1>7. CASE BatchClaim(h)
  <2>1. /\ status' = SetStatus(held'[h], "processing") /\ primary' = primary /\ held[h] = {}
    BY <1>0, <1>7 DEF BatchClaim, TypeOK
  <2> QED BY <2>1 DEF InHand, SetStatus
<1>8. CASE BatchAppend(h) \/ BatchCommand(h)
  <2>1. PICK q \in held[h] : /\ status' = SetStatus({q}, "done")
                             /\ held' = [held EXCEPT ![h] = @ \ {q}]
    BY <1>8 DEF BatchAppend, BatchCommand
  <2>2. primary' = primary /\ held'[h] = held[h] \ {q}
    BY <1>0, <1>8, <2>1 DEF BatchAppend, BatchCommand, TypeOK
  <2>3. status[r] = "processing" /\ r # q
    BY <2>1 DEF SetStatus
  <2> QED BY <2>2, <2>3 DEF InHand
<1>9. CASE Ack(h)
  <2>1. status' = SetStatus({primary[h]}, "done") /\ held[h] = {}
    BY <1>0, <1>9 DEF Ack, Placed
  <2>2. status[r] = "processing" /\ r # primary[h]
    BY <2>1 DEF SetStatus
  <2> QED BY <2>1, <2>2 DEF InHand
<1> QED BY <1>1, <1>2, <1>3, <1>4, <1>5, <1>6, <1>7, <1>8, <1>9 DEF LoopStep

\* A reason stays one as long as its process lives.
LEMMA LoopStrands ==
  ASSUME IInv, IInv', Extends, muted \subseteq muted', led \subseteq led', Arrivals, History,
         Batches, StrandedForAReason, up, NEW h \in Heads, LoopStep(h)
  PROVE  StrandedForAReason'
<1>0. TypeOK /\ Apart(h) /\ LedKnown
  BY LoopSettles DEF IInv, Batches
<1>1. ASSUME NEW r \in Rows, Stranded(r), r \notin InHand(h)
      PROVE  Stranded(r)' /\ headOf'[r] = headOf[r] /\ kind'[r] = kind[r]
  <2>1. r <= rows /\ status[r] = "processing" /\ r \notin InHand(headOf[r]) /\ headOf[r] \in Heads
    BY <1>0, <1>1, ConstantsAssumption DEF Stranded, IInv, RowsInOrder, TypeOK
  <2>2. headOf'[r] = headOf[r] /\ kind'[r] = kind[r]
    BY <2>1 DEF Extends
  <2>3. status'[r] = "processing" /\ r \notin InHand(h)'
    BY <1>1, <2>1, LeftAlone
  <2>4. PICK g \in Heads : g = headOf[r]
    BY <2>1
  <2>5. r \notin InHand(g)'
    BY <1>0, <2>1, <2>3, <2>4 DEF Apart, InHand
  <2>6. r \notin InHand(headOf[r])'
    BY <2>2, <2>4, <2>5 DEF InHand
  <2> QED BY <2>2, <2>3, <2>6 DEF Stranded
<1>2. ASSUME NEW c \in Rows, Stranded(c) PROVE c \notin InHand(h)
  BY <1>2, HandKnown DEF Stranded
<1> SUFFICES ASSUME NEW r \in Rows, Stranded(r)'
             PROVE  \/ /\ kind'[r] \in Background
                       /\ \E p \in muted' \cap led' : headOf'[p] = headOf'[r]
                    \/ /\ kind'[r] \in FromUser
                       /\ \E c \in Rows : /\ kind'[c] = "command" /\ headOf'[c] = headOf'[r]
                                          /\ Stranded(c)'
  BY DEF StrandedForAReason
<1>3. status'[r] = "processing" /\ r \notin InHand(h)'
  <2>1. status'[r] = "processing" /\ r \notin InHand(headOf[r])'
    BY DEF Stranded
  <2>2. ASSUME r \in InHand(h)' PROVE headOf'[r] = h
    BY <2>2 DEF IInv, HeldByOwner
  <2> QED BY <2>1, <2>2 DEF InHand
<1>4. ASSUME NEW q \in InHand(h)
      PROVE  q \in Rows /\ headOf[q] = h /\ headOf'[q] = h /\ kind'[q] = kind[q]
  BY HandKnown DEF Extends
<1>5. CASE status[r] = "processing" /\ r \notin InHand(h)
  <2>1. Stranded(r)
    <3>1. r <= rows /\ headOf[r] \in Heads
      BY <1>0, <1>5, ConstantsAssumption DEF IInv, RowsInOrder, TypeOK
    <3>2. headOf'[r] = headOf[r]
      BY <3>1 DEF Extends
    <3>3. PICK g \in Heads : g = headOf[r]
      BY <3>1
    <3>4. r \notin InHand(g)'
      BY <3>2, <3>3 DEF Stranded, InHand
    <3>5. r \notin InHand(g)
      BY <1>0, <1>5, <3>4 DEF Apart, InHand
    <3> QED BY <1>5, <3>3, <3>5 DEF Stranded
  <2>2. headOf'[r] = headOf[r] /\ kind'[r] = kind[r]
    BY <1>1, <1>5, <2>1
  <2>3. CASE kind[r] \in Background /\ \E p \in muted \cap led : headOf[p] = headOf[r]
    <3>1. PICK p \in muted \cap led : headOf[p] = headOf[r]
      BY <2>3
    <3>2. headOf'[p] = headOf[p]
      BY <1>0 DEF LedKnown, Extends
    <3> QED BY <2>2, <2>3, <3>1, <3>2
  <2>4. CASE /\ kind[r] \in FromUser
             /\ \E c \in Rows : kind[c] = "command" /\ headOf[c] = headOf[r] /\ Stranded(c)
    <3>1. PICK c \in Rows : kind[c] = "command" /\ headOf[c] = headOf[r] /\ Stranded(c)
      BY <2>4
    <3>2. Stranded(c)' /\ headOf'[c] = headOf[c] /\ kind'[c] = kind[c]
      BY <1>1, <1>2, <3>1
    <3> QED BY <2>2, <2>4, <3>1, <3>2
  <2> QED BY <2>1, <2>3, <2>4 DEF StrandedForAReason
<1>6. CASE /\ r \in held[h] /\ kind[r] \in Background
           /\ primary[h] \in InHand(h) /\ primary[h] \in muted' \cap led'
  <2>1. r \in InHand(h)
    BY <1>6 DEF InHand
  <2> QED BY <1>4, <1>6, <2>1
<1>7. CASE /\ r \in held[h] /\ kind[r] \in FromUser
           /\ \E c \in held[h] : /\ kind[c] = "command" /\ status'[c] = "processing"
                                 /\ c \notin InHand(h)'
  <2>1. PICK c \in held[h] : /\ kind[c] = "command" /\ status'[c] = "processing"
                             /\ c \notin InHand(h)'
    BY <1>7
  <2>2. r \in InHand(h) /\ c \in InHand(h)
    BY <1>7 DEF InHand
  <2>3. c \in Rows /\ headOf'[c] = h /\ kind'[c] = "command" /\ headOf'[r] = h /\ kind'[r] = kind[r]
    BY <1>4, <2>1, <2>2
  <2>4. Stranded(c)'
    BY <2>1, <2>3 DEF Stranded, InHand
  <2> QED BY <1>7, <2>3, <2>4
<1> QED BY <1>3, <1>5, <1>6, <1>7, LoopTracks

\* Of the other steps, those of the outside leave the rows in processing as they
\* are; a death and the start that follows leave none behind.
LEMMA StrandedStep ==
  ASSUME IInv, IInv', DeadIsIdle, Arrivals, History, Batches, StrandedForAReason, [Next]_vars
  PROVE  StrandedForAReason'
<1>0. TypeOK /\ TypeOK' /\ Extends /\ muted \subseteq muted' /\ led \subseteq led' /\ LedKnown
  BY TableExtends DEF IInv, Batches
<1>1. CASE \E h \in Heads : LoopStep(h)
  BY <1>0, <1>1, LoopLives, LoopStrands
<1>2. ASSUME UNCHANGED memory, up, \A r \in Rows : r <= rows => status'[r] = status[r],
             \A r \in Rows : status'[r] = "processing" => status[r] = "processing"
      PROVE  StrandedForAReason'
  <2>1. \A r \in Rows : Stranded(r)' \/ Stranded(r) =>
          /\ r <= rows /\ headOf'[r] = headOf[r] /\ kind'[r] = kind[r]
          /\ Stranded(r)' <=> Stranded(r)
    <3> SUFFICES ASSUME NEW r \in Rows, Stranded(r)' \/ Stranded(r)
                 PROVE  r <= rows /\ headOf'[r] = headOf[r] /\ kind'[r] = kind[r]
                        /\ (Stranded(r)' <=> Stranded(r))
      OBVIOUS
    <3>1. status[r] = "processing"
      BY <1>2 DEF Stranded
    <3>2. r <= rows
      BY <1>0, <3>1, ConstantsAssumption DEF IInv, RowsInOrder, TypeOK
    <3>3. headOf'[r] = headOf[r] /\ kind'[r] = kind[r] /\ status'[r] = status[r]
      BY <1>0, <1>2, <3>2 DEF Extends
    <3> QED BY <1>2, <3>2, <3>3 DEF Stranded, InHand, memory
  <2>2. \A p \in muted \cap led : headOf'[p] = headOf[p] /\ p \in muted' \cap led'
    BY <1>0 DEF LedKnown, Extends
  <2> QED BY <1>2, <2>1, <2>2 DEF StrandedForAReason
<1>3. CASE \E h \in Heads, k \in Inputs : Enqueue(h, k)
  <2>1. UNCHANGED memory /\ up /\ status' = [status EXCEPT ![rows + 1] = "pending"]
    BY <1>3 DEF Enqueue, Insert
  <2>2. status \in [Rows -> Lifecycle] /\ rows \in Nat
    BY <1>0, ConstantsAssumption DEF TypeOK
  <2>3. \A r \in Rows : r <= rows => status'[r] = status[r]
    BY <2>1, <2>2, ConstantsAssumption
  <2>4. \A r \in Rows : status'[r] = "processing" => status[r] = "processing"
    BY <2>1, <2>2
  <2> QED BY <1>2, <2>1, <2>3, <2>4
<1>4. CASE Reset \/ Boot
  <2>1. \A r \in Rows : status'[r] # "processing"
    BY <1>0, <1>4 DEF Reset, Boot, SetStatus, Stale, TypeOK
  <2> QED BY <2>1 DEF StrandedForAReason, Stranded
<1>5. CASE BudgetMoves \/ \E h \in Heads : Stop(h)
  BY <1>2, <1>5 DEF BudgetMoves, Stop
<1>6. CASE UNCHANGED vars
  BY <1>6 DEF vars, table, process, ledger, memory, StrandedForAReason, Stranded, InHand
<1>7. CASE Die
  BY <1>7 DEF Die, StrandedForAReason
<1> QED BY <1>1, <1>3, <1>4, <1>5, <1>6, <1>7 DEF Next, Crash, CrashMidBatch

\* With any heads, events, commands and relay steward, a live process leaves a row
\* in 'processing' without holding it only if the row was claimed along with an
\* event that was suppressed, or was in a batch in which a command threw.
THEOREM StrandedWithReason == Spec => []StrandedForAReason
<1>1. Init => Batches /\ StrandedForAReason
  BY DEF Init, Batches, LedKnown, Together, StrandedForAReason, Stranded
<1>2. /\ IInv /\ IInv' /\ DeadIsIdle /\ Arrivals /\ History
      /\ Batches /\ StrandedForAReason /\ [Next]_vars
      => Batches' /\ StrandedForAReason'
  BY BatchesStep, StrandedStep
<1> QED BY <1>1, <1>2, Invariance, ArrivalsKept, HistoryKept, PTL DEF Spec

=============================================================================
