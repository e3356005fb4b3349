--------------------------- MODULE CliqChannelProofs ---------------------------
(***************************************************************************)
(* Proofs about CliqChannel for any number of adapters, messages, sends    *)
(* and crashes, and for every size of the answers and of the table that     *)
(* BoundsAssumption allows.                                                 *)
(*                                                                         *)
(* That nothing reaches the head twice: a message the adapters are done     *)
(* with stays in the table until it is too old for every answer that is     *)
(* still to be read, although answers are read in any order and a pruning   *)
(* goes by the time of marking and not by the age of the messages.          *)
(*                                                                         *)
(* That nothing is lost without a reason: whoever marks an answer hands     *)
(* over, downloads or recognises each of its messages in the same step.     *)
(*                                                                         *)
(* That the assistant does not hear itself: a text is remembered before it  *)
(* is posted, and from then on its adapter remembers it, or it was          *)
(* forgotten, or it was recognised, and with it a message that stands in    *)
(* the chat.                                                                *)
(***************************************************************************)
EXTENDS CliqChannel, FiniteSetTheorems, WellFoundedInduction, TLAPS

\* The types of what the proofs are about.
Types ==
  /\ chat \in Seq(Posts) /\ Len(chat) <= MaxChat
  /\ seenAt \in [Ids -> 0..marks] /\ marks \in Nat
  /\ at \in [Adapters -> Places]
  /\ upTo \in [Adapters -> 0..MaxChat]
  /\ routed \in Adapters
  /\ send \in [Slots -> SendStates]
  /\ \A s \in Slots : send[s].at = "posting" => send[s].chunk \in 1..Len(send[s].job)
  /\ loading \subseteq Handing
  /\ handed \in [Ids -> Seq(Adapters)]
  /\ skipped \in BOOLEAN

\* Adapters whose answer may hand something over, and those past their start.
Reading == {a \in Adapters : at[a] \in {"catchup", "polled"}}
Polling == {a \in Adapters : at[a] \in {"catchup", "polled", "idle"}}

\* No answer that is still to be read holds message i, now or later.
Old(i) == i <= Len(chat) - Window /\ \A a \in Reading : i <= upTo[a] - Window

\* Nobody will find i to be new.
Settled(i) == i \in Rows \/ Old(i)

InChat ==
  /\ \A a \in Adapters : upTo[a] <= Len(chat)
  /\ Rows \subseteq 1..Len(chat)
  /\ History <= Len(chat)
  /\ \A a \in Adapters : at[a] = "baseline" => History <= upTo[a]

\* A request under way was made at most Lag messages ago.
AnswersRecent == \A a \in Asking : Len(chat) <= upTo[a] + Lag

\* A message marked later than i is not much older than i.
Ordered(stamps) ==
  \A i, j \in RowsOf(stamps) : stamps[i] <= stamps[j] => i - Window - Lag < j

HandedSettled ==
  \A i \in Ids : handed[i] # <<>> \/ (\E f \in loading : f[1] = i) => Settled(i)

InHandOnce ==
  /\ \A i \in Ids : Len(handed[i]) <= 1
  /\ \A i \in Ids, f \in loading : f[1] = i => handed[i] = <<>>
  /\ \A f, g \in loading : f[1] = g[1] => f = g

\* After a baseline history is settled before anybody polls.
HistoryKnown ==
  ~skipped =>
    /\ \A i \in 1..History : handed[i] = <<>> /\ \A f \in loading : f[1] # i
    /\ Rows # {} => \A i \in 1..History : Settled(i)
    /\ History > 0 /\ Polling # {} => Rows # {}

Core ==
  /\ InChat /\ AnswersRecent /\ Ordered(seenAt)
  /\ HandedSettled /\ InHandOnce /\ HistoryKnown

IInv == Types /\ Core
-----------------------------------------------------------------------------
(* Marking and pruning *)

LEMMA Bounds ==
  /\ History \in Nat /\ MaxChat \in Nat /\ Lag \in Nat /\ History <= MaxChat
  /\ MaxAdapters \in Nat \ {0} /\ Window \in Nat \ {0} /\ Keep \in Nat \ {0}
  /\ Keep >= 2 * (Window + Lag) - 1
BY BoundsAssumption

\* The rows of an answer come after all others, and in order with them.
LEMMA MarkedRows ==
  ASSUME Types, InChat, AnswersRecent, Ordered(seenAt), NEW a \in Asking
  PROVE  /\ Marked(Answer(a)) \in [Ids -> 0..marks + 1]
         /\ Answer(a) \subseteq Rows => Marked(Answer(a)) = seenAt
         /\ RowsOf(Marked(Answer(a))) = Rows \cup Answer(a)
         /\ RowsOf(Marked(Answer(a))) \subseteq 1..Len(chat)
         /\ Ordered(Marked(Answer(a)))
<1> USE Bounds
<1> DEFINE stamps == Marked(Answer(a))
<1>1. /\ a \in Adapters /\ upTo[a] \in 0..MaxChat /\ upTo[a] <= Len(chat)
      /\ Len(chat) \in Nat /\ Len(chat) <= upTo[a] + Lag /\ marks \in Nat
  BY DEF Types, InChat, AnswersRecent, Asking
<1>2. Answer(a) \subseteq Ids /\ Answer(a) \subseteq 1..Len(chat)
  BY <1>1 DEF Answer, Ids
<1>3. \A i \in Ids : /\ seenAt[i] \in 0..marks
                     /\ i \in Rows <=> seenAt[i] # 0
                     /\ stamps[i] = IF i \in Answer(a) \ Rows THEN marks + 1 ELSE seenAt[i]
  BY DEF Types, Rows, RowsOf, Marked
<1>4. stamps \in [Ids -> 0..marks + 1]
  BY <1>1, <1>3 DEF Marked
<1>5. Answer(a) \subseteq Rows => stamps = seenAt
  BY DEF Marked, Types
<1>6. RowsOf(stamps) = Rows \cup Answer(a)
  <2>1. Rows \subseteq Ids
    BY DEF Rows, RowsOf
  <2> QED BY <1>1, <1>2, <1>3, <2>1 DEF RowsOf
<1>7. RowsOf(stamps) \subseteq 1..Len(chat)
  BY <1>2, <1>6 DEF InChat
<1>8. ASSUME NEW i \in RowsOf(stamps), NEW j \in RowsOf(stamps), stamps[i] <= stamps[j]
      PROVE  i - Window - Lag < j
  <2>1. i \in 1..Len(chat) /\ j \in 1..Len(chat) /\ i \in Ids /\ j \in Ids
    BY <1>7 DEF RowsOf
  <2>2. CASE j \in Answer(a) \ Rows
    BY <1>1, <2>1, <2>2 DEF Answer
  <2>3. CASE j \notin Answer(a) \ Rows
    <3>1. i \in Rows /\ j \in Rows /\ seenAt[i] <= seenAt[j]
      BY <1>1, <1>3, <1>6, <1>8, <2>1, <2>3
    <3> QED BY <3>1 DEF Ordered, Rows
  <2> QED BY <2>2, <2>3
<1> QED BY <1>4, <1>5, <1>6, <1>7, <1>8 DEF Ordered

\* What a pruning takes away is too old for every answer.
LEMMA PrunedRows ==
  ASSUME Types, NEW n \in Nat, NEW stamps \in [Ids -> 0..n], Ordered(stamps),
         RowsOf(stamps) \subseteq 1..Len(chat), NEW new \in Pruned(stamps)
  PROVE  /\ new \in [Ids -> 0..n]
         /\ RowsOf(new) \subseteq RowsOf(stamps)
         /\ RowsOf(stamps) # {} => RowsOf(new) # {}
         /\ Ordered(new)
         /\ \A i \in RowsOf(stamps) \ RowsOf(new) : i <= Len(chat) - Window - Lag
<1> USE Bounds
<1>1. CASE new = stamps
  BY <1>1
<1>2. CASE new \in Prunings(stamps)
  <2>1. PICK kept \in SUBSET RowsOf(stamps) :
          /\ new = Only(stamps, kept)
          /\ Cardinality(kept) = Keep
          /\ \A i \in kept, j \in RowsOf(stamps) \ kept : stamps[j] <= stamps[i]
    BY <1>2 DEF Prunings
  <2>2. \A i \in Ids : new[i] = IF i \in kept THEN stamps[i] ELSE 0
    BY <2>1 DEF Only
  <2>3. new \in [Ids -> 0..n]
    BY <2>1, <2>2 DEF Only
  <2>4. RowsOf(new) = kept
    BY <2>1, <2>2 DEF RowsOf
  <2>5. kept # {}
    BY <2>1, FS_EmptySet
  <2>6. Ordered(new)
    BY <2>1, <2>2, <2>4 DEF Ordered, RowsOf
  <2>7. ASSUME NEW i \in RowsOf(stamps) \ kept
        PROVE  i <= Len(chat) - Window - Lag
    <3>1. PICK low \in Int : low = i - Window - Lag + 1
      BY DEF Types
    <3>2. PICK top \in Int : top = Len(chat) /\ i \in low..top
      BY <3>1 DEF Types
    <3>3. kept \subseteq (low..top) \ {i}
      <4> SUFFICES ASSUME NEW j \in kept PROVE j \in low..top /\ j # i
        OBVIOUS
      <4>1. stamps[i] <= stamps[j] /\ j \in RowsOf(stamps) /\ j # i
        BY <2>1, <2>7
      <4>2. i - Window - Lag < j /\ j \in 1..Len(chat)
        BY <4>1 DEF Ordered
      <4> QED BY <3>1, <3>2, <4>1, <4>2
    <3>4. IsFiniteSet(low..top) /\ Cardinality(low..top) = top - low + 1
      <4>1. ~(low > top)
        BY <3>2
      <4> QED BY <4>1, FS_Interval
    <3>5. /\ IsFiniteSet((low..top) \ {i})
          /\ Cardinality((low..top) \ {i}) = Cardinality(low..top) - 1
      BY <3>2, <3>4, FS_RemoveElement
    <3>6. Keep <= top - low
      <4>1. Cardinality(kept) <= Cardinality((low..top) \ {i})
        BY <3>3, <3>5, FS_Subset
      <4> QED BY <2>1, <3>4, <3>5, <4>1
    <3> QED BY <3>1, <3>2, <3>6
  <2> QED BY <2>1, <2>3, <2>4, <2>5, <2>6, <2>7
<1> QED BY <1>1, <1>2 DEF Pruned
-----------------------------------------------------------------------------
(* What a step leaves of the invariant *)

\* What every step keeps to: requests are made with what the chat holds, and a row
\* that disappears is too old for all that are under way.
Keeps ==
  /\ Len(chat)' >= Len(chat)
  /\ \A a \in Reading' : (a \in Reading /\ upTo'[a] = upTo[a]) \/ upTo'[a] >= Len(chat)
  /\ \A i \in Rows \ Rows' : i <= Len(chat) - Window - Lag

\* A message that is settled stays so.
LEMMA SettledStays ==
  ASSUME Types, Types', InChat, AnswersRecent, Keeps, NEW i \in Ids, Settled(i)
  PROVE  Settled(i)'
<1> USE Bounds
<1>1. Len(chat) \in Nat /\ Len(chat)' \in Nat /\ i \in Nat
  BY DEF Types, Ids
<1>2. CASE i \in Rows'
  BY <1>2 DEF Settled
<1>3. CASE i \notin Rows'
  <2>1. ASSUME NEW a \in Reading' PROVE i <= upTo'[a] - Window
    <3>1. a \in Adapters /\ upTo'[a] \in Nat /\ upTo[a] \in Nat
      BY DEF Types, Reading
    <3>2. i <= Len(chat) - Window
      BY <1>1, <1>3 DEF Settled, Old, Keeps
    <3>3. CASE upTo'[a] >= Len(chat)
      BY <1>1, <3>1, <3>2, <3>3
    <3>4. CASE a \in Reading /\ upTo'[a] = upTo[a]
      <4>1. Len(chat) <= upTo[a] + Lag
        BY <3>4 DEF AnswersRecent, Asking, Reading
      <4>2. i <= Len(chat) - Window - Lag \/ i <= upTo[a] - Window
        BY <1>3, <3>4 DEF Settled, Old, Keeps
      <4> QED BY <1>1, <3>1, <3>4, <4>1, <4>2
    <3> QED BY <3>3, <3>4 DEF Keeps
  <2>2. i <= Len(chat)' - Window
    BY <1>1, <1>3 DEF Settled, Old, Keeps
  <2> QED BY <2>1, <2>2 DEF Settled, Old
<1> QED BY <1>2, <1>3

\* A new message of an answer is not settled.
LEMMA FreshUnsettled ==
  ASSUME Types, NEW a \in Reading, NEW i \in Fresh(a)
  PROVE  ~Settled(i) /\ i \in Ids
<1>1. upTo[a] \in 0..MaxChat /\ MaxChat \in Nat /\ Window \in Nat
  BY Bounds DEF Types, Reading
<1>2. i \in 1..upTo[a] /\ i > upTo[a] - Window /\ i \notin Rows
  BY DEF Fresh, Answer
<1>3. ~(i <= upTo[a] - Window) /\ i \in Ids
  BY <1>1, <1>2 DEF Ids
<1> QED BY <1>2, <1>3 DEF Settled, Old

\* Steps that touch neither the chat nor the table nor what is in hand.
LEMMA QuietStep ==
  ASSUME IInv, Types', UNCHANGED <<chat, seenAt, marks, loading, handed>>,
         skipped => skipped',
         \A a \in Asking' :
           \/ a \in Asking /\ at'[a] = at[a] /\ upTo'[a] = upTo[a]
           \/ upTo'[a] = Len(chat),
         \A a \in Adapters : upTo'[a] <= Len(chat),
         \A a \in Polling' : a \in Polling \/ Rows # {} \/ skipped'
  PROVE  Core'
<1> USE Bounds
<1>1. Len(chat) \in Nat /\ Rows' = Rows /\ Len(chat)' = Len(chat)
  BY DEF IInv, Types, Rows
<1>2. Reading \subseteq Asking /\ Reading' \subseteq Asking'
  BY DEF Reading, Asking
<1>3. Keeps
  BY <1>1, <1>2 DEF Keeps, Reading
<1>4. \A i \in Ids : Settled(i) => Settled(i)'
  BY <1>3, SettledStays DEF IInv, Core
<1>5. InChat'
  <2>1. \A a \in Adapters : at'[a] = "baseline" => History <= upTo'[a]
    BY <1>1 DEF IInv, Core, InChat, Asking
  <2> QED BY <1>1, <2>1 DEF IInv, Core, InChat
<1>6. AnswersRecent'
  BY <1>1 DEF IInv, Core, AnswersRecent, Asking
<1>7. Ordered(seenAt)'
  BY DEF IInv, Core, Ordered, RowsOf
<1>8. HandedSettled'
  BY <1>4 DEF IInv, Core, HandedSettled
<1>9. InHandOnce'
  BY DEF IInv, Core, InHandOnce
<1>10. HistoryKnown'
  <2> SUFFICES ASSUME ~skipped' PROVE HistoryKnown'
    BY DEF HistoryKnown
  <2>1. \A i \in 1..History : i \in Ids
    BY DEF Ids
  <2>2. History > 0 /\ Polling' # {} => Rows # {}
    BY DEF IInv, Core, HistoryKnown
  <2> QED BY <1>1, <1>4, <2>1, <2>2 DEF IInv, Core, HistoryKnown
<1> QED BY <1>5, <1>6, <1>7, <1>8, <1>9, <1>10 DEF Core

\* A message is posted.
LEMMA PostStep ==
  ASSUME IInv, Types', MayPost, NEW p \in Posts, chat' = Append(chat, p),
         UNCHANGED <<seenAt, marks, at, upTo, loading, handed, skipped>>
  PROVE  Core'
<1> USE Bounds
<1>1. Len(chat) \in Nat /\ Rows' = Rows /\ Len(chat)' = Len(chat) + 1
  BY DEF IInv, Types, Rows
<1>2. Reading' = Reading /\ Polling' = Polling /\ Asking' = Asking
  BY DEF Reading, Polling, Asking
<1>3. Keeps
  BY <1>1, <1>2 DEF Keeps
<1>4. \A i \in Ids : Settled(i) => Settled(i)'
  BY <1>3, SettledStays DEF IInv, Core
<1>5. InChat'
  BY <1>1 DEF IInv, Core, InChat, Types
<1>6. AnswersRecent'
  <2> SUFFICES ASSUME NEW a \in Asking PROVE Len(chat) + 1 <= upTo[a] + Lag
    BY <1>1, <1>2 DEF AnswersRecent
  <2>1. Len(chat) < upTo[a] + Lag /\ upTo[a] \in Nat
    BY DEF MayPost, Asking, IInv, Types
  <2> QED BY <1>1, <2>1
<1>7. Ordered(seenAt)'
  BY DEF IInv, Core, Ordered, RowsOf
<1>8. HandedSettled'
  BY <1>4 DEF IInv, Core, HandedSettled
<1>9. InHandOnce'
  BY DEF IInv, Core, InHandOnce
<1>10. HistoryKnown'
  BY <1>1, <1>2, <1>4 DEF IInv, Core, HistoryKnown, Ids
<1> QED BY <1>5, <1>6, <1>7, <1>8, <1>9, <1>10 DEF Core

\* The table takes an answer of a's, and possibly loses old rows; some of the
\* messages that are new to a are handed over or downloaded.
TableTakes(a) ==
  /\ UNCHANGED <<chat, skipped>>
  /\ Ordered(seenAt)'
  /\ Rows' \subseteq Rows \cup Answer(a)
  /\ Rows \cup Answer(a) # {} => Rows' # {}
  /\ \A i \in (Rows \cup Answer(a)) \ Rows' : i <= Len(chat) - Window - Lag
  /\ \A b \in Adapters : /\ upTo'[b] \in {0, upTo[b]}
                         /\ \/ at'[b] = at[b] /\ upTo'[b] = upTo[b]
                            \/ at'[b] \in {"new", "off", "idle"}
  /\ Polling' \subseteq Polling \cup {a}

\* What such a step does to the messages.
LEMMA TakenSettled ==
  ASSUME IInv, Types', NEW a \in Asking, TableTakes(a)
  PROVE  /\ \A i \in Ids : Settled(i) => Settled(i)'
         /\ \A i \in Answer(a) : Settled(i)'
         /\ InChat' /\ AnswersRecent'
<1> USE Bounds
<1>1. /\ Len(chat) \in Nat /\ Len(chat)' = Len(chat) /\ upTo[a] \in Nat /\ a \in Adapters
      /\ upTo[a] <= Len(chat) /\ Len(chat) <= upTo[a] + Lag /\ upTo[a] <= MaxChat
  BY DEF IInv, Types, TableTakes, Core, InChat, AnswersRecent, Asking
<1>2. Asking' \subseteq Asking /\ Reading' \subseteq Reading
      /\ \A b \in Asking' : upTo'[b] = upTo[b] /\ upTo[b] \in Nat
  <2>1. \A b \in Adapters : \/ at'[b] = at[b] /\ upTo'[b] = upTo[b]
                           \/ at'[b] \in {"new", "off", "idle"}
    BY DEF TableTakes
  <2>2. \A b \in Adapters : upTo[b] \in Nat
    BY DEF IInv, Types
  <2>3. Asking' \subseteq Asking /\ Reading' \subseteq Reading
    BY <2>1 DEF Asking, Reading
  <2>4. \A b \in Asking' : upTo'[b] = upTo[b]
    BY <2>1 DEF Asking
  <2> QED BY <2>2, <2>3, <2>4 DEF Asking
<1>3. Keeps
  BY <1>1, <1>2 DEF Keeps, TableTakes, Reading, Asking
<1>4. \A i \in Ids : Settled(i) => Settled(i)'
  BY <1>3, SettledStays DEF IInv, Core
<1>5. ASSUME NEW i \in Answer(a) PROVE Settled(i)'
  <2>1. i \in 1..Len(chat)
    BY <1>1 DEF Answer
  <2>2. CASE i \in Rows'
    BY <2>2 DEF Settled
  <2>3. CASE i \notin Rows'
    <3>1. i <= Len(chat) - Window - Lag
      BY <2>3 DEF TableTakes
    <3>2. ASSUME NEW b \in Reading' PROVE i <= upTo'[b] - Window
      <4>1. b \in Asking' /\ b \in Asking
        BY <1>2 DEF Reading, Asking
      <4>2. Len(chat) <= upTo[b] + Lag
        BY <4>1 DEF IInv, Core, AnswersRecent
      <4>3. upTo'[b] = upTo[b] /\ upTo[b] \in Nat
        BY <1>2, <4>1
      <4>4. i \in Nat /\ Len(chat) \in Nat /\ Window \in Nat /\ Lag \in Nat
        BY <1>1, <2>1
      <4> QED BY <3>1, <4>2, <4>3, <4>4
    <3>3. i <= Len(chat)' - Window
      BY <1>1, <2>1, <3>1
    <3>4. Old(i)'
      BY <3>2, <3>3 DEF Old
    <3> QED BY <3>4 DEF Settled
  <2> QED BY <2>2, <2>3
<1>6. InChat'
  <2>1. \A b \in Adapters : upTo'[b] <= Len(chat)'
    BY <1>1 DEF TableTakes, IInv, Core, InChat
  <2>2. Rows' \subseteq 1..Len(chat)'
    BY <1>1 DEF TableTakes, IInv, Core, InChat, Answer
  <2> QED BY <1>1, <2>1, <2>2 DEF TableTakes, IInv, Core, InChat
<1>7. AnswersRecent'
  BY <1>1, <1>2 DEF IInv, Core, AnswersRecent
<1> QED BY <1>4, <1>5, <1>6, <1>7

\* A baseline, which hands nothing over.
LEMMA BaselineStep ==
  ASSUME IInv, Types', NEW a \in Asking, at[a] = "baseline", TableTakes(a),
         UNCHANGED <<loading, handed>>
  PROVE  Core'
<1> USE Bounds
<1>1. /\ \A i \in Ids : Settled(i) => Settled(i)'
      /\ \A i \in Answer(a) : Settled(i)'
      /\ InChat' /\ AnswersRecent'
  BY TakenSettled
<1>2. HandedSettled'
  BY <1>1 DEF IInv, Core, HandedSettled
<1>3. InHandOnce'
  BY DEF IInv, Core, InHandOnce
<1>4. HistoryKnown'
  <2> SUFFICES ASSUME ~skipped' PROVE HistoryKnown'
    BY DEF HistoryKnown
  <2>1. /\ ~skipped /\ Len(chat) \in Nat /\ Len(chat)' = Len(chat)
        /\ History <= upTo[a] /\ upTo[a] <= Len(chat) /\ upTo[a] \in Nat
    BY DEF TableTakes, IInv, Core, InChat, Types, Asking
  <2>2. ASSUME NEW i \in 1..History PROVE Settled(i)'
    <3>1. i \in Ids /\ i \in 1..upTo[a]
      BY <2>1 DEF Ids
    <3>2. CASE Rows # {}
      BY <1>1, <2>1, <3>1, <3>2 DEF IInv, Core, HistoryKnown
    <3>3. CASE i \in Answer(a)
      BY <1>1, <3>3
    <3>4. CASE Rows = {} /\ i \notin Answer(a)
      <4>1. Polling = {}
        BY <2>1, <3>1, <3>4 DEF IInv, Core, HistoryKnown
      <4>2. Reading = {}
        BY <4>1 DEF Reading, Polling
      <4>3. i <= Len(chat) - Window
        BY <2>1, <3>1, <3>4 DEF Answer
      <4>4. Settled(i)
        BY <4>2, <4>3 DEF Settled, Old
      <4> QED BY <1>1, <3>1, <4>4
    <3> QED BY <3>2, <3>3, <3>4
  <2>3. ASSUME History > 0 PROVE Rows' # {}
    <3>1. upTo[a] \in Answer(a)
      BY <2>1, <2>3 DEF Answer
    <3> QED BY <3>1 DEF TableTakes
  <2> QED BY <2>1, <2>2, <2>3 DEF IInv, Core, HistoryKnown
<1> QED BY <1>1, <1>2, <1>3, <1>4 DEF Core, TableTakes

\* An answer that is read, with what is handed over and what is downloaded.
LEMMA ReadStep ==
  ASSUME IInv, Types', NEW a \in Reading, TableTakes(a),
         NEW texts \in SUBSET Fresh(a), handed' = HandedBy(a, texts),
         NEW files \in SUBSET Fresh(a), texts \cap files = {},
         loading' = loading \cup files \X {a} \/ loading' = {}
  PROVE  Core'
<1> USE Bounds
<1>1. a \in Asking /\ a \in Adapters
  BY DEF Reading, Asking
<1>2. /\ \A i \in Ids : Settled(i) => Settled(i)'
      /\ \A i \in Answer(a) : Settled(i)'
      /\ InChat' /\ AnswersRecent'
  BY <1>1, TakenSettled
<1>3. /\ texts \subseteq Answer(a) /\ files \subseteq Answer(a)
      /\ \A i \in texts \cup files : i \in Ids /\ ~Settled(i)
  BY FreshUnsettled DEF IInv, Fresh
<1>4. \A i \in texts \cup files : handed[i] = <<>> /\ \A f \in loading : f[1] # i
  BY <1>3 DEF IInv, Core, HandedSettled
<1>5. \A i \in Ids : handed'[i] = IF i \in texts THEN Append(handed[i], a) ELSE handed[i]
  BY DEF HandedBy
<1>6. \A f \in loading' : f \in loading \/ (f[1] \in files /\ f = <<f[1], a>>)
  OBVIOUS
<1>7. HandedSettled'
  BY <1>2, <1>3, <1>5, <1>6 DEF IInv, Core, HandedSettled
<1>8. InHandOnce'
  <2>1. ASSUME NEW i \in Ids PROVE Len(handed'[i]) <= 1
    <3>1. CASE i \in texts
      <4>1. handed'[i] = Append(<<>>, a)
        BY <1>4, <1>5, <3>1
      <4> QED BY <4>1
    <3>2. CASE i \notin texts
      BY <1>5, <3>2 DEF IInv, Core, InHandOnce
    <3> QED BY <3>1, <3>2
  <2>2. ASSUME NEW i \in Ids, NEW f \in loading', f[1] = i PROVE handed'[i] = <<>>
    <3>1. CASE f \in loading
      BY <1>4, <1>5, <2>2, <3>1 DEF IInv, Core, InHandOnce
    <3>2. CASE f[1] \in files
      BY <1>4, <1>5, <2>2, <3>2
    <3> QED BY <1>6, <3>1, <3>2
  <2>3. ASSUME NEW f \in loading', NEW g \in loading', f[1] = g[1] PROVE f = g
    BY <1>4, <1>6, <2>3 DEF IInv, Core, InHandOnce
  <2> QED BY <2>1, <2>2, <2>3 DEF InHandOnce
<1>9. HistoryKnown'
  <2> SUFFICES ASSUME ~skipped' PROVE HistoryKnown'
    BY DEF HistoryKnown
  <2>1. ~skipped /\ a \in Polling
    BY DEF TableTakes, Reading, Polling
  <2>2. History > 0 => Rows # {} /\ Rows' # {}
    BY <2>1 DEF IInv, Core, HistoryKnown, TableTakes
  <2>3. ASSUME NEW i \in 1..History
        PROVE  /\ i \in Ids /\ Settled(i) /\ Settled(i)'
               /\ handed'[i] = <<>> /\ \A f \in loading' : f[1] # i
    <3>1. i \in Ids /\ Settled(i)
      BY <2>1, <2>2 DEF IInv, Core, HistoryKnown, Ids
    <3>2. i \notin texts \cup files
      BY <1>3, <3>1
    <3> QED BY <1>2, <1>5, <1>6, <2>1, <3>1, <3>2 DEF IInv, Core, HistoryKnown
  <2> QED BY <2>2, <2>3 DEF HistoryKnown
<1> QED BY <1>2, <1>7, <1>8, <1>9 DEF Core, TableTakes
-----------------------------------------------------------------------------
(* The actions *)

\* An answer is marked, and the table perhaps pruned.
LEMMA StoresTable ==
  ASSUME IInv, NEW a \in Reading, Stores(a)
  PROVE  /\ seenAt' \in [Ids -> 0..marks'] /\ marks' \in Nat
         /\ Ordered(seenAt)'
         /\ Rows' \subseteq Rows \cup Answer(a)
         /\ Rows \cup Answer(a) # {} => Rows' # {}
         /\ \A i \in (Rows \cup Answer(a)) \ Rows' : i <= Len(chat) - Window - Lag
<1> DEFINE stamps == Marked(Answer(a))
<1>1. a \in Asking /\ marks \in Nat
  BY DEF Reading, Asking, IInv, Types
<1>2. /\ stamps \in [Ids -> 0..marks + 1]
      /\ Answer(a) \subseteq Rows => stamps = seenAt
      /\ RowsOf(stamps) = Rows \cup Answer(a)
      /\ RowsOf(stamps) \subseteq 1..Len(chat)
      /\ Ordered(stamps)
  BY <1>1, MarkedRows DEF IInv, Core
<1>3. stamps \in [Ids -> 0..marks'] /\ marks' \in Nat
  BY <1>1, <1>2 DEF Stores, Marks, IInv, Types
<1> HIDE DEF stamps
<1>4. seenAt' = stamps \/ seenAt' \in Pruned(stamps)
  BY DEF Stores, stamps
<1>5. CASE seenAt' = stamps
  BY <1>2, <1>3, <1>5 DEF Rows, Ordered
<1>6. CASE seenAt' \in Pruned(stamps)
  <2>1. /\ seenAt' \in [Ids -> 0..marks']
        /\ RowsOf(seenAt') \subseteq RowsOf(stamps)
        /\ RowsOf(stamps) # {} => RowsOf(seenAt') # {}
        /\ Ordered(seenAt')
        /\ \A i \in RowsOf(stamps) \ RowsOf(seenAt') : i <= Len(chat) - Window - Lag
    BY <1>2, <1>3, <1>6, PrunedRows DEF IInv
  <2> QED BY <1>2, <1>3, <2>1 DEF Rows, Ordered, RowsOf
<1> QED BY <1>4, <1>5, <1>6

\* The adapters' own state after a request.
LEMMA RearmedOwn ==
  ASSUME Types, NEW a \in Adapters, Rearmed(a)
  PROVE  /\ at' \in [Adapters -> Places] /\ upTo' \in [Adapters -> 0..MaxChat]
         /\ at'[a] \in {"idle", "off"} /\ upTo'[a] = 0
         /\ \A b \in Adapters \ {a} : at'[b] = at[b] /\ upTo'[b] = upTo[b]
BY Bounds DEF Types, Rearmed, Places

LEMMA BootKeeps == ASSUME IInv, Boot PROVE IInv'
<1> DEFINE a == Newest + 1
<1>1. /\ a \in Adapters /\ at' = [at EXCEPT ![a] = "token"] /\ routed' = a
      /\ UNCHANGED <<chat, seenAt, marks, upTo, send, loading, handed, skipped>>
  BY DEF Boot, table, inbound, history
<1> HIDE DEF a
<1>2. Types'
  BY <1>1 DEF IInv, Types, Places
<1>3. Core'
  <2>1. /\ \A b \in Asking' : b \in Asking /\ at'[b] = at[b]
        /\ \A b \in Polling' : b \in Polling
    BY <1>1 DEF Asking, Polling, IInv, Types
  <2>2. \A b \in Adapters : upTo'[b] <= Len(chat)
    BY <1>1 DEF IInv, Core, InChat
  <2> QED BY <1>1, <1>2, <2>1, <2>2, QuietStep
<1> QED BY <1>2, <1>3 DEF IInv

LEMMA ReloadKeeps == ASSUME IInv, Reload PROVE IInv'
<1> DEFINE a == Newest + 1
<1>1. /\ a \in Adapters /\ at' = [StopOf(at, current) EXCEPT ![a] = "token"] /\ routed' = a
      /\ UNCHANGED <<chat, seenAt, marks, upTo, send, loading, handed, skipped>>
  BY DEF Reload, table, inbound, history
<1> HIDE DEF a
<1>2. /\ StopOf(at, current) \in [Adapters -> Places]
      /\ \A b \in Adapters : StopOf(at, current)[b] \in {at[b], "off"}
  BY DEF StopOf, IInv, Types, Places
<1>3. /\ at' \in [Adapters -> Places]
      /\ \A b \in Adapters : at'[b] \in {at[b], "off", "token"}
  BY <1>1, <1>2 DEF Places
<1>4. Types'
  BY <1>1, <1>3 DEF IInv, Types
<1>5. Core'
  <2>1. /\ \A b \in Asking' : b \in Asking /\ at'[b] = at[b]
        /\ \A b \in Polling' : b \in Polling
    BY <1>3 DEF Asking, Polling
  <2>2. \A b \in Adapters : upTo'[b] <= Len(chat)
    BY <1>1 DEF IInv, Core, InChat
  <2> QED BY <1>1, <1>4, <2>1, <2>2, QuietStep
<1> QED BY <1>4, <1>5 DEF IInv

LEMMA AsksKeeps ==
  ASSUME IInv, NEW a \in Adapters, Starts(a) \/ Polls(a) PROVE IInv'
<1> USE Bounds
<1>1. /\ upTo' = [upTo EXCEPT ![a] = Len(chat)]
      /\ \E place \in {"baseline", "catchup", "polled"} :
           /\ at' = [at EXCEPT ![a] = place]
           /\ place = "catchup" => Rows # {}
           /\ place = "polled" => at[a] = "idle"
      /\ UNCHANGED <<chat, seenAt, marks, routed, send, loading, handed, skipped>>
  BY DEF Starts, Polls, table, wiring, inbound, history
<1>2. Types'
  BY <1>1 DEF IInv, Types, Places
<1>3. Core'
  <2>1. \A b \in Adapters \ {a} : at'[b] = at[b] /\ upTo'[b] = upTo[b]
    BY <1>1 DEF IInv, Types
  <2>2. upTo'[a] = Len(chat) /\ Len(chat) \in Nat
    BY <1>1 DEF IInv, Types
  <2>3. \A b \in Asking' : \/ b \in Asking /\ at'[b] = at[b] /\ upTo'[b] = upTo[b]
                         \/ upTo'[b] = Len(chat)
    BY <2>1, <2>2 DEF Asking
  <2>4. \A b \in Adapters : upTo'[b] <= Len(chat)
    BY <2>1, <2>2 DEF IInv, Core, InChat
  <2>5. \A b \in Polling' : b \in Polling \/ Rows # {}
    BY <1>1, <2>1 DEF Polling, IInv, Types
  <2> QED BY <1>1, <1>2, <2>3, <2>4, <2>5, QuietStep
<1> QED BY <1>2, <1>3 DEF IInv

LEMMA StartFailsKeeps ==
  ASSUME IInv, NEW a \in Adapters, StartFails(a) PROVE IInv'
<1>1. /\ at' = [at EXCEPT ![a] = "off"]
      /\ UNCHANGED <<chat, seenAt, marks, upTo, routed, send, loading, handed, skipped>>
  BY DEF StartFails, table, inbound, history
<1>2. Types'
  BY <1>1 DEF IInv, Types, Places
<1>3. Core'
  <2>1. /\ \A b \in Asking' : b \in Asking /\ at'[b] = at[b]
        /\ \A b \in Polling' : b \in Polling
    BY <1>1 DEF Asking, Polling, IInv, Types
  <2>2. \A b \in Adapters : upTo'[b] <= Len(chat)
    BY <1>1 DEF IInv, Core, InChat
  <2> QED BY <1>1, <1>2, <2>1, <2>2, QuietStep
<1> QED BY <1>2, <1>3 DEF IInv

\* A request of a's that ends without an answer that is used.
LEMMA AskingEnds ==
  ASSUME IInv, NEW a \in Asking, Rearmed(a), a \in Polling \/ skipped', skipped' \in BOOLEAN,
         skipped => skipped',
         UNCHANGED <<chat, seenAt, marks, routed, send, loading, handed>>
  PROVE  IInv'
<1> USE Bounds
<1>1. /\ a \in Adapters
      /\ at' \in [Adapters -> Places] /\ upTo' \in [Adapters -> 0..MaxChat]
      /\ at'[a] \in {"idle", "off"} /\ upTo'[a] = 0
      /\ \A b \in Adapters \ {a} : at'[b] = at[b] /\ upTo'[b] = upTo[b]
  BY RearmedOwn DEF IInv, Asking
<1>2. Types'
  BY <1>1 DEF IInv, Types
<1>3. /\ \A b \in Asking' : b \in Asking /\ at'[b] = at[b] /\ upTo'[b] = upTo[b]
      /\ \A b \in Polling' : b \in Polling \/ skipped'
  BY <1>1 DEF Asking, Polling
<1>4. \A b \in Adapters : upTo'[b] <= Len(chat)
  <2>1. \A b \in Adapters : upTo[b] <= Len(chat) /\ upTo[b] \in Nat
    BY DEF IInv, Core, InChat, Types
  <2>2. Len(chat) \in Nat
    BY DEF IInv, Types
  <2> QED BY <1>1, <2>1, <2>2
<1>5. Core'
  BY <1>2, <1>3, <1>4, QuietStep
<1> QED BY <1>2, <1>5 DEF IInv

LEMMA PollFailsKeeps ==
  ASSUME IInv, NEW a \in Adapters, PollFails(a) PROVE IInv'
<1>1. a \in Asking /\ a \in Polling
  BY DEF PollFails, Asking, Polling
<1>2. UNCHANGED <<chat, seenAt, marks, routed, send, loading, handed, skipped>>
  BY DEF PollFails, table, inbound, history
<1> QED BY <1>1, <1>2, AskingEnds DEF PollFails, IInv, Types

LEMMA BaselineKeeps ==
  ASSUME IInv, NEW a \in Adapters, Baseline(a) PROVE IInv'
<1> USE Bounds
<1>1. a \in Asking /\ at[a] = "baseline" /\ Rearmed(a)
      /\ UNCHANGED <<chat, routed, send, loading, handed>>
  BY DEF Baseline, Asking, inbound
<1>2. CASE skipped' = TRUE /\ UNCHANGED <<seenAt, marks>>
  BY <1>1, <1>2, AskingEnds
<1>3. CASE seenAt' = Marked(Answer(a)) /\ Marks(Answer(a)) /\ UNCHANGED skipped
  <2>1. /\ Marked(Answer(a)) \in [Ids -> 0..marks + 1]
        /\ Answer(a) \subseteq Rows => Marked(Answer(a)) = seenAt
        /\ RowsOf(Marked(Answer(a))) = Rows \cup Answer(a)
        /\ Ordered(Marked(Answer(a)))
    BY <1>1, MarkedRows DEF IInv, Core
  <2>2. seenAt' \in [Ids -> 0..marks'] /\ marks' \in Nat
    BY <1>3, <2>1 DEF Marks, IInv, Types
  <2>3. /\ at' \in [Adapters -> Places] /\ upTo' \in [Adapters -> 0..MaxChat]
        /\ at'[a] \in {"idle", "off"} /\ upTo'[a] = 0
        /\ \A b \in Adapters \ {a} : at'[b] = at[b] /\ upTo'[b] = upTo[b]
    BY <1>1, RearmedOwn DEF IInv
  <2>4. Types'
    BY <1>1, <1>3, <2>2, <2>3 DEF IInv, Types
  <2>5. TableTakes(a)
    <3>1. Rows' = Rows \cup Answer(a) /\ Ordered(seenAt)'
      BY <1>3, <2>1 DEF Rows, Ordered, RowsOf
    <3>2. Polling' \subseteq Polling \cup {a}
      BY <2>3 DEF Polling
    <3> QED BY <1>1, <1>3, <2>3, <3>1, <3>2 DEF TableTakes
  <2>6. Core'
    BY <1>1, <2>4, <2>5, BaselineStep
  <2> QED BY <2>4, <2>6 DEF IInv
<1> QED BY <1>2, <1>3 DEF Baseline

\* Handing over keeps the types.
LEMMA HandedTypes ==
  ASSUME Types, NEW a \in Adapters, NEW ids
  PROVE  HandedBy(a, ids) \in [Ids -> Seq(Adapters)]
BY DEF Types, HandedBy

LEMMA PollAnsweredKeeps ==
  ASSUME IInv, NEW a \in Adapters, PollAnswered(a) PROVE IInv'
<1> USE Bounds
<1> DEFINE files == Files(Fresh(a) \ Echoes(a, Fresh(a)))
           texts == ((Fresh(a) \ Echoes(a, Fresh(a))) \ Files(Fresh(a))) \ Empty(Fresh(a))
<1>1. /\ a \in Reading /\ Rearmed(a) /\ Stores(a)
      /\ handed' = HandedBy(a, texts) /\ loading' = loading \cup files \X {a}
      /\ UNCHANGED <<chat, routed, send, skipped>>
  BY DEF PollAnswered, Reading, HandsOver, Downloads, history
<1>2. /\ texts \in SUBSET Fresh(a) /\ files \in SUBSET Fresh(a) /\ texts \cap files = {}
  BY DEF Files
<1>3. Fresh(a) \subseteq Ids
  BY DEF Fresh, Answer, Ids, IInv, Types
<1> HIDE DEF files, texts
<1>4. /\ at' \in [Adapters -> Places] /\ upTo' \in [Adapters -> 0..MaxChat]
      /\ at'[a] \in {"idle", "off"} /\ upTo'[a] = 0
      /\ \A b \in Adapters \ {a} : at'[b] = at[b] /\ upTo'[b] = upTo[b]
  BY <1>1, RearmedOwn DEF IInv
<1>5. /\ seenAt' \in [Ids -> 0..marks'] /\ marks' \in Nat
      /\ Ordered(seenAt)'
      /\ Rows' \subseteq Rows \cup Answer(a)
      /\ Rows \cup Answer(a) # {} => Rows' # {}
      /\ \A i \in (Rows \cup Answer(a)) \ Rows' : i <= Len(chat) - Window - Lag
  BY <1>1, StoresTable
<1>6. loading' \subseteq Handing
  BY <1>1, <1>2, <1>3 DEF IInv, Types, Handing
<1>7. handed' \in [Ids -> Seq(Adapters)]
  BY <1>1, HandedTypes DEF IInv
<1>8. Types'
  BY <1>1, <1>4, <1>5, <1>6, <1>7 DEF IInv, Types
<1>9. TableTakes(a)
  <2>1. Polling' \subseteq Polling \cup {a}
    BY <1>4 DEF Polling
  <2> QED BY <1>1, <1>4, <1>5, <2>1 DEF TableTakes
<1>10. Core'
  BY <1>1, <1>2, <1>8, <1>9, ReadStep
<1> QED BY <1>8, <1>10 DEF IInv

LEMMA CrashKeeps == ASSUME IInv, Crash PROVE IInv'
<1> USE Bounds
<1>1. /\ at' = [a \in Adapters |-> IF at[a] = "new" THEN "new" ELSE "off"]
      /\ upTo' = [a \in Adapters |-> 0]
      /\ send' = [s \in Slots |-> IdleSend]
      /\ loading' = {}
      /\ UNCHANGED <<chat, routed, skipped>>
  BY DEF Crash
<1>2. /\ at' \in [Adapters -> Places] /\ upTo' \in [Adapters -> 0..MaxChat]
      /\ send' \in [Slots -> SendStates] /\ \A s \in Slots : send'[s].at # "posting"
      /\ loading' \subseteq Handing
  BY <1>1 DEF Places, SendStates, IdleSend
<1>3. Asking' = {} /\ Polling' = {} /\ \A b \in Adapters : upTo'[b] <= Len(chat)
  BY <1>1 DEF Asking, Polling, IInv, Types
<1>4. CASE UNCHANGED <<seenAt, marks, handed>>
  <2>1. Types'
    BY <1>1, <1>2, <1>4 DEF IInv, Types
  <2>2. InChat' /\ AnswersRecent' /\ Ordered(seenAt)'
    <3>1. Rows' = Rows /\ \A b \in Adapters : at'[b] # "baseline"
      BY <1>1, <1>4 DEF Rows
    <3> QED BY <1>1, <1>3, <1>4, <3>1 DEF IInv, Core, InChat, AnswersRecent, Ordered, RowsOf
  <2>3. \A i \in Ids : Settled(i) => Settled(i)'
    <3>1. Reading' = {} /\ Rows' = Rows
      BY <1>3, <1>4 DEF Reading, Polling, Rows
    <3> QED BY <1>1, <3>1 DEF Settled, Old
  <2>4. HandedSettled' /\ InHandOnce'
    BY <1>1, <1>4, <2>3 DEF IInv, Core, HandedSettled, InHandOnce
  <2>5. HistoryKnown'
    <3>1. Rows' = Rows
      BY <1>4 DEF Rows
    <3>2. \A i \in 1..History : i \in Ids
      BY DEF Ids
    <3> QED BY <1>1, <1>3, <1>4, <2>3, <3>1, <3>2 DEF IInv, Core, HistoryKnown
  <2> QED BY <2>1, <2>2, <2>4, <2>5 DEF IInv, Core
<1>5. ASSUME NEW a \in Adapters, NEW next \in Fresh(a), at[a] \in {"catchup", "polled"},
             Stores(a), HandsOver(a, {i \in Fresh(a) : i < next})
      PROVE  IInv'
  <2> DEFINE before == {i \in Fresh(a) : i < next}
             texts == ((before \ Echoes(a, before)) \ Files(before)) \ Empty(before)
  <2>1. a \in Reading /\ handed' = HandedBy(a, texts) /\ texts \in SUBSET Fresh(a)
    BY <1>5 DEF Reading, HandsOver
  <2> HIDE DEF texts
  <2>2. /\ seenAt' \in [Ids -> 0..marks'] /\ marks' \in Nat
        /\ Ordered(seenAt)'
        /\ Rows' \subseteq Rows \cup Answer(a)
        /\ Rows \cup Answer(a) # {} => Rows' # {}
        /\ \A i \in (Rows \cup Answer(a)) \ Rows' : i <= Len(chat) - Window - Lag
    BY <1>5, <2>1, StoresTable
  <2>3. Types'
    <3>1. handed' \in [Ids -> Seq(Adapters)]
      BY <2>1, HandedTypes DEF IInv
    <3> QED BY <1>1, <1>2, <2>2, <3>1 DEF IInv, Types
  <2>4. TableTakes(a)
    BY <1>1, <1>3, <2>2 DEF TableTakes
  <2>5. Core'
    <3>1. {} \in SUBSET Fresh(a) /\ texts \cap {} = {}
      OBVIOUS
    <3> QED BY <1>1, <2>1, <2>3, <2>4, <3>1, ReadStep
  <2> QED BY <2>3, <2>5 DEF IInv
<1> QED BY <1>4, <1>5 DEF Crash

LEMMA LoadedKeeps == ASSUME IInv, NEW f \in loading, Loaded(f) PROVE IInv'
<1> DEFINE i == f[1]
           a == f[2]
<1>1. i \in Ids /\ a \in Adapters /\ handed[i] = <<>> /\ Settled(i)
      /\ \A g \in loading : g[1] = i => g = f
  BY DEF IInv, Types, Handing, Core, InHandOnce, HandedSettled
<1>2. /\ loading' = loading \ {f}
      /\ handed' = HandedBy(a, {i}) \/ handed' = handed
      /\ UNCHANGED <<chat, seenAt, marks, at, upTo, routed, send, skipped>>
  BY DEF Loaded, table, own, wiring, history
<1> HIDE DEF i, a
<1>3. \A k \in Ids : handed'[k] = handed[k] \/ (k = i /\ handed'[k] = Append(handed[k], a))
  BY <1>2 DEF HandedBy
<1>4. Types'
  <2>1. handed' \in [Ids -> Seq(Adapters)]
    BY <1>1, <1>2, HandedTypes DEF IInv, Types
  <2> QED BY <1>2, <2>1 DEF IInv, Types
<1>5. InChat' /\ AnswersRecent' /\ Ordered(seenAt)'
  BY <1>2 DEF IInv, Core, InChat, AnswersRecent, Asking, Rows, Ordered, RowsOf
<1>6. \A k \in Ids : Settled(k)' = Settled(k)
  BY <1>2 DEF Settled, Old, Rows, Reading
<1>7. HandedSettled'
  BY <1>1, <1>2, <1>3, <1>6 DEF IInv, Core, HandedSettled
<1>8. InHandOnce'
  <2>1. ASSUME NEW k \in Ids PROVE Len(handed'[k]) <= 1
    <3>1. CASE handed'[k] = handed[k]
      BY <3>1 DEF IInv, Core, InHandOnce
    <3>2. CASE k = i /\ handed'[k] = Append(handed[k], a)
      <4>1. handed'[k] = Append(<<>>, a)
        BY <1>1, <3>2
      <4> QED BY <4>1
    <3> QED BY <1>3, <3>1, <3>2
  <2>2. ASSUME NEW k \in Ids, NEW g \in loading', g[1] = k PROVE handed'[k] = <<>>
    <3>1. g \in loading /\ k # i
      BY <1>1, <1>2, <2>2
    <3> QED BY <1>3, <2>2, <3>1 DEF IInv, Core, InHandOnce
  <2>3. ASSUME NEW g \in loading', NEW h \in loading', g[1] = h[1] PROVE g = h
    BY <1>2, <2>3 DEF IInv, Core, InHandOnce
  <2> QED BY <2>1, <2>2, <2>3 DEF InHandOnce
<1>9. HistoryKnown'
  <2>1. Rows' = Rows /\ Polling' = Polling
    BY <1>2 DEF Rows, Polling
  <2>2. \A k \in 1..History : k \in Ids
    BY Bounds DEF Ids
  <2>3. i = f[1]
    BY DEF i
  <2> QED BY <1>2, <1>3, <1>6, <2>1, <2>2, <2>3 DEF IInv, Core, HistoryKnown
<1> QED BY <1>4, <1>5, <1>7, <1>8, <1>9 DEF IInv, Core

\* Sending changes nothing but the sends and, perhaps, the chat.
LEMMA SendKeeps ==
  ASSUME IInv, NEW s \in Slots, NEW record, Step(s, record),
         record \in SendStates, record.at = "posting" => record.chunk \in 1..Len(record.job),
         \/ UNCHANGED chat
         \/ MayPost /\ \E p \in Posts : chat' = Append(chat, p),
         UNCHANGED <<seenAt, marks, at, upTo, routed, loading, handed, skipped>>
  PROVE  IInv'
<1> USE Bounds
<1>1. /\ send' \in [Slots -> SendStates]
      /\ \A t \in Slots : send'[t].at = "posting" => send'[t].chunk \in 1..Len(send'[t].job)
  BY DEF Step, IInv, Types
<1>2. chat' \in Seq(Posts) /\ Len(chat') <= MaxChat
  <2>1. chat \in Seq(Posts) /\ Len(chat) <= MaxChat
    BY DEF IInv, Types
  <2>2. CASE MayPost /\ \E p \in Posts : chat' = Append(chat, p)
    BY <2>1, <2>2 DEF MayPost
  <2> QED BY <2>1, <2>2
<1>3. Types'
  BY <1>1, <1>2 DEF IInv, Types
<1>4. Core'
  <2>1. CASE UNCHANGED chat
    <3>1. /\ \A b \in Asking' : b \in Asking /\ at'[b] = at[b]
          /\ \A b \in Polling' : b \in Polling
      BY DEF Asking, Polling
    <3>2. \A b \in Adapters : upTo'[b] <= Len(chat)
      BY DEF IInv, Core, InChat
    <3> QED BY <1>3, <2>1, <3>1, <3>2, QuietStep
  <2>2. CASE MayPost /\ \E p \in Posts : chat' = Append(chat, p)
    BY <1>3, <2>2, PostStep
  <2> QED BY <2>1, <2>2
<1> QED BY <1>3, <1>4 DEF IInv

\* What a send under way is about.
LEMMA SendUnderWay ==
  ASSUME IInv, NEW s \in Slots
  PROVE  /\ send[s].at \in {"waiting", "posting"} => send[s].by \in Adapters /\ send[s].job \in Jobs
         /\ send[s].at = "posting" =>
              /\ send[s] \in [at : {"posting"}, by : Adapters, job : Jobs, chunk : Nat,
                              retry : BOOLEAN]
              /\ send[s].chunk \in 1..Len(send[s].job)
              /\ Accepted(s) => MayPost /\ \E p \in Posts : chat' = Append(chat, p)
<1>1. send[s] \in SendStates
  BY DEF IInv, Types
<1>2. send[s].at \in {"waiting", "posting"} => send[s].by \in Adapters /\ send[s].job \in Jobs
  BY <1>1 DEF SendStates, IdleSend
<1>3. ASSUME send[s].at = "posting"
      PROVE  /\ send[s] \in [at : {"posting"}, by : Adapters, job : Jobs, chunk : Nat,
                              retry : BOOLEAN]
             /\ send[s].chunk \in 1..Len(send[s].job)
  BY <1>1, <1>3 DEF SendStates, IdleSend, IInv, Types
<1>4. ASSUME send[s].at = "posting", Accepted(s)
      PROVE  MayPost /\ \E p \in Posts : chat' = Append(chat, p)
  <2> DEFINE c == send[s].job[send[s].chunk]
  <2>1. c \in Chunk
    BY <1>2, <1>3, <1>4, JobsAssumption
  <2>2. [by |-> send[s].by, text |-> c.text, kind |-> c.kind] \in Posts
    BY <1>2, <1>4, <2>1 DEF Chunk, Posts
  <2> QED BY <1>4, <2>2 DEF Accepted
<1> QED BY <1>2, <1>3, <1>4

LEMMA BeginsKeeps ==
  ASSUME IInv, NEW s \in Slots, NEW a \in Adapters, NEW job \in Jobs, NEW retry \in BOOLEAN,
         Begins(s, a, job, retry)
  PROVE  IInv'
<1> DEFINE record == [at |-> "posting", by |-> a, job |-> job, chunk |-> 1, retry |-> retry]
<1>1. record \in SendStates
  BY DEF SendStates
<1>2. 1 \in 1..Len(job)
  BY JobsAssumption
<1>3. record.at = "posting" => record.chunk \in 1..Len(record.job)
  BY <1>2
<1>4. Step(s, record)
  BY DEF Begins
<1>5. UNCHANGED <<chat, seenAt, marks, at, upTo, routed, loading, handed, skipped>>
  BY DEF Begins, table, wiring, inbound
<1> HIDE DEF record
<1> QED BY <1>1, <1>3, <1>4, <1>5, SendKeeps

LEMMA SlotKeeps ==
  ASSUME IInv, NEW s \in Slots,
         Posted(s) \/ SendFails(s) \/ Resends(s) \/ ResendFails(s)
  PROVE  IInv'
<1>1. IdleSend \in SendStates /\ IdleSend.at # "posting"
  BY DEF SendStates, IdleSend
<1>2. CASE Posted(s)
  <2>1. send[s].at = "posting" /\ Accepted(s)
        /\ UNCHANGED <<seenAt, marks, at, upTo, routed, loading, handed, skipped>>
    BY <1>2 DEF Posted, Sending, wiring, inbound
  <2>2. PICK record : /\ Step(s, record)
                      /\ \/ record = IdleSend
                         \/ /\ record = [send[s] EXCEPT !.chunk = send[s].chunk + 1]
                            /\ send[s].chunk # Len(send[s].job)
    BY <1>2 DEF Posted
  <2>3. record \in SendStates /\ (record.at = "posting" => record.chunk \in 1..Len(record.job))
    <3>1. CASE record = IdleSend
      BY <1>1, <3>1
    <3>2. CASE record # IdleSend
      <4>1. /\ send[s] \in [at : {"posting"}, by : Adapters, job : Jobs, chunk : Nat,
                            retry : BOOLEAN]
            /\ send[s].chunk \in 1..Len(send[s].job) /\ send[s].chunk # Len(send[s].job)
            /\ record = [send[s] EXCEPT !.chunk = send[s].chunk + 1]
        BY <2>1, <2>2, <3>2, SendUnderWay
      <4>2. /\ record \in [at : {"posting"}, by : Adapters, job : Jobs, chunk : Nat,
                           retry : BOOLEAN]
            /\ record.chunk = send[s].chunk + 1 /\ record.job = send[s].job
        BY <4>1
      <4>3. Len(send[s].job) \in Nat
        BY <4>1, JobsAssumption
      <4>4. record.chunk \in 1..Len(record.job)
        BY <4>1, <4>2, <4>3
      <4> QED BY <4>2, <4>4 DEF SendStates
    <3> QED BY <3>1, <3>2
  <2> QED BY <2>1, <2>2, <2>3, SendUnderWay, SendKeeps
<1>3. CASE SendFails(s)
  <2>1. send[s].at = "posting" /\ (UNCHANGED chat \/ Accepted(s))
        /\ UNCHANGED <<seenAt, marks, at, upTo, routed, loading, handed, skipped>>
    BY <1>3 DEF SendFails, Sending, own, wiring, inbound, history
  <2>2. PICK record : /\ Step(s, record)
                      /\ record \in {IdleSend, [at |-> "waiting", by |-> send[s].by,
                                               job |-> send[s].job]}
    BY <1>3 DEF SendFails
  <2>3. record \in SendStates /\ record.at # "posting"
    BY <1>1, <2>1, <2>2, SendUnderWay DEF SendStates
  <2> QED BY <2>1, <2>2, <2>3, SendUnderWay, SendKeeps
<1>4. CASE Resends(s)
  BY <1>4, SendUnderWay, BeginsKeeps DEF Resends, Sending
<1>5. CASE ResendFails(s)
  <2>1. Step(s, IdleSend)
        /\ UNCHANGED <<chat, seenAt, marks, at, upTo, routed, loading, handed, skipped>>
    BY <1>5 DEF ResendFails, table, own, wiring, inbound, history
  <2> QED BY <1>1, <2>1, SendKeeps
<1> QED BY <1>2, <1>3, <1>4, <1>5

LEMMA UserPostsKeeps ==
  ASSUME IInv, NEW text \in Texts \cup {NoText}, NEW kind \in {"text", "file"},
         UserPosts(text, kind)
  PROVE  IInv'
<1> USE Bounds
<1>1. [by |-> NoAdapter, text |-> text, kind |-> kind] \in Posts
  BY DEF Posts
<1>2. MayPost /\ chat' = Append(chat, [by |-> NoAdapter, text |-> text, kind |-> kind])
      /\ UNCHANGED <<seenAt, marks, at, upTo, routed, send, loading, handed, skipped>>
  BY DEF UserPosts, own, wiring, inbound, history
<1>3. chat' \in Seq(Posts) /\ Len(chat') <= MaxChat
  BY <1>1, <1>2 DEF IInv, Types, MayPost
<1>4. Types'
  BY <1>2, <1>3 DEF IInv, Types
<1>5. Core'
  BY <1>1, <1>2, <1>4, PostStep
<1> QED BY <1>4, <1>5 DEF IInv
-----------------------------------------------------------------------------
(* The theorems *)

LEMMA InitHolds == Init => IInv
<1> SUFFICES ASSUME Init PROVE IInv
  OBVIOUS
<1> USE Bounds
<1>1. chat \in Seq(Posts) /\ Len(chat) = History
  <2>1. chat \in [1..History -> Posts]
    BY BoundsAssumption DEF Init, Posts
  <2> QED BY <2>1
<1>2. Rows = {} /\ Reading = {} /\ Polling = {} /\ Asking = {}
  BY DEF Init, Rows, RowsOf, Reading, Polling, Asking
<1>3. Types
  <2>1. 1 \in Adapters
    BY DEF Adapters
  <2>2. send \in [Slots -> SendStates] /\ \A s \in Slots : send[s].at # "posting"
    BY DEF Init, SendStates, IdleSend
  <2>3. marks = 0 /\ skipped = FALSE /\ seenAt = [i \in Ids |-> 0]
    BY DEF Init
  <2>4. seenAt \in [Ids -> 0..marks]
    BY <2>3
  <2>5. at \in [Adapters -> Places] /\ upTo \in [Adapters -> 0..MaxChat] /\ routed \in Adapters
    BY <2>1 DEF Init, Places
  <2>6. loading \subseteq Handing /\ handed \in [Ids -> Seq(Adapters)]
    BY DEF Init
  <2> QED BY <1>1, <2>2, <2>3, <2>4, <2>5, <2>6 DEF Types
<1>4. InChat /\ AnswersRecent /\ Ordered(seenAt)
  BY <1>1, <1>2 DEF InChat, AnswersRecent, Ordered, Init, Rows
<1>5. HandedSettled /\ InHandOnce /\ HistoryKnown
  BY <1>2 DEF Init, HandedSettled, InHandOnce, HistoryKnown, Ids
<1> QED BY <1>3, <1>4, <1>5 DEF IInv, Core

LEMMA NextKeeps == IInv /\ [Next]_vars => IInv'
<1> SUFFICES ASSUME IInv, [Next]_vars PROVE IInv'
  OBVIOUS
<1>1. CASE UNCHANGED vars
  BY <1>1 DEF IInv, Types, Core, InChat, AnswersRecent, Ordered, HandedSettled, InHandOnce,
       HistoryKnown, Settled, Old, Reading, Polling, Asking, Rows, RowsOf,
       vars, table, own, wiring, inbound, process, history
<1>2. CASE Boot \/ Reload \/ Crash
  BY <1>2, BootKeeps, ReloadKeeps, CrashKeeps
<1>3. ASSUME NEW a \in Adapters, AdapterSteps(a) PROVE IInv'
  BY <1>3, AsksKeeps, StartFailsKeeps, BaselineKeeps, PollAnsweredKeeps, PollFailsKeeps
     DEF AdapterSteps
<1>4. ASSUME NEW f \in loading, Loaded(f) PROVE IInv'
  BY <1>4, LoadedKeeps
<1>5. ASSUME NEW s \in Slots, Posted(s) \/ SendFails(s) \/ Resends(s) \/ ResendFails(s)
      PROVE  IInv'
  BY <1>5, SlotKeeps
<1>6. ASSUME NEW s \in Slots, NEW job \in Jobs, Sends(s, job) PROVE IInv'
  BY <1>6, BeginsKeeps DEF Sends, IInv, Types
<1>7. ASSUME NEW t \in UserTexts \cup {NoText}, NEW kind \in {"text", "file"},
             UserPosts(t, kind)
      PROVE  IInv'
  BY <1>7, BoundsAssumption, UserPostsKeeps
<1> QED BY <1>1, <1>2, <1>3, <1>4, <1>5, <1>6, <1>7 DEF Next

\* The inductive invariant holds of every behaviour of the channel.
THEOREM InvariantHolds == Spec => []IInv
BY InitHolds, NextKeeps, PTL DEF Spec

\* No message reaches the head twice, whatever adapters read it, however late their
\* answers are, and although the table forgets.
THEOREM MessagesHandedOnce == Spec => []HandedOnce
<1>1. IInv => HandedOnce
  <2> SUFFICES ASSUME IInv, NEW i \in Ids
               PROVE  Len(handed[i]) + Cardinality({f \in loading : f[1] = i}) <= 1
    BY DEF HandedOnce
  <2> DEFINE under == {f \in loading : f[1] = i}
  <2>1. Len(handed[i]) \in Nat /\ Len(handed[i]) <= 1
    BY DEF IInv, Types, Core, InHandOnce
  <2>2. CASE under = {}
    <3>1. Cardinality(under) = 0
      BY <2>2, FS_EmptySet
    <3> HIDE DEF under
    <3> QED BY <2>1, <3>1 DEF under
  <2>3. CASE under # {}
    <3>1. PICK f \in loading : f[1] = i /\ under = {f}
      BY <2>3 DEF IInv, Core, InHandOnce
    <3>2. handed[i] = <<>>
      BY <3>1 DEF IInv, Core, InHandOnce
    <3>3. Cardinality(under) = 1
      BY <3>1, FS_Singleton
    <3> QED BY <3>2, <3>3
  <2> QED BY <2>2, <2>3
<1> QED BY <1>1, InvariantHolds, PTL

\* History that a cold start baselined never reaches the head, however often the
\* process or the adapter is replaced and the table pruned.
THEOREM HistoryKeptOut == Spec => []HistoryStaysOut
<1>1. IInv => HistoryStaysOut
  BY DEF IInv, Core, HistoryKnown, HistoryStaysOut, Got
<1> QED BY <1>1, InvariantHolds, PTL

-----------------------------------------------------------------------------
(* Forgetting the texts that were read back *)

\* Every set of natural numbers that is not empty has a smallest one: the form
\* in which the proofs below use induction.
LEMMA Smallest ==
  ASSUME NEW T \in SUBSET Nat, T # {}
  PROVE  \E x \in T : \A y \in T : x <= y
<1> DEFINE R == OpToRel(<, Nat)
<1>1. IsWellFoundedOn(R, Nat)
  BY NatLessThanWellFounded
<1>2. \A x, y \in Nat : <<x, y>> \in R <=> x < y
  BY DEF OpToRel
<1>3. PICK x \in T : \A y \in T : ~(<<y, x>> \in R)
  <2> HIDE DEF R
  <2> QED BY <1>1, WFMin
<1>4. \A y \in T : ~(y < x)
  BY <1>2, <1>3
<1> HIDE DEF R
<1> QED BY <1>4

\* One step of Without.
Left(texts, gone, left, n) ==
  IF n = 0 THEN <<>>
  ELSE IF texts[n] \in gone THEN left[n - 1] ELSE Append(left[n - 1], texts[n])

\* The recursion of Without has a solution.
LEMMA LeftExists ==
  ASSUME NEW S, NEW texts \in Seq(S), NEW gone
  PROVE  \E left : left = [n \in 0..Len(texts) |-> Left(texts, gone, left, n)]
<1> DEFINE Solved(k) == \E left : left = [n \in 0..k |-> Left(texts, gone, left, n)]
           T == {k \in Nat : ~Solved(k)}
<1>1. Solved(0)
  <2> DEFINE left == [n \in 0..0 |-> <<>>]
  <2>1. left = [n \in 0..0 |-> Left(texts, gone, left, n)]
    BY DEF Left
  <2> QED BY <2>1
<1>2. ASSUME NEW k \in Nat, Solved(k) PROVE Solved(k + 1)
  <2>1. PICK left : left = [n \in 0..k |-> Left(texts, gone, left, n)]
    BY <1>2
  <2> DEFINE more == [n \in 0..k + 1 |-> IF n = k + 1 THEN Left(texts, gone, left, n) ELSE left[n]]
  <2>2. ASSUME NEW n \in 0..k + 1 PROVE more[n] = Left(texts, gone, more, n)
    <3>1. CASE n = 0
      <4>1. 0 \in 0..k /\ 0 # k + 1
        OBVIOUS
      <4>2. left[0] = Left(texts, gone, left, 0)
        BY <2>1, <4>1
      <4> QED BY <3>1, <4>1, <4>2 DEF Left
    <3>2. CASE n # 0
      <4>1. n - 1 \in 0..k /\ n - 1 \in 0..k + 1 /\ n - 1 # k + 1
        BY <3>2
      <4>2. more[n - 1] = left[n - 1]
        BY <4>1
      <4>3. more[n] = Left(texts, gone, left, n)
        <5>1. CASE n = k + 1
          BY <5>1
        <5>2. CASE n # k + 1
          <6>1. n \in 0..k
            BY <5>2
          <6>2. left[n] = Left(texts, gone, left, n)
            BY <2>1, <6>1
          <6> QED BY <5>2, <6>2
        <5> QED BY <5>1, <5>2
      <4> HIDE DEF more
      <4> QED BY <3>2, <4>2, <4>3 DEF Left
    <3> QED BY <3>1, <3>2
  <2>3. more = [n \in 0..k + 1 |-> Left(texts, gone, more, n)]
    <3>1. more = [n \in 0..k + 1 |-> more[n]]
      OBVIOUS
    <3> HIDE DEF more
    <3> QED BY <2>2, <3>1
  <2> QED BY <2>3
<1> HIDE DEF Solved
<1>3. CASE T = {}
  <2>1. Len(texts) \in Nat /\ Len(texts) \notin T
    BY <1>3
  <2> QED BY <2>1 DEF Solved
<1>4. CASE T # {}
  <2>1. PICK k \in T : \A j \in T : k <= j
    BY <1>4, Smallest
  <2>2. k # 0 /\ k \in Nat
    BY <1>1
  <2>3. k - 1 \in Nat /\ k - 1 \notin T
    BY <2>1, <2>2
  <2>4. Solved(k - 1) /\ (k - 1) + 1 = k
    BY <2>2, <2>3
  <2> QED BY <1>2, <2>1, <2>3, <2>4
<1> QED BY <1>3, <1>4

\* What is left of a list of texts are the texts that are not gone, each as
\* often as before.
LEMMA WithoutFacts ==
  ASSUME NEW S, NEW texts \in Seq(S), NEW gone
  PROVE  /\ Without(texts, gone) \in Seq(S)
         /\ ToSet(Without(texts, gone)) = ToSet(texts) \ gone
         /\ IsInjective(texts) => IsInjective(Without(texts, gone))
<1> DEFINE left == CHOOSE f : f = [n \in 0..Len(texts) |-> Left(texts, gone, f, n)]
<1>1. left = [n \in 0..Len(texts) |-> Left(texts, gone, left, n)]
  BY LeftExists
<1>2. Without(texts, gone) = left[Len(texts)]
  BY DEF Without, Left
<1> HIDE DEF left
<1>3. \A n \in 0..Len(texts) : left[n] = Left(texts, gone, left, n)
  BY <1>1
<1> DEFINE Good(n) ==
             /\ left[n] \in Seq(S)
             /\ ToSet(left[n]) = {texts[i] : i \in 1..n} \ gone
             /\ IsInjective(texts) => IsInjective(left[n])
           T == {n \in Nat : n <= Len(texts) /\ ~Good(n)}
<1>4. Good(0)
  <2>1. left[0] = <<>>
    BY <1>3 DEF Left
  <2> QED BY <2>1 DEF ToSet, IsInjective
<1>5. ASSUME NEW n \in 1..Len(texts), Good(n - 1) PROVE Good(n)
  <2>1. {texts[i] : i \in 1..n} = {texts[i] : i \in 1..n - 1} \cup {texts[n]}
    OBVIOUS
  <2>2. left[n] = IF texts[n] \in gone THEN left[n - 1] ELSE Append(left[n - 1], texts[n])
    BY <1>3 DEF Left
  <2>3. CASE texts[n] \in gone
    BY <1>5, <2>1, <2>2, <2>3
  <2>4. CASE texts[n] \notin gone
    <3> DEFINE old == left[n - 1]
               t == texts[n]
    <3>1. left[n] = Append(old, t) /\ t \in S /\ old \in Seq(S)
      BY <1>5, <2>2, <2>4
    <3>2. left[n] \in Seq(S)
      BY <3>1
    <3>3. ToSet(left[n]) = ToSet(old) \cup {t}
      <4> HIDE DEF old, t
      <4> QED BY <3>1 DEF ToSet
    <3>4. IsInjective(texts) => IsInjective(left[n])
      <4> SUFFICES ASSUME IsInjective(texts) PROVE IsInjective(left[n])
        OBVIOUS
      <4>1. t \notin ToSet(old)
        BY <1>5 DEF IsInjective
      <4>2. IsInjective(old)
        BY <1>5
      <4> HIDE DEF old, t
      <4> QED BY <3>1, <4>1, <4>2 DEF IsInjective, ToSet
    <3> QED BY <1>5, <2>1, <2>4, <3>2, <3>3, <3>4
  <2> QED BY <2>3, <2>4
<1> HIDE DEF Good
<1>6. CASE T = {}
  <2>1. Good(Len(texts))
    BY <1>6
  <2>2. {texts[i] : i \in 1..Len(texts)} = ToSet(texts)
    BY DEF ToSet
  <2> QED BY <1>2, <2>1, <2>2 DEF Good
<1>7. CASE T # {}
  <2>1. PICK n \in T : \A j \in T : n <= j
    BY <1>7, Smallest
  <2>2. n \in 1..Len(texts)
    BY <1>4
  <2>3. n - 1 \in Nat /\ n - 1 \notin T /\ n - 1 <= Len(texts)
    BY <2>1, <2>2
  <2> QED BY <1>5, <2>2, <2>3
<1> QED BY <1>6, <1>7

-----------------------------------------------------------------------------
(* The rest of the state: what an adapter remembers, and the wiring *)

\* The types of what IInv does not speak of.
Memory ==
  /\ recent \in [Adapters -> Seq(Texts)]
  /\ \A a \in Adapters : IsInjective(recent[a])
  /\ polls \in [Adapters -> 0..PruneEvery - 1]
  /\ stopped \subseteq Adapters
  /\ current \in Adapters /\ reloading \subseteq Adapters
  /\ up \in BOOLEAN /\ crashes \in 0..MaxCrashes
  /\ said \subseteq Texts /\ forgotten \subseteq Texts
  /\ {baselined, crashedAt} \subseteq 0..MaxChat

\* Remembering a chunk before it is posted.
LEMMA AddedFacts ==
  ASSUME NEW texts \in Seq(Texts), IsInjective(texts), NEW c \in Chunk
  PROVE  /\ Added(texts, c) \in Seq(Texts)
         /\ IsInjective(Added(texts, c))
         /\ ToSet(texts) \subseteq ToSet(Added(texts, c))
         /\ c.kind = "text" => c.text \in Texts /\ c.text \in ToSet(Added(texts, c))
         /\ ToSet(Added(texts, c)) \subseteq
              ToSet(texts) \cup (IF c.kind = "label" THEN {} ELSE {c.text})
<1>1. c.kind \in {"text", "label"} /\ (c.kind = "text" => c.text \in Texts)
  BY DEF Chunk
<1>2. CASE c.kind = "label" \/ Contains(texts, c.text)
  <2>1. Added(texts, c) = texts
    BY <1>2 DEF Added
  <2> QED BY <1>1, <1>2, <2>1 DEF Contains, ToSet
<1>3. CASE c.kind # "label" /\ ~Contains(texts, c.text)
  <2>1. Added(texts, c) = Append(texts, c.text) /\ c.text \in Texts /\ c.kind = "text"
    BY <1>1, <1>3 DEF Added
  <2>2. c.text \notin ToSet(texts)
    BY <1>3 DEF Contains, ToSet
  <2>3. PICK more : more = Append(texts, c.text)
    OBVIOUS
  <2>4. /\ more \in Seq(Texts) /\ Len(more) = Len(texts) + 1 /\ more[Len(more)] = c.text
        /\ \A i \in 1..Len(texts) : more[i] = texts[i]
    BY <2>1, <2>3
  <2>5. ToSet(more) = ToSet(texts) \cup {c.text}
    BY <2>4 DEF ToSet
  <2>6. IsInjective(more)
    <3> SUFFICES ASSUME NEW i \in 1..Len(more), NEW j \in 1..Len(more), more[i] = more[j]
                 PROVE  i = j
      BY <2>4 DEF IsInjective
    <3>1. CASE i <= Len(texts) /\ j <= Len(texts)
      BY <2>4, <3>1 DEF IsInjective
    <3>2. CASE i = Len(more) \/ j = Len(more)
      BY <2>2, <2>4, <3>2 DEF ToSet
    <3> QED BY <2>4, <3>1, <3>2
  <2> QED BY <2>1, <2>3, <2>4, <2>5, <2>6
<1> QED BY <1>2, <1>3

\* Forgetting the oldest text.
LEMMA TailFacts ==
  ASSUME NEW texts \in Seq(Texts), IsInjective(texts), Len(texts) > 0
  PROVE  /\ Tail(texts) \in Seq(Texts) /\ IsInjective(Tail(texts))
         /\ Head(texts) \in Texts /\ Head(texts) \in ToSet(texts)
         /\ ToSet(texts) = ToSet(Tail(texts)) \cup {Head(texts)}
<1>1. PICK rest : rest = Tail(texts)
  OBVIOUS
<1>2. /\ rest \in Seq(Texts) /\ Len(rest) = Len(texts) - 1
      /\ \A i \in 1..Len(rest) : rest[i] = texts[i + 1]
  BY <1>1
<1>3. IsInjective(rest)
  BY <1>2 DEF IsInjective
<1>4. Head(texts) = texts[1] /\ Head(texts) \in Texts
  OBVIOUS
<1>5. ToSet(texts) = ToSet(rest) \cup {texts[1]}
  <2>1. ASSUME NEW i \in 1..Len(texts) PROVE texts[i] \in ToSet(rest) \cup {texts[1]}
    <3>1. CASE i = 1
      BY <3>1
    <3>2. CASE i # 1
      <4>1. i - 1 \in 1..Len(rest) /\ rest[i - 1] = texts[i]
        BY <1>2, <3>2
      <4> QED BY <1>2, <4>1 DEF ToSet
    <3> QED BY <3>1, <3>2
  <2>2. ASSUME NEW i \in 1..Len(rest) PROVE rest[i] \in ToSet(texts)
    <3>1. i + 1 \in 1..Len(texts)
      BY <1>2
    <3> QED BY <1>2, <3>1 DEF ToSet
  <2>3. texts[1] \in ToSet(texts)
    BY DEF ToSet
  <2> QED BY <1>2, <2>1, <2>2, <2>3 DEF ToSet
<1> QED BY <1>1, <1>2, <1>3, <1>4, <1>5 DEF ToSet

\* What sending does to the memory of the adapter that sends: it learns the text
\* of the next chunk, and what it forgets is counted as forgotten.
Learns(a) ==
  /\ recent' \in [Adapters -> Seq(Texts)]
  /\ \A b \in Adapters : IsInjective(recent'[b])
  /\ said' \subseteq Texts /\ forgotten' \subseteq Texts
  /\ said \subseteq said' /\ forgotten \subseteq forgotten'
  /\ \A b \in Adapters : ToSet(recent'[b]) \subseteq ToSet(recent[b]) \cup said'
  /\ \A b \in Adapters : ToSet(recent[b]) \subseteq ToSet(recent'[b]) \cup forgotten'

\* A remembered text is in the list before its chunk is posted, and the adapter
\* learns nothing else.
LEMMA BeginsLearns ==
  ASSUME Memory, NEW s \in Slots, NEW a \in Adapters, NEW job \in Jobs, NEW retry,
         Begins(s, a, job, retry)
  PROVE  /\ Learns(a)
         /\ job[1] \in Chunk
         /\ job[1].kind = "text" => job[1].text \in ToSet(recent'[a])
<1>1. job[1] \in Chunk
  BY JobsAssumption
<1>2. recent[a] \in Seq(Texts) /\ IsInjective(recent[a]) /\ RecentMax \in Nat
  BY BoundsAssumption DEF Memory
<1>3. recent' = [recent EXCEPT ![a] = Added(recent[a], job[1])] /\ forgotten' = forgotten
      /\ said' = Said(job[1])
  BY DEF Begins
<1>4. /\ Added(recent[a], job[1]) \in Seq(Texts) /\ IsInjective(Added(recent[a], job[1]))
      /\ ToSet(recent[a]) \subseteq ToSet(Added(recent[a], job[1]))
      /\ job[1].kind = "text" =>
           job[1].text \in Texts /\ job[1].text \in ToSet(Added(recent[a], job[1]))
      /\ ToSet(Added(recent[a], job[1])) \subseteq
           ToSet(recent[a]) \cup (IF job[1].kind = "label" THEN {} ELSE {job[1].text})
  BY <1>1, <1>2, AddedFacts
<1>5. job[1].kind \in {"text", "label"}
  BY <1>1 DEF Chunk
<1>6. /\ said' = said \cup (IF job[1].kind = "label" THEN {} ELSE {job[1].text})
      /\ said' \subseteq Texts
  BY <1>3, <1>4, <1>5 DEF Said, Memory
<1>7. /\ recent'[a] = Added(recent[a], job[1])
      /\ \A b \in Adapters \ {a} : recent'[b] = recent[b]
      /\ recent' \in [Adapters -> Seq(Texts)]
  BY <1>3, <1>4 DEF Memory
<1>8. \A b \in Adapters : /\ IsInjective(recent'[b])
                         /\ ToSet(recent'[b]) \subseteq ToSet(recent[b]) \cup said'
                         /\ ToSet(recent[b]) \subseteq ToSet(recent'[b]) \cup forgotten'
  <2> SUFFICES ASSUME NEW b \in Adapters
               PROVE  /\ IsInjective(recent'[b])
                      /\ ToSet(recent'[b]) \subseteq ToSet(recent[b]) \cup said'
                      /\ ToSet(recent[b]) \subseteq ToSet(recent'[b])
    OBVIOUS
  <2>1. CASE b = a
    BY <1>4, <1>6, <1>7, <2>1
  <2>2. CASE b # a
    BY <1>7, <2>2 DEF Memory
  <2> QED BY <2>1, <2>2
<1> QED BY <1>1, <1>3, <1>4, <1>6, <1>7, <1>8 DEF Learns, Memory

\* After a chunk the adapter forgets at most one text, for the count of the
\* forgotten ones, and learns that of the next chunk.
LEMMA PostedLearns ==
  ASSUME IInv, Memory, NEW s \in Slots, Posted(s)
  PROVE  /\ send[s].by \in Adapters
         /\ Learns(send[s].by)
         /\ send[s].chunk # Len(send[s].job) =>
              LET c == send[s].job[send[s].chunk + 1]
              IN c \in Chunk /\ (c.kind = "text" => c.text \in ToSet(recent'[send[s].by]))
<1> DEFINE a == send[s].by
           n == send[s].chunk
           job == send[s].job
           kept == Evicted(recent[a], job[n])
           last == n = Len(job)
           next == job[n + 1]
<1>1. a \in Adapters /\ job \in Jobs /\ n \in 1..Len(job)
  BY SendUnderWay DEF Posted, Sending
<1>2. job \in Seq(Chunk) /\ Len(job) \in Nat
  BY <1>1, JobsAssumption
<1>3. job[n] \in Chunk /\ (~last => next \in Chunk)
  BY <1>1, <1>2
<1>4. recent[a] \in Seq(Texts) /\ IsInjective(recent[a]) /\ RecentMax \in Nat \ {0}
  BY <1>1, BoundsAssumption DEF Memory
<1>5. /\ recent' = [recent EXCEPT ![a] = IF last THEN kept ELSE Added(kept, next)]
      /\ said' = IF last THEN said ELSE Said(next)
      /\ forgotten' = IF job[n].kind = "text" /\ Len(recent[a]) > RecentMax
                      THEN forgotten \cup {Head(recent[a])} ELSE forgotten
  BY DEF Posted
<1> HIDE DEF job, n, last, next, a
<1>6. /\ kept \in Seq(Texts) /\ IsInjective(kept) /\ ToSet(kept) \subseteq ToSet(recent[a])
      /\ forgotten \subseteq forgotten' /\ forgotten' \subseteq Texts
      /\ ToSet(recent[a]) \subseteq ToSet(kept) \cup forgotten'
  <2>1. CASE job[n].kind = "text" /\ Len(recent[a]) > RecentMax
    <3>1. kept = Tail(recent[a]) /\ forgotten' = forgotten \cup {Head(recent[a])}
      BY <1>5, <2>1 DEF Evicted
    <3>2. Len(recent[a]) > 0
      BY <1>4, <2>1
    <3> HIDE DEF kept
    <3> QED BY <1>4, <3>1, <3>2, TailFacts DEF Memory
  <2>2. CASE ~(job[n].kind = "text" /\ Len(recent[a]) > RecentMax)
    <3>1. kept = recent[a] /\ forgotten' = forgotten
      BY <1>5, <2>2 DEF Evicted
    <3> HIDE DEF kept
    <3> QED BY <1>4, <3>1 DEF Memory
  <2> QED BY <2>1, <2>2
<1> HIDE DEF kept
<1>7. PICK new : new = IF last THEN kept ELSE Added(kept, next)
  OBVIOUS
<1>8. /\ new \in Seq(Texts) /\ IsInjective(new)
      /\ ToSet(kept) \subseteq ToSet(new)
      /\ ~last /\ next.kind = "text" => next.text \in ToSet(new)
      /\ ToSet(new) \subseteq ToSet(kept) \cup said'
      /\ said \subseteq said' /\ said' \subseteq Texts
  <2>1. CASE last
    BY <1>5, <1>6, <1>7, <2>1 DEF Memory
  <2>2. CASE ~last
    <3>1. new = Added(kept, next) /\ said' = Said(next) /\ next \in Chunk
      BY <1>3, <1>5, <1>7, <2>2
    <3>2. next.kind \in {"text", "label"} /\ (next.kind = "text" => next.text \in Texts)
      BY <3>1 DEF Chunk
    <3>3. said' = said \cup (IF next.kind = "label" THEN {} ELSE {next.text})
      BY <3>1 DEF Said
    <3> QED BY <1>6, <2>2, <3>1, <3>2, <3>3, AddedFacts DEF Memory
  <2> QED BY <2>1, <2>2
<1>9. /\ recent'[a] = new /\ \A b \in Adapters \ {a} : recent'[b] = recent[b]
      /\ recent' \in [Adapters -> Seq(Texts)]
  BY <1>1, <1>5, <1>7, <1>8 DEF Memory
<1>10. \A b \in Adapters : /\ IsInjective(recent'[b])
                          /\ ToSet(recent'[b]) \subseteq ToSet(recent[b]) \cup said'
                          /\ ToSet(recent[b]) \subseteq ToSet(recent'[b]) \cup forgotten'
  <2> SUFFICES ASSUME NEW b \in Adapters
               PROVE  /\ IsInjective(recent'[b])
                      /\ ToSet(recent'[b]) \subseteq ToSet(recent[b]) \cup said'
                      /\ ToSet(recent[b]) \subseteq ToSet(recent'[b]) \cup forgotten'
    OBVIOUS
  <2>1. CASE b = a
    BY <1>6, <1>8, <1>9, <2>1
  <2>2. CASE b # a
    BY <1>9, <2>2 DEF Memory
  <2> QED BY <2>1, <2>2
<1>11. Learns(a)
  BY <1>6, <1>8, <1>9, <1>10 DEF Learns
<1>12. ~last => next \in Chunk /\ (next.kind = "text" => next.text \in ToSet(recent'[a]))
  BY <1>3, <1>8, <1>9
<1> QED BY <1>1, <1>11, <1>12 DEF a, n, job, last, next

\* An adapter that reads its own texts forgets them.
LEMMA ReadForgets ==
  ASSUME Memory, NEW a \in Adapters, PollAnswered(a)
  PROVE  /\ recent' \in [Adapters -> Seq(Texts)]
         /\ \A b \in Adapters : IsInjective(recent'[b])
         /\ \A b \in Adapters \ {a} : recent'[b] = recent[b]
         /\ ToSet(recent'[a]) = ToSet(recent[a]) \ {chat[i].text : i \in Echoes(a, Fresh(a))}
<1> DEFINE gone == {chat[i].text : i \in Echoes(a, Fresh(a))}
<1>1. recent' = [recent EXCEPT ![a] = Without(recent[a], gone)]
  BY DEF PollAnswered
<1>2. recent[a] \in Seq(Texts) /\ IsInjective(recent[a])
  BY DEF Memory
<1> HIDE DEF gone
<1>3. /\ Without(recent[a], gone) \in Seq(Texts)
      /\ ToSet(Without(recent[a], gone)) = ToSet(recent[a]) \ gone
      /\ IsInjective(Without(recent[a], gone))
  BY <1>2, WithoutFacts
<1>4. /\ recent'[a] = Without(recent[a], gone)
      /\ recent' \in [Adapters -> Seq(Texts)]
      /\ \A b \in Adapters \ {a} : recent'[b] = recent[b]
  BY <1>1, <1>3 DEF Memory
<1> QED BY <1>3, <1>4 DEF Memory, gone

\* The end of a request keeps the types of the wiring.
LEMMA RearmedWiring ==
  ASSUME Memory, NEW a \in Adapters, Rearmed(a)
  PROVE  current' \in Adapters /\ reloading' \subseteq Adapters
BY DEF Memory, Rearmed

\* The steps of a send keep the types.
LEMMA SlotMemory ==
  ASSUME IInv, Memory, NEW s \in Slots,
         \/ Posted(s) \/ SendFails(s) \/ Resends(s) \/ ResendFails(s)
         \/ \E job \in Jobs : Sends(s, job)
  PROVE  Memory'
<1>1. CASE SendFails(s) \/ ResendFails(s)
  BY <1>1 DEF SendFails, ResendFails, Memory, own, wiring, process, history
<1>2. CASE Posted(s)
  <2>1. \E a : Learns(a)
    BY <1>2, PostedLearns
  <2>2. UNCHANGED <<polls, stopped, current, reloading, up, crashes, baselined, crashedAt>>
    BY <1>2 DEF Posted, wiring, process
  <2> QED BY <2>1, <2>2 DEF Learns, Memory
<1>3. CASE Resends(s) \/ \E job \in Jobs : Sends(s, job)
  <2>1. PICK a \in Adapters, job \in Jobs, retry \in BOOLEAN : Begins(s, a, job, retry)
    BY <1>3, SendUnderWay DEF Resends, Sends, Sending, IInv, Types
  <2>2. Learns(a)
    BY <2>1, BeginsLearns
  <2>3. UNCHANGED <<polls, stopped, current, reloading, up, crashes, baselined, crashedAt>>
    BY <2>1 DEF Begins, wiring, process
  <2> QED BY <2>2, <2>3 DEF Learns, Memory
<1> QED BY <1>1, <1>2, <1>3

\* Every step keeps the types that IInv leaves out.
LEMMA MemoryStep == ASSUME IInv, Memory, [Next]_vars PROVE Memory'
<1> USE BoundsAssumption
<1>1. CASE UNCHANGED <<own, wiring, process, history>>
  BY <1>1 DEF Memory, own, wiring, process, history
<1>2. CASE Boot \/ Reload
  <2>1. /\ stopped' \subseteq Adapters /\ current' \in Adapters /\ reloading' \subseteq Adapters
        /\ up' \in BOOLEAN
        /\ UNCHANGED <<recent, polls, crashes, said, forgotten, baselined, crashedAt>>
    BY <1>2 DEF Memory, Boot, Reload, process, history
  <2> QED BY <2>1 DEF Memory
<1>3. CASE Crash
  <2>1. /\ recent' = [a \in Adapters |-> <<>>] /\ polls' = [a \in Adapters |-> 0]
        /\ up' = FALSE /\ crashes' = crashes + 1 /\ crashes < MaxCrashes
        /\ crashedAt' = Len(chat) /\ reloading' = {}
        /\ UNCHANGED <<stopped, current, said, forgotten, baselined>>
    BY <1>3 DEF Crash
  <2>2. \A a \in Adapters : recent'[a] = <<>>
    BY <2>1
  <2>3. recent' \in [Adapters -> Seq(Texts)] /\ \A a \in Adapters : IsInjective(recent'[a])
    BY <2>1, <2>2 DEF IsInjective
  <2>4. polls' \in [Adapters -> 0..PruneEvery - 1]
    BY <2>1
  <2>5. crashes' \in 0..MaxCrashes /\ crashedAt' \in 0..MaxChat
    <3>1. Len(chat) \in Nat /\ Len(chat) <= MaxChat /\ crashes \in Nat
      BY DEF Memory, IInv, Types
    <3> QED BY <2>1, <3>1
  <2> QED BY <2>1, <2>3, <2>4, <2>5 DEF Memory
<1>4. ASSUME NEW a \in Adapters, AdapterSteps(a) PROVE Memory'
  <2>1. CASE Starts(a) \/ Polls(a)
    BY <2>1 DEF Starts, Polls, Memory, wiring, process, history
  <2>2. CASE StartFails(a)
    BY <2>2 DEF StartFails, Memory, process, history
  <2>3. CASE Baseline(a)
    <3>1. current' \in Adapters /\ reloading' \subseteq Adapters
      BY <2>3, RearmedWiring DEF Baseline
    <3>2. baselined' \in 0..MaxChat
      BY <2>3 DEF Baseline, Memory, IInv, Types
    <3>3. UNCHANGED <<recent, polls, stopped, up, crashes, said, forgotten, crashedAt>>
      BY <2>3 DEF Baseline, process
    <3> QED BY <3>1, <3>2, <3>3 DEF Memory
  <2>4. CASE PollAnswered(a)
    <3>1. current' \in Adapters /\ reloading' \subseteq Adapters
      BY <2>4, RearmedWiring DEF PollAnswered
    <3>2. polls' \in [Adapters -> 0..PruneEvery - 1]
      <4>1. /\ polls[a] \in Nat /\ PruneEvery \in Nat \ {0}
            /\ polls \in [Adapters -> 0..PruneEvery - 1]
        BY DEF Memory
      <4>2. (polls[a] + 1) % PruneEvery \in 0..PruneEvery - 1
        BY <4>1
      <4> QED BY <2>4, <4>1, <4>2 DEF PollAnswered
    <3>3. UNCHANGED <<stopped, up, crashes, said, forgotten, baselined, crashedAt>>
      BY <2>4 DEF PollAnswered, process, history
    <3>4. recent' \in [Adapters -> Seq(Texts)] /\ \A b \in Adapters : IsInjective(recent'[b])
      BY <2>4, ReadForgets
    <3> QED BY <3>1, <3>2, <3>3, <3>4 DEF Memory
  <2>5. CASE PollFails(a)
    <3>1. current' \in Adapters /\ reloading' \subseteq Adapters
      BY <2>5, RearmedWiring DEF PollFails
    <3>2. UNCHANGED <<recent, polls, stopped, up, crashes, said, forgotten, baselined, crashedAt>>
      BY <2>5 DEF PollFails, process, history
    <3> QED BY <3>1, <3>2 DEF Memory
  <2> QED BY <1>4, <2>1, <2>2, <2>3, <2>4, <2>5 DEF AdapterSteps
<1>5. CASE UNCHANGED vars \/ (\E f \in loading : Loaded(f))
           \/ (\E t, kind : UserPosts(t, kind))
  BY <1>1, <1>5 DEF vars, Loaded, UserPosts
<1> QED BY <1>2, <1>3, <1>4, <1>5, SlotMemory DEF Next

\* Every step keeps to what SettledStays asks for.
LEMMA NextKeepsOld == ASSUME IInv, IInv', [Next]_vars PROVE Keeps
<1>1. Len(chat) \in Nat /\ \A a \in Adapters : upTo[a] \in Nat
  BY DEF IInv, Types
<1>2. ASSUME UNCHANGED <<seenAt, at, upTo>>, Len(chat') >= Len(chat) PROVE Keeps
  BY <1>2 DEF Keeps, Reading, Rows, RowsOf
<1>3. ASSUME UNCHANGED <<seenAt, chat>>,
             \A a \in Reading' : (a \in Reading /\ upTo'[a] = upTo[a]) \/ upTo'[a] = Len(chat)
      PROVE  Keeps
  BY <1>1, <1>3 DEF Keeps, Rows, RowsOf
<1>4. ASSUME NEW p, chat' = Append(chat, p) PROVE Len(chat') >= Len(chat)
  <2>1. chat \in Seq(Posts)
    BY DEF IInv, Types
  <2>2. chat' \in Seq(Posts)
    BY DEF IInv, Types
  <2>3. Len(chat') = Len(chat) + 1
    BY <1>4, <2>1, <2>2
  <2> QED BY <1>1, <2>3
<1>5. CASE Boot \/ Reload
  <2>1. UNCHANGED <<seenAt, chat, upTo>>
    BY <1>5 DEF Boot, Reload, table
  <2>2. \A a \in Adapters : at'[a] \in {at[a], "off", "token"}
    BY <1>5 DEF Boot, Reload, StopOf, IInv, Types
  <2>3. Reading' \subseteq Reading
    BY <2>2 DEF Reading
  <2>4. \A a \in Reading' : a \in Reading /\ upTo'[a] = upTo[a]
    BY <2>1, <2>3 DEF Reading
  <2> QED BY <1>3, <2>1, <2>4
<1>6. CASE Crash
  <2>1. Reading' = {} /\ chat' = chat
    BY <1>6 DEF Crash, Reading
  <2>2. \A i \in Rows \ Rows' : i <= Len(chat) - Window - Lag
    <3>1. CASE seenAt' = seenAt
      BY <3>1 DEF Rows, RowsOf
    <3>2. CASE seenAt' # seenAt
      <4>1. PICK a \in Reading : Stores(a)
        BY <1>6, <3>2 DEF Crash, Reading
      <4> QED BY <4>1, StoresTable
    <3> QED BY <3>1, <3>2
  <2> QED BY <1>1, <2>1, <2>2 DEF Keeps
<1>7. ASSUME NEW a \in Adapters, Starts(a) \/ Polls(a) PROVE Keeps
  <2>1. UNCHANGED <<seenAt, chat>> /\ upTo' = [upTo EXCEPT ![a] = Len(chat)]
    BY <1>7 DEF Starts, Polls, table
  <2>2. \A b \in Adapters \ {a} : at'[b] = at[b] /\ upTo'[b] = upTo[b]
    BY <1>7 DEF Starts, Polls, IInv, Types
  <2>3. upTo'[a] = Len(chat)
    BY <2>1 DEF IInv, Types
  <2>4. \A b \in Reading' : (b \in Reading /\ upTo'[b] = upTo[b]) \/ upTo'[b] = Len(chat)
    BY <2>2, <2>3 DEF Reading
  <2> QED BY <1>3, <2>1, <2>4
<1>8. ASSUME NEW a \in Adapters, StartFails(a) PROVE Keeps
  <2>1. UNCHANGED <<seenAt, chat, upTo>> /\ \A b \in Adapters : at'[b] \in {at[b], "off"}
    BY <1>8 DEF StartFails, table, IInv, Types
  <2> QED BY <1>3, <2>1 DEF Reading
<1>9. ASSUME NEW a \in Adapters, Baseline(a) \/ PollAnswered(a) \/ PollFails(a) PROVE Keeps
  <2>1. chat' = chat /\ Rearmed(a) /\ a \in Asking
    BY <1>9 DEF Baseline, PollAnswered, PollFails, table, Asking
  <2>2. /\ at'[a] \in {"idle", "off"}
        /\ \A b \in Adapters \ {a} : at'[b] = at[b] /\ upTo'[b] = upTo[b]
    BY <2>1, RearmedOwn DEF IInv
  <2>3. \A b \in Reading' : b \in Reading /\ upTo'[b] = upTo[b]
    BY <2>2 DEF Reading
  <2>4. \A i \in Rows \ Rows' : i <= Len(chat) - Window - Lag
    <3>1. CASE seenAt' = seenAt
      BY <3>1 DEF Rows, RowsOf
    <3>2. CASE Stores(a) /\ PollAnswered(a)
      <4>1. a \in Reading
        BY <3>2 DEF PollAnswered, Reading
      <4> QED BY <3>2, <4>1, StoresTable
    <3>3. CASE seenAt' = Marked(Answer(a))
      <4>1. RowsOf(Marked(Answer(a))) = Rows \cup Answer(a)
        BY <2>1, MarkedRows DEF IInv, Core
      <4> QED BY <3>3, <4>1 DEF Rows
    <3> QED BY <1>9, <3>1, <3>2, <3>3 DEF Baseline, PollAnswered, PollFails, table
  <2> QED BY <1>1, <2>1, <2>3, <2>4 DEF Keeps
<1>10. ASSUME NEW f \in loading, Loaded(f) PROVE Keeps
  BY <1>1, <1>2, <1>10 DEF Loaded, table, own
<1>11. ASSUME NEW s \in Slots, \/ Posted(s) \/ SendFails(s) \/ Resends(s) \/ ResendFails(s)
                              \/ \E job \in Jobs : Sends(s, job)
       PROVE  Keeps
  <2>1. UNCHANGED <<seenAt, at, upTo>>
    BY <1>11 DEF Posted, SendFails, Resends, ResendFails, Sends, Begins, table, own
  <2>2. chat' = chat \/ \E p : chat' = Append(chat, p)
    BY <1>11 DEF Posted, SendFails, Resends, ResendFails, Sends, Begins, table, Accepted
  <2> QED BY <1>1, <1>2, <1>4, <2>1, <2>2
<1>12. ASSUME NEW t, NEW kind, UserPosts(t, kind) PROVE Keeps
  BY <1>2, <1>4, <1>12 DEF UserPosts, own
<1>13. CASE UNCHANGED vars
  BY <1>1, <1>2, <1>13 DEF vars, table, own
<1> QED BY <1>5, <1>6, <1>7, <1>8, <1>9, <1>10, <1>11, <1>12, <1>13 DEF Next, AdapterSteps

\* A settled message stays settled in every step.
LEMMA SettledNext ==
  ASSUME IInv, IInv', [Next]_vars, NEW i \in Ids, Settled(i)
  PROVE  Settled(i)'
BY NextKeepsOld, SettledStays DEF IInv, Core

-----------------------------------------------------------------------------
(* What is skipped *)

\* A remembered text was said, and only files are downloaded.
Sound ==
  /\ \A a \in Adapters : ToSet(recent[a]) \subseteq said
  /\ \A f \in loading : f[1] \in DOMAIN chat /\ chat[f[1]].kind = "file"

\* What SkippedForAReason accepts.
Excuse(i) ==
  \/ i <= baselined \/ i <= crashedAt
  \/ chat[i].text \in said
  \/ SaysNothing(i)
  \/ chat[i].kind = "file" /\ stopped # {}

\* No message of the chat is ever changed.
Extends == DOMAIN chat \subseteq DOMAIN chat' /\ \A i \in DOMAIN chat : chat'[i] = chat[i]

\* A message that is posted comes after all others, which stay as they are.
LEMMA PostExtends ==
  ASSUME IInv, NEW p \in Posts, chat' = Append(chat, p)
  PROVE  /\ Extends
         /\ DOMAIN chat' = DOMAIN chat \cup {Len(chat) + 1}
         /\ Len(chat) + 1 \notin DOMAIN chat
         /\ chat'[Len(chat) + 1] = p
<1>1. chat \in Seq(Posts)
  BY DEF IInv, Types
<1> QED BY <1>1 DEF Extends

\* What an accepted chunk looks like in the chat.
LEMMA AcceptedPost ==
  ASSUME IInv, NEW s \in Slots, send[s].at = "posting", Accepted(s)
  PROVE  \E p \in Posts : /\ chat' = Append(chat, p)
                          /\ p.by = send[s].by /\ p.by \in Adapters
                          /\ p.text = send[s].job[send[s].chunk].text
                          /\ p.kind = send[s].job[send[s].chunk].kind
                          /\ p.kind \in {"text", "label"}
<1> DEFINE c == send[s].job[send[s].chunk]
<1>1. send[s].by \in Adapters /\ send[s].job \in Jobs /\ send[s].chunk \in 1..Len(send[s].job)
  BY SendUnderWay
<1>2. c \in Chunk
  BY <1>1, JobsAssumption
<1>3. PICK p : p = [by |-> send[s].by, text |-> c.text, kind |-> c.kind]
  OBVIOUS
<1>4. p \in Posts /\ c.kind \in {"text", "label"}
  BY <1>1, <1>2, <1>3 DEF Chunk, Posts
<1>5. chat' = Append(chat, p)
  BY <1>3 DEF Accepted
<1> QED BY <1>1, <1>3, <1>4, <1>5

\* What a slot's step does to the chat.
LEMMA SlotPosts ==
  ASSUME IInv, NEW s \in Slots,
         \/ Posted(s) \/ SendFails(s) \/ Resends(s) \/ ResendFails(s)
         \/ \E job \in Jobs : Sends(s, job)
  PROVE  \/ chat' = chat
         \/ send[s].at = "posting" /\ Accepted(s)
BY DEF Posted, SendFails, Resends, ResendFails, Sends, Begins, Sending, table

\* A send adds to what is remembered, said and forgotten, or leaves it alone.
LEMMA SlotLearns ==
  ASSUME IInv, Memory, NEW s \in Slots,
         \/ Posted(s) \/ SendFails(s) \/ Resends(s) \/ ResendFails(s)
         \/ \E job \in Jobs : Sends(s, job)
  PROVE  (\E a : Learns(a)) \/ UNCHANGED <<recent, said, forgotten>>
<1>1. CASE SendFails(s) \/ ResendFails(s)
  BY <1>1 DEF SendFails, ResendFails, own, history
<1>2. CASE Posted(s)
  BY <1>2, PostedLearns
<1>3. CASE Resends(s) \/ \E job \in Jobs : Sends(s, job)
  <2>1. PICK a \in Adapters, job \in Jobs, retry \in BOOLEAN : Begins(s, a, job, retry)
    BY <1>3, SendUnderWay DEF Resends, Sends, Sending, IInv, Types
  <2> QED BY <2>1, BeginsLearns
<1> QED BY <1>1, <1>2, <1>3

\* New messages of an answer are messages of the chat.
LEMMA FreshInChat ==
  ASSUME IInv, NEW a \in Reading
  PROVE  Fresh(a) \subseteq DOMAIN chat /\ Fresh(a) \subseteq Ids /\ DOMAIN chat \subseteq Ids
<1>1. upTo[a] \in Nat /\ upTo[a] <= Len(chat) /\ Len(chat) \in Nat /\ chat \in Seq(Posts)
      /\ Len(chat) <= MaxChat /\ MaxChat \in Nat
  BY Bounds DEF IInv, Types, Core, InChat, Reading
<1> QED BY <1>1 DEF Fresh, Answer, Ids

\* Every step keeps what is remembered among what was said.
LEMMA SoundStep == ASSUME IInv, IInv', Memory, Sound, [Next]_vars PROVE Sound'
<1>0. chat \in Seq(Posts)
  BY DEF IInv, Types
<1>1. ASSUME UNCHANGED <<chat, loading>> \/ (chat' = chat /\ loading' \subseteq loading),
             \A a \in Adapters : ToSet(recent'[a]) \subseteq ToSet(recent[a]) \cup said',
             said \subseteq said'
      PROVE  Sound'
  BY <1>1 DEF Sound, FromUser
<1>2. CASE Crash
  <2>1. chat' = chat /\ loading' = {} /\ said' = said
        /\ \A a \in Adapters : recent'[a] = <<>>
    BY <1>2 DEF Crash
  <2>2. \A a \in Adapters : ToSet(recent'[a]) = {}
    BY <2>1 DEF ToSet
  <2> QED BY <1>1, <2>1, <2>2
<1>3. CASE Boot \/ Reload \/ UNCHANGED vars
  BY <1>1, <1>3 DEF Boot, Reload, vars, table, own, inbound, history
<1>4. ASSUME NEW a \in Adapters,
             Starts(a) \/ Polls(a) \/ StartFails(a) \/ Baseline(a) \/ PollFails(a)
      PROVE  Sound'
  <2>1. UNCHANGED <<chat, loading, recent, said>>
    BY <1>4 DEF Starts, Polls, StartFails, Baseline, PollFails, table, inbound, history
  <2> QED BY <1>1, <2>1
<1>5. ASSUME NEW a \in Adapters, PollAnswered(a) PROVE Sound'
  <2>1. /\ chat' = chat /\ said' = said /\ a \in Reading
        /\ loading' = loading \cup Downloads(a, Fresh(a))
    BY <1>5 DEF PollAnswered, history, Reading
  <2>2. \A b \in Adapters : ToSet(recent'[b]) \subseteq ToSet(recent[b])
    BY <1>5, ReadForgets
  <2>3. \A f \in loading' : f \in loading \/ f[1] \in Files(Fresh(a))
    BY <2>1 DEF Downloads, Files
  <2>4. \A i \in Files(Fresh(a)) : i \in DOMAIN chat /\ chat[i].kind = "file"
    BY <2>1, FreshInChat DEF Files
  <2> QED BY <2>1, <2>2, <2>3, <2>4 DEF Sound, FromUser
<1>6. ASSUME NEW f \in loading, Loaded(f) PROVE Sound'
  <2>1. UNCHANGED <<chat, recent, said>> /\ loading' \subseteq loading
    BY <1>6 DEF Loaded, table, own, history
  <2> QED BY <1>1, <2>1
<1>7. ASSUME NEW p \in Posts, chat' = Append(chat, p), loading' = loading,
             \A a \in Adapters : ToSet(recent'[a]) \subseteq ToSet(recent[a]) \cup said',
             said \subseteq said'
      PROVE  Sound'
  <2>1. /\ Extends
        /\ DOMAIN chat' = DOMAIN chat \cup {Len(chat) + 1}
        /\ chat'[Len(chat) + 1] = p
    BY <1>7, PostExtends
  <2> QED BY <1>7, <2>1 DEF Sound, FromUser, Extends
<1>8. ASSUME NEW s \in Slots, \/ Posted(s) \/ SendFails(s) \/ Resends(s) \/ ResendFails(s)
                              \/ \E job \in Jobs : Sends(s, job)
      PROVE  Sound'
  <2>1. /\ \A a \in Adapters : ToSet(recent'[a]) \subseteq ToSet(recent[a]) \cup said'
        /\ said \subseteq said'
    BY <1>8, SlotLearns DEF Learns
  <2>2. loading' = loading
    BY <1>8 DEF Posted, SendFails, Resends, ResendFails, Sends, Begins, inbound
  <2>3. CASE chat' = chat
    BY <1>1, <2>1, <2>2, <2>3
  <2>4. CASE send[s].at = "posting" /\ Accepted(s)
    <3>1. PICK p \in Posts : chat' = Append(chat, p)
      BY <2>4, AcceptedPost
    <3> QED BY <1>7, <2>1, <2>2, <3>1
  <2> QED BY <1>8, <2>3, <2>4, SlotPosts
<1>9. ASSUME NEW t \in UserTexts \cup {NoText}, NEW kind \in {"text", "file"}, UserPosts(t, kind)
      PROVE  Sound'
  <2>1. PICK p : p = [by |-> NoAdapter, text |-> t, kind |-> kind]
    OBVIOUS
  <2>2. p \in Posts
    BY <1>9, <2>1, BoundsAssumption DEF Posts
  <2>3. chat' = Append(chat, p) /\ UNCHANGED <<loading, recent, said>>
    BY <1>9, <2>1 DEF UserPosts, own, inbound, history
  <2> QED BY <1>7, <2>2, <2>3
<1>10. CASE \E t \in UserTexts \cup {NoText}, kind \in {"text", "file"} : UserPosts(t, kind)
  BY <1>9, <1>10
<1>11. CASE \E a \in Adapters : AdapterSteps(a)
  BY <1>4, <1>5, <1>11 DEF AdapterSteps
<1>12. CASE (\E s \in Slots : Posted(s) \/ SendFails(s) \/ Resends(s) \/ ResendFails(s))
            \/ (\E s \in Slots, job \in Jobs : Sends(s, job))
  BY <1>8, <1>12
<1>13. CASE \E f \in loading : Loaded(f)
  BY <1>6, <1>13
<1>14. \/ Crash \/ (Boot \/ Reload \/ UNCHANGED vars) \/ (\E a \in Adapters : AdapterSteps(a))
      \/ (\E f \in loading : Loaded(f))
      \/ (\E s \in Slots : Posted(s) \/ SendFails(s) \/ Resends(s) \/ ResendFails(s))
      \/ (\E s \in Slots, job \in Jobs : Sends(s, job))
      \/ (\E t \in UserTexts \cup {NoText}, kind \in {"text", "file"} : UserPosts(t, kind))
  BY DEF Next
<1> QED BY <1>2, <1>3, <1>10, <1>11, <1>12, <1>13, <1>14

\* A step that marks only what it hands over, downloads, recognises or takes for
\* history, and drops only files of a retired adapter.
LEMMA SkippedStep ==
  ASSUME IInv, SkippedForAReason, Extends,
         baselined <= baselined', crashedAt' = crashedAt,
         said \subseteq said', stopped \subseteq stopped',
         \A i \in Rows : Got(i) => Got(i)',
         \A i \in Rows : FromUser(i) /\ UnderWay(i) => UnderWay(i)' \/ Got(i)' \/ Excuse(i),
         \A i \in Rows' \ Rows : i \in DOMAIN chat /\
           (FromUser(i) => Got(i)' \/ UnderWay(i)' \/ i <= baselined' \/ Excuse(i)),
         {baselined, baselined'} \subseteq Nat
  PROVE  SkippedForAReason'
<1> SUFFICES ASSUME NEW i \in Rows', FromUser(i)', ~Got(i)', ~UnderWay(i)'
             PROVE  Excuse(i)'
  BY DEF SkippedForAReason, Excuse
<1>1. i \in DOMAIN chat /\ i \in Nat
  <2>1. Rows \subseteq DOMAIN chat /\ DOMAIN chat \subseteq Nat
    <3>1. chat \in Seq(Posts)
      BY DEF IInv, Types
    <3> QED BY <3>1 DEF IInv, Core, InChat
  <2> QED BY <2>1
<1>2. FromUser(i) /\ chat'[i] = chat[i]
  BY <1>1 DEF Extends, FromUser
<1>3. Excuse(i) \/ i <= baselined'
  BY <1>2 DEF SkippedForAReason, Excuse
<1> QED BY <1>1, <1>2, <1>3 DEF Excuse, SaysNothing

\* Every step that marks a message of the user's also hands it over, downloads it
\* or has a reason for neither.
LEMMA SkippedNext ==
  ASSUME IInv, IInv', Memory, Memory', Sound, SkippedForAReason, [Next]_vars
  PROVE  SkippedForAReason'
<1>0. chat \in Seq(Posts) /\ {baselined, baselined', crashedAt} \subseteq Nat
  BY DEF IInv, Types, Memory
<1>1. ASSUME UNCHANGED <<seenAt, handed, loading, baselined, crashedAt>>, Extends,
             said \subseteq said', stopped \subseteq stopped'
      PROVE  SkippedForAReason'
  <2>1. Rows' = Rows
    BY <1>1 DEF Rows, RowsOf
  <2> QED BY <1>0, <1>1, <2>1, SkippedStep DEF Got, UnderWay
<1>2. CASE Crash
  <2>1. crashedAt' = Len(chat) /\ chat' = chat /\ Rows' \subseteq 1..Len(chat)'
    BY <1>2 DEF Crash, IInv, Core, InChat
  <2> QED BY <1>0, <2>1 DEF SkippedForAReason
<1>3. ASSUME chat' = chat PROVE Extends
  BY <1>3 DEF Extends
<1>4. CASE Boot \/ Reload \/ UNCHANGED vars
  BY <1>1, <1>3, <1>4 DEF Boot, Reload, vars, table, own, inbound, history
<1>5. ASSUME NEW a \in Adapters, Starts(a) \/ Polls(a) \/ StartFails(a) \/ PollFails(a)
      PROVE  SkippedForAReason'
  <2>1. UNCHANGED <<chat, seenAt, handed, loading, baselined, crashedAt, said, stopped>>
    BY <1>5 DEF Starts, Polls, StartFails, PollFails, table, inbound, history
  <2> QED BY <1>1, <1>3, <2>1
<1>6. ASSUME NEW a \in Adapters, Baseline(a) PROVE SkippedForAReason'
  <2>1. UNCHANGED <<chat, handed, loading, crashedAt, said, stopped>> /\ a \in Asking
    BY <1>6 DEF Baseline, inbound, Asking
  <2>2. CASE UNCHANGED <<seenAt, baselined>>
    BY <1>1, <1>3, <2>1, <2>2
  <2>3. CASE /\ seenAt' = Marked(Answer(a))
             /\ baselined' = IF upTo[a] > baselined THEN upTo[a] ELSE baselined
    <3>1. Rows' = Rows \cup Answer(a) /\ Rows' \subseteq 1..Len(chat)
      BY <2>1, <2>3, MarkedRows DEF IInv, Core, Rows
    <3>2. upTo[a] \in Nat
      BY <2>1 DEF IInv, Types, Asking
    <3>3. \A i \in Answer(a) : i <= baselined'
      BY <1>0, <2>3, <3>2 DEF Answer
    <3>4. baselined <= baselined'
      BY <1>0, <2>3, <3>2
    <3>5. \A i \in Rows' \ Rows : i \in DOMAIN chat /\ i <= baselined'
      BY <1>0, <3>1, <3>3
    <3> QED BY <1>0, <1>3, <2>1, <3>4, <3>5, SkippedStep DEF Got, UnderWay
  <2> QED BY <1>6, <2>2, <2>3 DEF Baseline
<1>7. ASSUME NEW a \in Adapters, PollAnswered(a) PROVE SkippedForAReason'
  <2> DEFINE files == Files(Fresh(a) \ Echoes(a, Fresh(a)))
             texts == ((Fresh(a) \ Echoes(a, Fresh(a))) \ Files(Fresh(a))) \ Empty(Fresh(a))
  <2>1. /\ UNCHANGED <<chat, crashedAt, said, stopped, baselined>> /\ a \in Reading /\ Stores(a)
        /\ handed' = HandedBy(a, texts) /\ loading' = loading \cup files \X {a}
    BY <1>7 DEF PollAnswered, history, Reading, HandsOver, Downloads
  <2>2. Rows' \subseteq Rows \cup Answer(a)
    BY <2>1, StoresTable
  <2>3. Fresh(a) \subseteq DOMAIN chat /\ Fresh(a) \subseteq Ids /\ Rows' \ Rows \subseteq Fresh(a)
    BY <2>1, <2>2, FreshInChat DEF Fresh
  <2>4. \A i \in Ids : Got(i) => Got(i)'
    <3> SUFFICES ASSUME NEW i \in Ids, Got(i) PROVE Got(i)'
      OBVIOUS
    <3>1. handed[i] \in Seq(Adapters) /\ handed'[i] \in {handed[i], Append(handed[i], a)}
      BY <2>1 DEF HandedBy, IInv, Types
    <3> QED BY <3>1 DEF Got
  <2>5. \A i : UnderWay(i) => UnderWay(i)'
    BY <2>1 DEF UnderWay
  <2>6. ASSUME NEW i \in Fresh(a), FromUser(i)
        PROVE  Got(i)' \/ UnderWay(i)' \/ Excuse(i)
    <3>1. CASE i \in texts
      <4>1. handed[i] \in Seq(Adapters) /\ handed'[i] = Append(handed[i], a)
        BY <2>1, <2>3, <3>1 DEF HandedBy, IInv, Types
      <4> QED BY <4>1 DEF Got
    <3>2. CASE i \in files
      <4>1. <<i, a>> \in loading'
        BY <2>1, <3>2
      <4> QED BY <4>1 DEF UnderWay
    <3>3. CASE i \in Echoes(a, Fresh(a))
      <4>1. chat[i].text \in ToSet(recent[a]) /\ a \in Adapters
        BY <2>1, <3>3 DEF Echoes, Reading
      <4> QED BY <4>1 DEF Sound, Excuse
    <3>4. CASE i \in Empty(Fresh(a))
      BY <3>4 DEF Empty, Excuse
    <3> QED BY <2>6, <3>1, <3>2, <3>3, <3>4 DEF Files
  <2>7. Rows \subseteq Ids
    BY DEF Rows, RowsOf
  <2> HIDE DEF files, texts
  <2> QED BY <1>0, <1>3, <2>1, <2>3, <2>4, <2>5, <2>6, <2>7, SkippedStep
<1>8. ASSUME NEW f \in loading, Loaded(f) PROVE SkippedForAReason'
  <2>1. /\ UNCHANGED <<chat, seenAt, crashedAt, said, stopped, baselined>>
        /\ loading' = loading \ {f}
        /\ handed' = HandedBy(f[2], {f[1]}) \/ (f[2] \in stopped /\ handed' = handed)
    BY <1>8 DEF Loaded, table, own, history
  <2>2. Rows' = Rows /\ Rows \subseteq Ids
    BY <2>1 DEF Rows, RowsOf
  <2>3. f[1] \in Ids /\ f[2] \in Adapters /\ handed[f[1]] \in Seq(Adapters)
    BY DEF IInv, Types, Handing
  <2>4. \A i \in Ids : Got(i) => Got(i)'
    <3> SUFFICES ASSUME NEW i \in Ids, Got(i) PROVE Got(i)'
      OBVIOUS
    <3>1. handed[i] \in Seq(Adapters) /\ handed'[i] \in {handed[i], Append(handed[i], f[2])}
      BY <2>1 DEF HandedBy, IInv, Types
    <3> QED BY <3>1 DEF Got
  <2>5. Got(f[1])' \/ Excuse(f[1])
    <3>1. CASE handed' = HandedBy(f[2], {f[1]})
      <4>1. handed'[f[1]] = Append(handed[f[1]], f[2])
        BY <2>3, <3>1 DEF HandedBy
      <4> QED BY <2>3, <4>1 DEF Got
    <3>2. CASE f[2] \in stopped
      BY <3>2 DEF Excuse, Sound
    <3> QED BY <2>1, <3>1, <3>2
  <2>6. \A i \in Ids : UnderWay(i) => UnderWay(i)' \/ Got(i)' \/ Excuse(i)
    BY <2>1, <2>5 DEF UnderWay
  <2> QED BY <1>0, <1>3, <2>1, <2>2, <2>4, <2>6, SkippedStep
<1>9. ASSUME NEW s \in Slots, \/ Posted(s) \/ SendFails(s) \/ Resends(s) \/ ResendFails(s)
                              \/ \E job \in Jobs : Sends(s, job)
      PROVE  SkippedForAReason'
  <2>1. UNCHANGED <<seenAt, handed, loading, baselined, crashedAt, stopped>>
    BY <1>9 DEF Posted, SendFails, Resends, ResendFails, Sends, Begins, inbound, table, own, history
  <2>2. said \subseteq said'
    BY <1>9, SlotLearns DEF Learns
  <2>3. Extends
    <3>1. chat' = chat \/ \E p \in Posts : chat' = Append(chat, p)
      BY <1>9, SlotPosts, AcceptedPost
    <3> QED BY <1>3, <3>1, PostExtends
  <2> QED BY <1>1, <2>1, <2>2, <2>3
<1>10. ASSUME NEW t \in Texts \cup {NoText}, NEW kind \in {"text", "file"}, UserPosts(t, kind)
       PROVE  SkippedForAReason'
  <2>1. [by |-> NoAdapter, text |-> t, kind |-> kind] \in Posts
    BY DEF Posts
  <2>2. Extends
    BY <1>10, <2>1, PostExtends DEF UserPosts
  <2> QED BY <1>1, <1>10, <2>2 DEF UserPosts, own, inbound, history
<1> QED BY <1>2, <1>4, <1>5, <1>6, <1>7, <1>8, <1>9, <1>10, BoundsAssumption DEF Next, AdapterSteps

-----------------------------------------------------------------------------
(* What the assistant hears of itself *)

\* Adapters are constructed one after the other.
Started == \E k \in Adapters : \A b \in Adapters : at[b] # "new" <=> b <= k

\* Only adapters that were constructed send and post.
Introduced ==
  /\ at[routed] # "new"
  /\ \A s \in Slots : send[s].at \in {"waiting", "posting"} => at[send[s].by] # "new"
  /\ \A i \in DOMAIN chat : chat[i].by \in Adapters => at[chat[i].by] # "new"

\* Adapter a will not take text t for the user's, unless t was forgotten.
Known(a, t) == at[a] = "off" \/ t \in forgotten \/ t \in ToSet(recent[a])

\* A message of an adapter's own is recognised by it, never read by it, or was
\* posted twice.
Remembered(i) ==
  chat[i].by \in Adapters /\ chat[i].kind = "text" =>
    \/ Known(chat[i].by, chat[i].text)
    \/ Settled(i)
    \/ \E j \in DOMAIN chat \ {i} : chat[j].text = chat[i].text

\* A text is remembered before it is posted.
Announced(s) ==
  send[s].at = "posting" /\ send[s].job[send[s].chunk].kind = "text" =>
    \/ Known(send[s].by, send[s].job[send[s].chunk].text)
    \/ \E j \in DOMAIN chat : chat[j].text = send[s].job[send[s].chunk].text

\* The invariant for the echoes.
Echo ==
  /\ Started /\ Introduced
  /\ \A i \in DOMAIN chat : Remembered(i)
  /\ \A s \in Slots : Announced(s)
  /\ EchoesStayOut

\* What EchoesStayOut accepts.
Excused(i) ==
  \/ \E j \in DOMAIN chat \ {i} : chat[j].text = chat[i].text
  \/ chat[i].text \in forgotten

\* The next adapter is one that was never constructed.
LEMMA NextIsNew ==
  ASSUME IInv, Started, Newest + 1 \in Adapters
  PROVE  /\ at[Newest + 1] = "new"
         /\ \A b \in Adapters : (at[b] # "new" \/ b = Newest + 1) <=> b <= Newest + 1
<1>1. PICK k \in Adapters : \A b \in Adapters : at[b] # "new" <=> b <= k
  BY DEF Started
<1>2. k \in Nat /\ \A b \in Adapters : b \in Nat
  BY Bounds DEF Adapters
<1>3. at[k] # "new" /\ \A b \in Adapters : b > k => at[b] = "new"
  BY <1>1, <1>2
<1>4. Newest \in Adapters /\ at[Newest] # "new" /\ \A b \in Adapters : b > Newest => at[b] = "new"
  BY <1>3 DEF Newest
<1>5. Newest = k
  BY <1>1, <1>2, <1>3, <1>4
<1> QED BY <1>1, <1>2, <1>5

\* Nothing becomes new again, and an adapter that is off stays off.
Aged ==
  /\ \A b \in Adapters : at[b] # "new" => at'[b] # "new"
  /\ \A b \in Adapters : at[b] = "off" => at'[b] = "off"

\* What every step does to the order of construction.
LEMMA AgedStep ==
  ASSUME IInv, IInv', Started, Introduced, [Next]_vars
  PROVE  Aged /\ Started' /\ at'[routed'] # "new"
<1>0. at \in [Adapters -> Places] /\ at' \in [Adapters -> Places] /\ routed \in Adapters
  BY DEF IInv, Types
<1>1. ASSUME routed' = routed, Aged, \A b \in Adapters : at[b] = "new" => at'[b] = "new"
      PROVE  Aged /\ Started' /\ at'[routed'] # "new"
  BY <1>0, <1>1 DEF Started, Introduced, Aged
<1>2. ASSUME routed' = routed, at' = at
      PROVE  Aged /\ Started' /\ at'[routed'] # "new"
  <2>1. Aged /\ \A b \in Adapters : at[b] = "new" => at'[b] = "new"
    BY <1>2 DEF Aged
  <2> QED BY <1>1, <1>2, <2>1
<1>3. CASE Boot \/ Reload
  <2> DEFINE n == Newest + 1
  <2>1. /\ n \in Adapters /\ routed' = n
        /\ at' = [at EXCEPT ![n] = "token"] \/ at' = [StopOf(at, current) EXCEPT ![n] = "token"]
    BY <1>3 DEF Boot, Reload
  <2>2. /\ at[n] = "new"
        /\ \A b \in Adapters : (at[b] # "new" \/ b = n) <=> b <= n
    BY <2>1, NextIsNew
  <2> HIDE DEF n
  <2>3. /\ at'[n] = "token"
        /\ \A b \in Adapters \ {n} : at'[b] = at[b] \/ (at[b] = "idle" /\ at'[b] = "off")
    BY <1>0, <2>1 DEF StopOf
  <2>4. Aged
    BY <2>2, <2>3 DEF Aged
  <2>5. \A b \in Adapters : at'[b] # "new" <=> b <= n
    BY <2>2, <2>3
  <2> QED BY <2>1, <2>3, <2>4, <2>5 DEF Started
<1>4. CASE Crash
  <2>1. routed' = routed /\ \A b \in Adapters : at'[b] = IF at[b] = "new" THEN "new" ELSE "off"
    BY <1>4 DEF Crash
  <2>2. Aged
    BY <2>1 DEF Aged
  <2> QED BY <1>1, <2>1, <2>2
<1>5. ASSUME NEW a \in Adapters, AdapterSteps(a)
      PROVE  Aged /\ Started' /\ at'[routed'] # "new"
  <2>1. /\ routed' = routed /\ at[a] \notin {"new", "off"}
        /\ \E place \in Places \ {"new"} : at' = [at EXCEPT ![a] = place]
    BY <1>5 DEF AdapterSteps, Starts, StartFails, Baseline, Polls, PollAnswered, PollFails,
         Rearmed, wiring, Places
  <2>2. at'[a] # "new" /\ \A b \in Adapters \ {a} : at'[b] = at[b]
    BY <1>0, <2>1
  <2>3. Aged
    BY <2>1, <2>2 DEF Aged
  <2> QED BY <1>1, <2>1, <2>2, <2>3
<1>6. ASSUME NEW f \in loading, Loaded(f) PROVE routed' = routed /\ at' = at
  BY <1>6 DEF Loaded, wiring, own
<1>7. ASSUME NEW s \in Slots, \/ Posted(s) \/ SendFails(s) \/ Resends(s) \/ ResendFails(s)
                              \/ \E job \in Jobs : Sends(s, job)
      PROVE  routed' = routed /\ at' = at
  BY <1>7 DEF Posted, SendFails, Resends, ResendFails, Sends, Begins, wiring, own
<1>8. CASE \E t \in UserTexts \cup {NoText}, kind \in {"text", "file"} : UserPosts(t, kind)
  BY <1>2, <1>8 DEF UserPosts, wiring, own
<1>9. CASE UNCHANGED vars
  BY <1>2, <1>9 DEF vars, wiring, own
<1>10. CASE \E f \in loading : Loaded(f)
  BY <1>2, <1>6, <1>10
<1>11. CASE (\E s \in Slots : Posted(s) \/ SendFails(s) \/ Resends(s) \/ ResendFails(s))
            \/ (\E s \in Slots, job \in Jobs : Sends(s, job))
  BY <1>2, <1>7, <1>11
<1> QED BY <1>3, <1>4, <1>5, <1>8, <1>9, <1>10, <1>11 DEF Next

\* What the steps have to keep to, for no adapter to hear itself.
LEMMA EchoStep ==
  ASSUME IInv, IInv', Echo, [Next]_vars, Extends, forgotten \subseteq forgotten',
         \A b \in Adapters : at[b] # "new" => \A t \in ToSet(recent[b]) :
           \/ at'[b] = "off" \/ t \in forgotten' \/ t \in ToSet(recent'[b])
           \/ \E j \in DOMAIN chat : chat[j].text = t /\ Settled(j)',
         \A i \in DOMAIN chat' \ DOMAIN chat :
           (chat'[i].by \in Adapters => at'[chat'[i].by] # "new") /\ Remembered(i)',
         \A s \in Slots : send'[s] # send[s] =>
           /\ Announced(s)'
           /\ send'[s].at \in {"waiting", "posting"} => at'[send'[s].by] # "new",
         \A i \in Ids : handed'[i] # handed[i] => \E a \in Adapters :
           /\ handed'[i] = Append(handed[i], a) /\ i \in DOMAIN chat
           /\ chat[i].by = a /\ chat[i].kind = "text" => Excused(i)
  PROVE  Echo'
<1>1. Aged /\ Started' /\ at'[routed'] # "new"
  BY AgedStep DEF Echo
<1>2. chat \in Seq(Posts) /\ DOMAIN chat \subseteq Ids /\ DOMAIN chat' \subseteq Ids
  <2>1. Len(chat) \in Nat /\ Len(chat) <= MaxChat /\ Len(chat') \in Nat /\ Len(chat') <= MaxChat
        /\ chat \in Seq(Posts) /\ chat' \in Seq(Posts) /\ MaxChat \in Nat
    BY Bounds DEF IInv, Types
  <2> QED BY <2>1 DEF Ids
<1>3. \A i \in DOMAIN chat : Excused(i) => Excused(i)'
  BY DEF Extends, Excused
<1>4. Introduced'
  <2>1. \A i \in DOMAIN chat' : chat'[i].by \in Adapters => at'[chat'[i].by] # "new"
    BY <1>1 DEF Echo, Introduced, Aged, Extends
  <2>2. ASSUME NEW s \in Slots, send'[s].at \in {"waiting", "posting"}
        PROVE  at'[send'[s].by] # "new"
    <3>1. CASE send'[s] = send[s]
      <4>1. send[s].by \in Adapters /\ at[send[s].by] # "new"
        BY <2>2, <3>1, SendUnderWay DEF Echo, Introduced
      <4> QED BY <1>1, <3>1, <4>1 DEF Aged
    <3> QED BY <2>2, <3>1
  <2> QED BY <1>1, <2>1, <2>2 DEF Introduced
<1>5. ASSUME NEW b \in Adapters, at[b] # "new", NEW t, Known(b, t)
      PROVE  Known(b, t)' \/ \E j \in DOMAIN chat : chat[j].text = t /\ Settled(j)'
  BY <1>1, <1>5 DEF Known, Aged
<1>6. ASSUME NEW i \in DOMAIN chat PROVE Remembered(i)'
  <2> SUFFICES ASSUME chat[i].by \in Adapters, chat[i].kind = "text"
               PROVE  \/ Known(chat[i].by, chat[i].text)'
                      \/ Settled(i)'
                      \/ \E j \in DOMAIN chat' \ {i} : chat'[j].text = chat[i].text
    BY DEF Remembered, Extends, Known
  <2>1. at[chat[i].by] # "new" /\ Remembered(i)
    BY DEF Echo, Introduced
  <2>2. CASE Known(chat[i].by, chat[i].text)
    <3>1. \/ Known(chat[i].by, chat[i].text)'
          \/ \E j \in DOMAIN chat : chat[j].text = chat[i].text /\ Settled(j)'
      <4>1. PICK b \in Adapters, t \in {chat[i].text} : b = chat[i].by /\ t = chat[i].text
        OBVIOUS
      <4>2. Known(b, t)' \/ \E j \in DOMAIN chat : chat[j].text = t /\ Settled(j)'
        BY <1>5, <2>1, <2>2, <4>1
      <4>3. b = chat'[i].by /\ t = chat'[i].text
        BY <4>1 DEF Extends
      <4> QED BY <4>1, <4>2, <4>3 DEF Known
    <3>2. ASSUME NEW j \in DOMAIN chat, chat[j].text = chat[i].text, Settled(j)'
          PROVE  Settled(i)' \/ \E k \in DOMAIN chat' \ {i} : chat'[k].text = chat[i].text
      BY <3>2 DEF Extends
    <3> QED BY <3>1, <3>2 DEF Known, Extends
  <2>3. CASE Settled(i)
    BY <1>2, <2>3, SettledNext
  <2>4. CASE \E j \in DOMAIN chat \ {i} : chat[j].text = chat[i].text
    BY <2>4 DEF Extends
  <2> QED BY <2>1, <2>2, <2>3, <2>4 DEF Remembered
<1>7. ASSUME NEW s \in Slots PROVE Announced(s)'
  <2>1. CASE send'[s] = send[s]
    <3> DEFINE t == send[s].job[send[s].chunk].text
               b == send[s].by
    <3> SUFFICES ASSUME send[s].at = "posting", send[s].job[send[s].chunk].kind = "text"
                 PROVE  \/ at'[b] = "off" \/ t \in forgotten' \/ t \in ToSet(recent'[b])
                        \/ \E j \in DOMAIN chat' : chat'[j].text = t
      BY <2>1 DEF Announced, Known
    <3>1. b \in Adapters /\ at[b] # "new"
      BY SendUnderWay DEF Echo, Introduced
    <3>2. Known(b, t) \/ \E j \in DOMAIN chat : chat[j].text = t
      BY DEF Echo, Announced
    <3> HIDE DEF b, t
    <3>3. CASE Known(b, t)
      BY <1>1, <3>1, <3>3 DEF Known, Aged, Extends
    <3> QED BY <3>2, <3>3 DEF Extends
  <2> QED BY <2>1
<1>8. ASSUME NEW i \in DOMAIN chat', chat'[i].by \in ToSet(handed'[i]), chat'[i].kind = "text"
      PROVE  Excused(i)'
  <2>1. i \in Ids /\ handed[i] \in Seq(Adapters)
    BY <1>2 DEF IInv, Types
  <2>2. CASE handed'[i] = handed[i]
    <3>1. i \in DOMAIN chat
      <4>1. handed[i] # <<>>
        BY <1>8, <2>2 DEF ToSet
      <4>2. Settled(i)
        BY <2>1, <4>1 DEF IInv, Core, HandedSettled
      <4>3. i \in 1..Len(chat)
        BY <2>1, <4>2, <1>2, Bounds DEF Settled, Old, IInv, Core, InChat, Ids
      <4> QED BY <1>2, <4>3
    <3>2. chat'[i] = chat[i]
      BY <3>1 DEF Extends
    <3>3. Excused(i)
      BY <1>8, <2>2, <3>1, <3>2 DEF Echo, EchoesStayOut, Excused
    <3> QED BY <1>3, <3>1, <3>3
  <2>3. CASE handed'[i] # handed[i]
    <3>1. PICK a \in Adapters : /\ handed'[i] = Append(handed[i], a) /\ i \in DOMAIN chat
                                /\ chat[i].by = a /\ chat[i].kind = "text" => Excused(i)
      BY <2>1, <2>3
    <3>2. chat'[i] = chat[i]
      BY <3>1 DEF Extends
    <3>3. ToSet(handed'[i]) = ToSet(handed[i]) \cup {a}
      BY <2>1, <3>1 DEF ToSet
    <3>4. Excused(i)
      <4>1. CASE chat[i].by = a
        BY <1>8, <3>1, <3>2, <4>1
      <4>2. CASE chat[i].by \in ToSet(handed[i])
        BY <1>8, <3>1, <3>2, <4>2 DEF Echo, EchoesStayOut, Excused
      <4> QED BY <1>8, <3>2, <3>3, <4>1, <4>2
    <3> QED BY <1>3, <3>1, <3>4
  <2> QED BY <2>2, <2>3
<1>9. EchoesStayOut'
  BY <1>8 DEF EchoesStayOut, Excused
<1>10. \A i \in DOMAIN chat' : Remembered(i)'
  BY <1>6
<1> QED BY <1>1, <1>4, <1>7, <1>9, <1>10 DEF Echo

\* A text of its own that an adapter hands over stands in the chat twice, or was
\* forgotten.
LEMMA HandsNoEcho ==
  ASSUME IInv, Echo, NEW a \in Reading, NEW ids \in SUBSET Fresh(a),
         NEW i \in ids \ Echoes(a, ids),
         chat[i].by = a, chat[i].kind = "text"
  PROVE  Excused(i)
<1>1. a \in Adapters /\ at[a] # "off"
  BY DEF Reading
<1>2. ids \subseteq DOMAIN chat /\ DOMAIN chat \subseteq Ids
  BY FreshInChat
<1>3. ~Settled(i)
  BY FreshUnsettled DEF IInv
<1>4. Known(a, chat[i].text) \/ \E j \in DOMAIN chat \ {i} : chat[j].text = chat[i].text
  BY <1>1, <1>2, <1>3 DEF Echo, Remembered
<1>5. CASE chat[i].text \in ToSet(recent[a])
  <2>1. PICK j \in ids : j < i /\ chat[j].text = chat[i].text
    BY <1>5 DEF Echoes
  <2>2. j # i /\ j \in DOMAIN chat
    BY <1>2, <2>1 DEF Ids
  <2> QED BY <2>1, <2>2 DEF Excused
<1> QED BY <1>1, <1>4, <1>5 DEF Known, Excused

\* What an answer hands over changes no message but those.
LEMMA HandedOnly ==
  ASSUME IInv, Echo, NEW a \in Reading, NEW ids \in SUBSET Fresh(a), HandsOver(a, ids)
  PROVE  \A i \in Ids : handed'[i] # handed[i] => \E b \in Adapters :
           /\ handed'[i] = Append(handed[i], b) /\ i \in DOMAIN chat
           /\ chat[i].by = b /\ chat[i].kind = "text" => Excused(i)
<1> SUFFICES ASSUME NEW i \in Ids, handed'[i] # handed[i]
             PROVE  \E b \in Adapters :
                      /\ handed'[i] = Append(handed[i], b) /\ i \in DOMAIN chat
                      /\ chat[i].by = b /\ chat[i].kind = "text" => Excused(i)
  OBVIOUS
<1>1. i \in ids \ Echoes(a, ids) /\ handed'[i] = Append(handed[i], a)
  BY DEF HandsOver, HandedBy
<1>2. i \in DOMAIN chat /\ a \in Adapters
  BY <1>1, FreshInChat DEF Reading
<1>3. chat[i].by = a /\ chat[i].kind = "text" => Excused(i)
  BY <1>1, HandsNoEcho
<1> QED BY <1>1, <1>2, <1>3

\* What a slot's step does to the sends and to what its adapter remembers.
LEMMA SlotAnnounces ==
  ASSUME IInv, Memory, Echo, NEW s \in Slots,
         \/ Posted(s) \/ SendFails(s) \/ Resends(s) \/ ResendFails(s)
         \/ \E job \in Jobs : Sends(s, job)
  PROVE  /\ UNCHANGED <<handed, at>> /\ forgotten \subseteq forgotten'
         /\ \A b \in Adapters : ToSet(recent[b]) \subseteq ToSet(recent'[b]) \cup forgotten'
         /\ \A r \in Slots \ {s} : send'[r] = send[r]
         /\ Announced(s)'
         /\ send'[s].at \in {"waiting", "posting"} => at[send'[s].by] # "new"
<1>0. send \in [Slots -> SendStates] /\ IdleSend.at = "idle"
  BY DEF IInv, Types, IdleSend
<1>1. UNCHANGED <<handed, at>>
  BY DEF Posted, SendFails, Resends, ResendFails, Sends, Begins, inbound, own
<1>2. forgotten \subseteq forgotten'
      /\ \A b \in Adapters : ToSet(recent[b]) \subseteq ToSet(recent'[b]) \cup forgotten'
  BY SlotLearns DEF Learns
<1>3. \A r \in Slots \ {s} : send'[r] = send[r]
  BY <1>0 DEF Posted, SendFails, Resends, ResendFails, Sends, Begins, Step
<1>4. CASE SendFails(s) \/ ResendFails(s)
  <2>1. send[s].at \in {"waiting", "posting"}
        /\ send'[s] \in {IdleSend, [at |-> "waiting", by |-> send[s].by, job |-> send[s].job]}
    BY <1>0, <1>4 DEF SendFails, ResendFails, Sending, Step
  <2>2. at[send[s].by] # "new"
    BY <2>1 DEF Echo, Introduced
  <2>3. send'[s].at # "posting" /\ (send'[s].at = "waiting" => send'[s].by = send[s].by)
    BY <1>0, <2>1
  <2> QED BY <1>1, <1>2, <1>3, <2>2, <2>3 DEF Announced
<1>5. CASE Posted(s)
  <2>1. send[s].at = "posting"
        /\ send'[s] = IF send[s].chunk = Len(send[s].job) THEN IdleSend
                      ELSE [send[s] EXCEPT !.chunk = send[s].chunk + 1]
    BY <1>0, <1>5 DEF Posted, Sending, Step
  <2>2. at[send[s].by] # "new"
    BY <2>1 DEF Echo, Introduced
  <2>3. CASE send[s].chunk = Len(send[s].job)
    BY <1>0, <1>1, <1>2, <1>3, <2>1, <2>3 DEF Announced
  <2>4. CASE send[s].chunk # Len(send[s].job)
    <3>1. /\ send'[s].by = send[s].by /\ send'[s].job = send[s].job
          /\ send'[s].chunk = send[s].chunk + 1 /\ send'[s].at = "posting"
      <4>1. send[s] \in [at : {"posting"}, by : Adapters, job : Jobs, chunk : Nat, retry : BOOLEAN]
        BY <2>1, SendUnderWay
      <4> QED BY <2>1, <2>4, <4>1
    <3>2. LET c == send[s].job[send[s].chunk + 1]
          IN c.kind = "text" => c.text \in ToSet(recent'[send[s].by])
      BY <1>5, <2>4, PostedLearns
    <3>3. Announced(s)'
      BY <3>1, <3>2 DEF Announced, Known
    <3> QED BY <1>1, <1>2, <1>3, <2>2, <3>1, <3>3
  <2> QED BY <2>3, <2>4
<1>6. CASE Resends(s) \/ \E job \in Jobs : Sends(s, job)
  <2>1. PICK a \in Adapters, job \in Jobs, retry \in BOOLEAN :
          Begins(s, a, job, retry) /\ at[a] # "new"
    BY <1>6, SendUnderWay DEF Resends, Sends, Sending, IInv, Types, Echo, Introduced
  <2>2. send'[s] = [at |-> "posting", by |-> a, job |-> job, chunk |-> 1, retry |-> retry]
    BY <1>0, <2>1 DEF Begins, Step
  <2>3. job[1].kind = "text" => job[1].text \in ToSet(recent'[a])
    BY <2>1, BeginsLearns
  <2>4. Announced(s)'
    BY <2>2, <2>3 DEF Announced, Known
  <2> QED BY <1>1, <1>2, <1>3, <2>1, <2>2, <2>4
<1> QED BY <1>4, <1>5, <1>6

\* A chunk that is posted is one that was announced.
LEMMA PostRemembered ==
  ASSUME IInv, IInv', Memory, Echo, [Next]_vars, NEW s \in Slots,
         \/ Posted(s) \/ SendFails(s) \/ Resends(s) \/ ResendFails(s)
         \/ \E job \in Jobs : Sends(s, job)
  PROVE  /\ Extends
         /\ \A i \in DOMAIN chat' \ DOMAIN chat :
              (chat'[i].by \in Adapters => at'[chat'[i].by] # "new") /\ Remembered(i)'
<1>1. CASE chat' = chat
  BY <1>1 DEF Extends
<1>2. CASE send[s].at = "posting" /\ Accepted(s)
  <2>1. PICK p \in Posts : /\ chat' = Append(chat, p)
                          /\ p.by = send[s].by /\ p.by \in Adapters
                          /\ p.text = send[s].job[send[s].chunk].text
                          /\ p.kind = send[s].job[send[s].chunk].kind
    BY <1>2, AcceptedPost
  <2>2. /\ Extends
        /\ DOMAIN chat' = DOMAIN chat \cup {Len(chat) + 1}
        /\ Len(chat) + 1 \notin DOMAIN chat
        /\ chat'[Len(chat) + 1] = p
    BY <2>1, PostExtends
  <2>3. /\ at' = at /\ forgotten \subseteq forgotten'
        /\ \A b \in Adapters : ToSet(recent[b]) \subseteq ToSet(recent'[b]) \cup forgotten'
    BY SlotAnnounces
  <2>4. at[p.by] # "new"
    BY <1>2, <2>1 DEF Echo, Introduced
  <2>5. p.kind = "text" => Known(p.by, p.text) \/ \E j \in DOMAIN chat : chat[j].text = p.text
    BY <1>2, <2>1 DEF Echo, Announced
  <2>6. p.kind = "text" => Known(p.by, p.text)' \/ \E j \in DOMAIN chat : chat[j].text = p.text
    BY <2>1, <2>3, <2>5 DEF Known
  <2>7. ASSUME NEW i \in DOMAIN chat' \ DOMAIN chat
        PROVE  (chat'[i].by \in Adapters => at'[chat'[i].by] # "new") /\ Remembered(i)'
    <3>1. chat'[i] = p /\ \A j \in DOMAIN chat : j \in DOMAIN chat' \ {i} /\ chat'[j] = chat[j]
      BY <2>2 DEF Extends
    <3>2. PICK a : a = p.by /\ a = chat'[i].by
      BY <3>1
    <3>3. PICK t : t = p.text /\ t = chat'[i].text
      BY <3>1
    <3>4. ASSUME p.kind = "text"
          PROVE  Known(a, t)' \/ \E j \in DOMAIN chat' \ {i} : chat'[j].text = t
      <4>1. CASE Known(p.by, p.text)'
        BY <3>2, <3>3, <4>1 DEF Known
      <4>2. CASE \E j \in DOMAIN chat : chat[j].text = p.text
        BY <3>1, <3>3, <4>2
      <4> QED BY <2>6, <3>4, <4>1, <4>2
    <3>5. chat'[i].kind = "text" => Known(a, t)' \/ \E j \in DOMAIN chat' \ {i} : chat'[j].text = t
      BY <3>1, <3>4
    <3>6. Remembered(i)'
      BY <3>2, <3>3, <3>5 DEF Remembered, Known
    <3> QED BY <2>3, <2>4, <3>1, <3>6
  <2> QED BY <2>2, <2>7
<1> QED BY <1>1, <1>2, SlotPosts

\* A step that neither posts nor sends nor hands over, and forgets nothing.
LEMMA EchoQuiet ==
  ASSUME IInv, IInv', Echo, [Next]_vars, UNCHANGED <<chat, send, handed, recent, forgotten>>
  PROVE  Echo'
<1>1. Extends /\ DOMAIN chat' \ DOMAIN chat = {}
  BY DEF Extends
<1>2. \A b \in Adapters : at[b] # "new" => \A t \in ToSet(recent[b]) :
        \/ at'[b] = "off" \/ t \in forgotten' \/ t \in ToSet(recent'[b])
        \/ \E j \in DOMAIN chat : chat[j].text = t /\ Settled(j)'
  OBVIOUS
<1> QED BY <1>1, <1>2, EchoStep

\* An answer that is read: a text that is forgotten was recognised in a message
\* that is settled now.
LEMMA EchoReads ==
  ASSUME IInv, IInv', Memory, Echo, [Next]_vars, NEW a \in Adapters, PollAnswered(a)
  PROVE  Echo'
<1> DEFINE gone == {chat[i].text : i \in Echoes(a, Fresh(a))}
<1>1. /\ UNCHANGED <<chat, send, forgotten>> /\ a \in Reading /\ Stores(a)
      /\ HandsOver(a, Fresh(a)) /\ Rearmed(a)
  BY DEF PollAnswered, history, Reading
<1>2. /\ \A b \in Adapters \ {a} : recent'[b] = recent[b]
      /\ ToSet(recent'[a]) = ToSet(recent[a]) \ gone
  BY ReadForgets
<1>3. \A i \in Answer(a) : Settled(i)'
  <2>1. TableTakes(a) /\ a \in Asking
    <3>1. /\ at'[a] \in {"idle", "off"} /\ upTo'[a] = 0
          /\ \A b \in Adapters \ {a} : at'[b] = at[b] /\ upTo'[b] = upTo[b]
      BY <1>1, RearmedOwn DEF IInv
    <3>2. Polling' \subseteq Polling \cup {a} /\ a \in Asking
      BY <1>1, <3>1 DEF Polling, Reading, Asking
    <3>3. UNCHANGED skipped
      BY DEF PollAnswered, history
    <3> QED BY <1>1, <3>1, <3>2, <3>3, StoresTable DEF TableTakes
  <2> QED BY <2>1, TakenSettled DEF IInv
<1>4. \A i \in Echoes(a, Fresh(a)) : i \in DOMAIN chat /\ Settled(i)'
  BY <1>1, <1>3, FreshInChat DEF Echoes, Fresh
<1>5. \A t \in gone : \E j \in DOMAIN chat : chat[j].text = t /\ Settled(j)'
  BY <1>4
<1> HIDE DEF gone
<1>6. \A b \in Adapters : at[b] # "new" => \A t \in ToSet(recent[b]) :
        \/ at'[b] = "off" \/ t \in forgotten' \/ t \in ToSet(recent'[b])
        \/ \E j \in DOMAIN chat : chat[j].text = t /\ Settled(j)'
  BY <1>2, <1>5
<1>7. Extends /\ DOMAIN chat' \ DOMAIN chat = {}
  BY <1>1 DEF Extends
<1>8. \A i \in Ids : handed'[i] # handed[i] => \E b \in Adapters :
        /\ handed'[i] = Append(handed[i], b) /\ i \in DOMAIN chat
        /\ chat[i].by = b /\ chat[i].kind = "text" => Excused(i)
  <2>1. Fresh(a) \in SUBSET Fresh(a)
    OBVIOUS
  <2> QED BY <1>1, <2>1, HandedOnly
<1> QED BY <1>1, <1>6, <1>7, <1>8, EchoStep

\* A crash leaves every adapter off, in the middle of an answer as well.
LEMMA EchoCrash ==
  ASSUME IInv, IInv', Echo, [Next]_vars, Crash
  PROVE  Echo'
<1>1. /\ UNCHANGED <<chat, forgotten>> /\ send' = [s \in Slots |-> IdleSend]
      /\ \A b \in Adapters : at'[b] = IF at[b] = "new" THEN "new" ELSE "off"
  BY DEF Crash
<1>2. Extends /\ DOMAIN chat' \ DOMAIN chat = {}
  BY <1>1 DEF Extends
<1>3. \A s \in Slots : send'[s].at = "idle"
  BY <1>1 DEF IdleSend
<1>4. \A s \in Slots : Announced(s)' /\ send'[s].at \notin {"waiting", "posting"}
  BY <1>3 DEF Announced
<1>5. \A i \in Ids : handed'[i] # handed[i] => \E b \in Adapters :
        /\ handed'[i] = Append(handed[i], b) /\ i \in DOMAIN chat
        /\ chat[i].by = b /\ chat[i].kind = "text" => Excused(i)
  <2>1. CASE handed' = handed
    BY <2>1
  <2>2. ASSUME NEW a \in Adapters, NEW next \in Fresh(a), at[a] \in {"catchup", "polled"},
               HandsOver(a, {i \in Fresh(a) : i < next})
        PROVE  \A i \in Ids : handed'[i] # handed[i] => \E b \in Adapters :
                 /\ handed'[i] = Append(handed[i], b) /\ i \in DOMAIN chat
                 /\ chat[i].by = b /\ chat[i].kind = "text" => Excused(i)
    <3>1. a \in Reading /\ {i \in Fresh(a) : i < next} \in SUBSET Fresh(a)
      BY <2>2 DEF Reading
    <3> QED BY <2>2, <3>1, HandedOnly
  <2> QED BY <2>1, <2>2 DEF Crash
<1> QED BY <1>1, <1>2, <1>4, <1>5, EchoStep

\* A file that is loaded is no text.
LEMMA EchoLoaded ==
  ASSUME IInv, IInv', Sound, Echo, [Next]_vars, NEW f \in loading, Loaded(f)
  PROVE  Echo'
<1>1. /\ UNCHANGED <<chat, send, recent, forgotten>>
      /\ handed' = HandedBy(f[2], {f[1]}) \/ handed' = handed
  BY DEF Loaded, table, own, history
<1>2. f[1] \in DOMAIN chat /\ chat[f[1]].kind = "file" /\ f[2] \in Adapters
  BY DEF Sound, IInv, Types, Handing
<1>3. Extends /\ DOMAIN chat' \ DOMAIN chat = {}
  BY <1>1 DEF Extends
<1>4. \A i \in Ids : handed'[i] # handed[i] => \E b \in Adapters :
        /\ handed'[i] = Append(handed[i], b) /\ i \in DOMAIN chat
        /\ chat[i].by = b /\ chat[i].kind = "text" => Excused(i)
  BY <1>1, <1>2 DEF HandedBy
<1> QED BY <1>1, <1>3, <1>4, EchoStep

\* A chunk that is posted was remembered before.
LEMMA EchoSlot ==
  ASSUME IInv, IInv', Memory, Echo, [Next]_vars, NEW s \in Slots,
         \/ Posted(s) \/ SendFails(s) \/ Resends(s) \/ ResendFails(s)
         \/ \E job \in Jobs : Sends(s, job)
  PROVE  Echo'
<1>1. /\ UNCHANGED <<handed, at>> /\ forgotten \subseteq forgotten'
      /\ \A b \in Adapters : ToSet(recent[b]) \subseteq ToSet(recent'[b]) \cup forgotten'
      /\ \A r \in Slots \ {s} : send'[r] = send[r]
      /\ Announced(s)'
      /\ send'[s].at \in {"waiting", "posting"} => at[send'[s].by] # "new"
  BY SlotAnnounces
<1>2. /\ Extends
      /\ \A i \in DOMAIN chat' \ DOMAIN chat :
           (chat'[i].by \in Adapters => at'[chat'[i].by] # "new") /\ Remembered(i)'
  BY PostRemembered
<1>3. \A b \in Adapters : at[b] # "new" => \A t \in ToSet(recent[b]) :
        \/ at'[b] = "off" \/ t \in forgotten' \/ t \in ToSet(recent'[b])
        \/ \E j \in DOMAIN chat : chat[j].text = t /\ Settled(j)'
  BY <1>1
<1>4. \A r \in Slots : send'[r] # send[r] =>
        /\ Announced(r)'
        /\ send'[r].at \in {"waiting", "posting"} => at'[send'[r].by] # "new"
  BY <1>1
<1> QED BY <1>1, <1>2, <1>3, <1>4, EchoStep

\* The user's messages are nobody's echo.
LEMMA EchoUser ==
  ASSUME IInv, IInv', Echo, [Next]_vars, NEW t \in Texts \cup {NoText},
         NEW kind \in {"text", "file"}, UserPosts(t, kind)
  PROVE  Echo'
<1>1. PICK p : p = [by |-> NoAdapter, text |-> t, kind |-> kind]
  OBVIOUS
<1>2. p \in Posts /\ p.by \notin Adapters
  BY <1>1, Bounds DEF Posts, NoAdapter, Adapters
<1>3. chat' = Append(chat, p) /\ UNCHANGED <<send, handed, recent, forgotten>>
  BY <1>1 DEF UserPosts, own, inbound, history
<1>4. /\ Extends
      /\ DOMAIN chat' = DOMAIN chat \cup {Len(chat) + 1}
      /\ chat'[Len(chat) + 1] = p
  BY <1>2, <1>3, PostExtends
<1>5. \A i \in DOMAIN chat' \ DOMAIN chat :
        (chat'[i].by \in Adapters => at'[chat'[i].by] # "new") /\ Remembered(i)'
  BY <1>2, <1>4 DEF Remembered
<1>6. \A b \in Adapters : at[b] # "new" => \A x \in ToSet(recent[b]) :
        \/ at'[b] = "off" \/ x \in forgotten' \/ x \in ToSet(recent'[b])
        \/ \E j \in DOMAIN chat : chat[j].text = x /\ Settled(j)'
  BY <1>3
<1> QED BY <1>3, <1>4, <1>5, <1>6, EchoStep

\* Every step keeps the adapters from hearing themselves.
LEMMA EchoNext ==
  ASSUME IInv, IInv', Memory, Sound, Echo, [Next]_vars
  PROVE  Echo'
<1>1. CASE Boot \/ Reload \/ UNCHANGED vars
  BY <1>1, EchoQuiet DEF Boot, Reload, vars, table, own, inbound, history
<1>2. ASSUME NEW a \in Adapters, AdapterSteps(a) PROVE Echo'
  <2>1. CASE PollAnswered(a)
    BY <2>1, EchoReads
  <2>2. CASE ~PollAnswered(a)
    BY <1>2, <2>2, EchoQuiet
       DEF AdapterSteps, Starts, StartFails, Baseline, Polls, PollFails, table, inbound, history
  <2> QED BY <2>1, <2>2
<1>3. CASE Crash
  BY <1>3, EchoCrash
<1>4. CASE \E f \in loading : Loaded(f)
  BY <1>4, EchoLoaded
<1>5. CASE (\E s \in Slots : Posted(s) \/ SendFails(s) \/ Resends(s) \/ ResendFails(s))
           \/ (\E s \in Slots, job \in Jobs : Sends(s, job))
  BY <1>5, EchoSlot
<1>6. CASE \E t \in UserTexts \cup {NoText}, kind \in {"text", "file"} : UserPosts(t, kind)
  <2>1. UserTexts \subseteq Texts
    BY BoundsAssumption
  <2> QED BY <1>6, <2>1, EchoUser
<1> QED BY <1>1, <1>2, <1>3, <1>4, <1>5, <1>6 DEF Next
-----------------------------------------------------------------------------
(* Initially *)

\* The invariant holds when the process starts for the first time.
LEMMA InitRest == Init => Memory /\ Sound /\ SkippedForAReason /\ Echo
<1> SUFFICES ASSUME Init PROVE Memory /\ Sound /\ SkippedForAReason /\ Echo
  OBVIOUS
<1>0. 1 \in Adapters /\ NoAdapter \notin Adapters
  BY Bounds DEF Adapters, NoAdapter
<1>1. chat \in [1..History -> [by : {NoAdapter}, text : UserTexts, kind : {"text"}]]
      /\ DOMAIN chat = 1..History
  BY DEF Init
<1>2. \A i \in DOMAIN chat : chat[i].kind = "text" /\ chat[i].by = NoAdapter
  BY <1>1
<1>3. recent = [a \in Adapters |-> <<>>] /\ \A a \in Adapters : recent[a] = <<>>
  BY DEF Init
<1>4. Memory
  <2>1. recent \in [Adapters -> Seq(Texts)] /\ \A a \in Adapters : IsInjective(recent[a])
    BY <1>3 DEF IsInjective
  <2>2. polls \in [Adapters -> 0..PruneEvery - 1]
    BY BoundsAssumption DEF Init
  <2>3. crashes \in 0..MaxCrashes /\ {baselined, crashedAt} \subseteq 0..MaxChat
    BY BoundsAssumption DEF Init
  <2> QED BY <1>0, <2>1, <2>2, <2>3 DEF Init, Memory
<1>5. Sound
  <2>1. \A a \in Adapters : ToSet(recent[a]) = {}
    BY <1>3 DEF ToSet
  <2> QED BY <1>2, <2>1 DEF Sound, Init
<1>6. SkippedForAReason
  <2>1. Rows = {}
    BY DEF Init, Rows, RowsOf
  <2> QED BY <2>1 DEF SkippedForAReason
<1>7. Echo
  <2>1. Started
    <3>1. \A b \in Adapters : b \in Nat /\ b >= 1
      BY DEF Adapters
    <3>2. \A b \in Adapters : at[b] # "new" <=> b = 1
      BY DEF Init
    <3>3. \A b \in Adapters : at[b] # "new" <=> b <= 1
      BY <3>1, <3>2
    <3> QED BY <1>0, <3>3 DEF Started
  <2>2. Introduced
    BY <1>0, <1>2 DEF Introduced, Init, IdleSend
  <2>3. \A i \in DOMAIN chat : Remembered(i)
    BY <1>0, <1>2 DEF Remembered
  <2>4. \A s \in Slots : Announced(s)
    BY DEF Announced, Init, IdleSend
  <2>5. EchoesStayOut
    <3>1. DOMAIN chat \subseteq Ids
      BY <1>1, Bounds DEF Ids
    <3>2. \A i \in Ids : handed[i] = <<>>
      BY DEF Init
    <3>3. \A i \in Ids : ToSet(handed[i]) = {}
      BY <3>2 DEF ToSet
    <3> QED BY <3>1, <3>3 DEF EchoesStayOut
  <2> QED BY <2>1, <2>2, <2>3, <2>4, <2>5 DEF Echo
<1> QED BY <1>4, <1>5, <1>6, <1>7

\* Everything the theorems below rest on.
Everything == IInv /\ Memory /\ Sound /\ SkippedForAReason /\ Echo

\* And it holds of every behaviour.
LEMMA EverythingHolds == Spec => []Everything
<1>1. Init => Everything
  BY InitHolds, InitRest DEF Everything
<1>2. Everything /\ [Next]_vars => Everything'
  <2> SUFFICES ASSUME Everything, [Next]_vars PROVE Everything'
    OBVIOUS
  <2>1. IInv /\ IInv' /\ Memory /\ Sound /\ SkippedForAReason /\ Echo
    BY NextKeeps DEF Everything
  <2>2. Memory'
    BY <2>1, MemoryStep
  <2> QED BY <2>1, <2>2, SoundStep, SkippedNext, EchoNext DEF Everything
<1> QED BY <1>1, <1>2, PTL DEF Spec

\* The channel's state has its type, for any number of messages, sends and crashes:
\* no list of remembered texts holds a text twice, and no send is past its last chunk.
THEOREM TypeCorrect == Spec => []TypeOK
<1>1. Everything => TypeOK
  BY DEF Everything, IInv, Types, Memory, TypeOK
<1> QED BY <1>1, EverythingHolds, PTL

\* A user's message that is marked and never reaches the head was skipped for one
\* of the reasons the code knows.
THEOREM SkippedWithReason == Spec => []SkippedForAReason
<1>1. Everything => SkippedForAReason
  BY DEF Everything
<1> QED BY <1>1, EverythingHolds, PTL

\* An adapter hands no text of its own to the head that stands in the chat once and
\* was not forgotten, whatever it sends meanwhile and whoever replaces it.
THEOREM EchoesKeptOut == Spec => []EchoesStayOut
<1>1. Everything => EchoesStayOut
  BY DEF Everything, Echo
<1> QED BY <1>1, EverythingHolds, PTL
=============================================================================
