------------------------------ MODULE CliqChannel ------------------------------
(***************************************************************************)
(* The Zoho Cliq channel of a head: the adapter of                         *)
(* src/src/channels/zoho-cliq/adapter.ts and its table of processed        *)
(* messages, the router in front of it, the hot reload of index.ts that     *)
(* replaces it, and the way of an inbound message into the head's queue.    *)
(*                                                                         *)
(* Cliq pushes nothing and knows no bot account: the adapter polls the      *)
(* newest Window messages of the chat and must tell the user's messages     *)
(* from its own, which come back under the same sender.  Every request is   *)
(* an await; what follows an answer runs without interruption.              *)
(***************************************************************************)
EXTENDS Naturals, FiniteSets, SequencesExt

CONSTANTS
  Texts,       \* what is left of a text when it is normalised
  UserTexts,   \* those the user writes
  NoText,      \* none: a file without a comment, or a message of no text at all
  Jobs,        \* what the head sends: sequences of chunks, see Chunk
  Slots,       \* sends that may be under way at once
  MaxAdapters, \* bound on starts and reloads
  History,     \* messages in the chat before the first start
  MaxChat,     \* bound on the chat
  MaxCrashes,  \* bound on crashes
  Window,      \* messages in an answer (20)
  Lag,         \* messages posted while a request is under way, at most
  RecentMax,   \* sent texts that are remembered (50)
  PruneEvery,  \* polls between two prunings (20)
  Keep         \* rows a pruning keeps (500)

Chunk == [text : Texts, kind : {"text"}] \cup [text : {NoText}, kind : {"label"}]
\* Adapters are numbered in the order in which they are constructed.
Adapters == 1..MaxAdapters
NoAdapter == 0

ASSUME JobsAssumption == Jobs \subseteq Seq(Chunk) \ {<<>>}
ASSUME BoundsAssumption ==
  /\ {History, MaxChat, MaxCrashes, Lag} \subseteq Nat
  /\ \A n \in {MaxAdapters, Window, RecentMax, PruneEvery, Keep} : n \in Nat \ {0}
  /\ NoText \notin Texts /\ UserTexts \subseteq Texts
  /\ History <= MaxChat
  \* 500 and 20: a row is pruned only when no answer can hold its message.
  /\ Keep >= 2 * (Window + Lag) - 1

VARIABLES
  chat,       \* the chat as Cliq has it: who posted what; 0 is the user
  seenAt,     \* the table: message -> when it was marked, 0 if it is not there
  marks,      \* the clock, as far as the table can tell
  at,         \* adapter -> the await it is in
  upTo,       \* adapter -> the newest message of the answer under way
  recent,     \* adapter -> recentSentNormalized, in insertion order
  polls,      \* adapter -> pollCount, as far as the pruning can tell
  stopped,    \* adapters whose stop() was called
  current,    \* currentZohoCliqAdapter
  routed,     \* the adapter in the router
  reloading,  \* the adapters that a reload waits for
  send,       \* slot -> router.send under way
  loading,    \* <<message, adapter>>: attachments being downloaded or transcribed
  handed,     \* message -> the adapters that handed it to the head
  up, crashes,
  said,       \* history: texts an adapter ever remembered
  forgotten,  \* history: texts an adapter forgot because it remembers RecentMax
  baselined,  \* history: the newest message a cold start took for history
  skipped,    \* history: a cold start got no answer and took nothing
  crashedAt   \* history: length of the chat at the last crash

table == <<chat, seenAt, marks>>
own == <<at, upTo, recent, polls, stopped>>
wiring == <<current, routed, reloading>>
inbound == <<loading, handed>>
process == <<up, crashes>>
history == <<said, forgotten, baselined, skipped, crashedAt>>
vars == <<table, own, wiring, send, inbound, process, history>>

Ids == 1..MaxChat
Posts == [by : Adapters \cup {NoAdapter}, text : Texts \cup {NoText},
          kind : {"text", "label", "file"}]
Places == {"new", "token", "baseline", "catchup", "idle", "polled", "off"}
Handing == Ids \X Adapters
IdleSend == [at |-> "idle"]
SendStates == {IdleSend} \cup [at : {"waiting"}, by : Adapters, job : Jobs] \cup
  [at : {"posting"}, by : Adapters, job : Jobs, chunk : Nat, retry : BOOLEAN]

TypeOK ==
  /\ chat \in Seq(Posts) /\ Len(chat) <= MaxChat
  /\ seenAt \in [Ids -> 0..marks] /\ marks \in Nat
  /\ at \in [Adapters -> Places]
  /\ upTo \in [Adapters -> 0..MaxChat]
  /\ \A a \in Adapters : recent[a] \in Seq(Texts) /\ IsInjective(recent[a])
  /\ polls \in [Adapters -> 0..PruneEvery - 1]
  /\ stopped \subseteq Adapters
  /\ current \in Adapters /\ routed \in Adapters /\ reloading \subseteq Adapters
  /\ send \in [Slots -> SendStates]
  /\ \A s \in Slots : send[s].at = "posting" => send[s].chunk \in 1..Len(send[s].job)
  /\ loading \subseteq Handing
  /\ handed \in [Ids -> Seq(Adapters)]
  /\ up \in BOOLEAN /\ crashes \in 0..MaxCrashes
  /\ said \subseteq Texts /\ forgotten \subseteq Texts
  /\ skipped \in BOOLEAN
  /\ {baselined, crashedAt} \subseteq 0..MaxChat

\* The requests whose answers are read when they arrive.
Asking == {a \in Adapters : at[a] \in {"baseline", "catchup", "polled"}}
\* Bounds: the chat takes another message, somebody may still read it, and no
\* request under way is older than Lag messages.
MayPost ==
  /\ Len(chat) < MaxChat
  /\ \E a \in Adapters : at[a] # "off"
  /\ \A a \in Asking : Len(chat) < upTo[a] + Lag

\* A request is answered with the newest messages as they stood when it was made.
Answer(a) == {i \in 1..upTo[a] : i > upTo[a] - Window}
-----------------------------------------------------------------------------
(* ZohoCliqStateStore *)

RowsOf(stamps) == {i \in Ids : stamps[i] # 0}
Rows == RowsOf(seenAt)
Fresh(a) == Answer(a) \ Rows

\* markProcessed: INSERT OR IGNORE with one seen_at.
Marked(ids) == [i \in Ids |-> IF i \in ids \ Rows THEN marks + 1 ELSE seenAt[i]]
Marks(ids) == marks' = IF ids \subseteq Rows THEN marks ELSE marks + 1

Only(stamps, kept) == [i \in Ids |-> IF i \in kept THEN stamps[i] ELSE 0]

\* pruneProcessed: the rows that are kept are the newest; the database chooses
\* among rows of one seen_at.
Prunings(stamps) ==
  {Only(stamps, kept) :
     kept \in {k \in SUBSET RowsOf(stamps) :
                 /\ Cardinality(k) = Keep
                 /\ \A i \in k, j \in RowsOf(stamps) \ k : stamps[j] <= stamps[i]}}

\* Mutant of Pruned: as many rows are kept as an answer has messages.
PrunedToWindow(stamps) ==
  {Only(stamps, {i \in RowsOf(stamps) :
                   Cardinality({j \in RowsOf(stamps) : j > i}) < Window})}

Pruned(stamps) ==
  IF Cardinality(RowsOf(stamps)) <= Keep THEN {stamps} ELSE Prunings(stamps)
-----------------------------------------------------------------------------
(* The life of an adapter *)

\* stop(): the timer is cleared; a request under way is not.
StopOf(places, a) == [places EXCEPT ![a] = IF @ = "idle" THEN "off" ELSE @]

Newest == CHOOSE a \in Adapters : at[a] # "new" /\ \A b \in Adapters : b > a => at[b] = "new"

\* Startup: one adapter, registered before it starts.
Boot ==
  LET a == Newest + 1 IN
  /\ ~up /\ a \in Adapters
  /\ up' = TRUE
  /\ at' = [at EXCEPT ![a] = "token"]
  /\ current' = a /\ routed' = a
  /\ UNCHANGED <<table, upTo, recent, polls, stopped, reloading, send, inbound, crashes, history>>

\* The reload sentinel: the adapter in currentZohoCliqAdapter is retired and the
\* next one takes its place in the router, and in the variable once it started.
Reload ==
  LET a == Newest + 1 IN
  /\ up /\ a \in Adapters
  /\ stopped' = stopped \cup {current}
  /\ at' = [StopOf(at, current) EXCEPT ![a] = "token"]
  /\ routed' = a
  /\ reloading' = reloading \cup {a}
  /\ UNCHANGED <<table, upTo, recent, polls, current, send, inbound, process, history>>

\* Mutant of Starts: every start catches up.
StartsWarm(a) ==
  /\ up /\ at[a] = "token"
  /\ at' = [at EXCEPT ![a] = "catchup"]
  /\ upTo' = [upTo EXCEPT ![a] = Len(chat)]
  /\ UNCHANGED <<table, recent, polls, stopped, wiring, send, inbound, process, history>>

\* start() has its token and asks: for a baseline if the table is empty.
Starts(a) ==
  /\ up /\ at[a] = "token"
  /\ at' = [at EXCEPT ![a] = IF Rows = {} THEN "baseline" ELSE "catchup"]
  /\ upTo' = [upTo EXCEPT ![a] = Len(chat)]
  /\ UNCHANGED <<table, recent, polls, stopped, wiring, send, inbound, process, history>>

\* Without a token start() throws; nothing tries again.
StartFails(a) ==
  /\ up /\ at[a] = "token"
  /\ at' = [at EXCEPT ![a] = "off"]
  /\ reloading' = reloading \ {a}
  /\ UNCHANGED <<table, upTo, recent, polls, stopped, current, routed, send, inbound, process,
                 history>>

\* schedulePoll; at the end of start() a reload that waits for it goes on.
Rearmed(a) ==
  /\ upTo' = [upTo EXCEPT ![a] = 0]
  /\ at' = [at EXCEPT ![a] = IF a \in stopped THEN "off" ELSE "idle"]
  /\ current' = IF a \in reloading THEN a ELSE current
  /\ reloading' = reloading \ {a}

Baseline(a) ==
  /\ up /\ at[a] = "baseline"
  /\ Rearmed(a)
  /\ \/ /\ seenAt' = Marked(Answer(a)) /\ Marks(Answer(a))
        /\ baselined' = IF upTo[a] > baselined THEN upTo[a] ELSE baselined
        /\ UNCHANGED skipped
     \/ skipped' = TRUE /\ UNCHANGED <<seenAt, marks, baselined>>
  /\ UNCHANGED <<chat, recent, polls, stopped, routed, send, inbound, process,
                 said, forgotten, crashedAt>>
-----------------------------------------------------------------------------
(* poll() *)

Polls(a) ==
  /\ up /\ at[a] = "idle"
  /\ at' = [at EXCEPT ![a] = "polled"]
  /\ upTo' = [upTo EXCEPT ![a] = Len(chat)]
  /\ UNCHANGED <<table, recent, polls, stopped, wiring, send, inbound, process, history>>

\* Of these messages of an answer a takes the first with a remembered text for its
\* own, and forgets the text; the others are for the head.
Echoes(a, ids) ==
  {i \in ids : /\ chat[i].text \in ToSet(recent[a])
               /\ \A j \in ids : j < i => chat[j].text # chat[i].text}

\* Set.delete of some texts: the others keep their order.
Without(texts, gone) ==
  LET left[n \in 0..Len(texts)] ==
        IF n = 0 THEN <<>>
        ELSE IF texts[n] \in gone THEN left[n - 1] ELSE Append(left[n - 1], texts[n])
  IN left[Len(texts)]

Files(ids) == {i \in ids : chat[i].kind = "file"}
\* Neither a text nor a file.  (A label has a text of its own.)
SaysNothing(i) == chat[i].text = NoText /\ chat[i].kind = "text"
Empty(ids) == {i \in ids : SaysNothing(i)}
HandedBy(a, ids) == [i \in Ids |-> IF i \in ids THEN Append(handed[i], a) ELSE handed[i]]

\* Texts go to the head at once, files are downloaded first.  The comment of a
\* file is a text like any other to the filter; what is empty goes nowhere.
HandsOver(a, ids) ==
  handed' = HandedBy(a, ((ids \ Echoes(a, ids)) \ Files(ids)) \ Empty(ids))
Downloads(a, ids) == Files(ids \ Echoes(a, ids)) \X {a}

\* Everything in the answer is marked, and now and then the table is pruned.
Due(a) == upTo[a] # 0 /\ (polls[a] + 1) % PruneEvery = 0
Stores(a) ==
  /\ seenAt' \in IF Due(a) THEN Pruned(Marked(Answer(a))) ELSE {Marked(Answer(a))}
  /\ Marks(Answer(a))

\* Then the new messages are handed over one by one.
PollAnswered(a) ==
  /\ up /\ at[a] \in {"catchup", "polled"}
  /\ Rearmed(a)
  /\ polls' = IF upTo[a] = 0 THEN polls ELSE [polls EXCEPT ![a] = (@ + 1) % PruneEvery]
  /\ Stores(a)
  /\ HandsOver(a, Fresh(a))
  /\ loading' = loading \cup Downloads(a, Fresh(a))
  /\ recent' = [recent EXCEPT ![a] = Without(@, {chat[i].text : i \in Echoes(a, Fresh(a))})]
  /\ UNCHANGED <<chat, stopped, routed, send, process, history>>

\* No token, an error of Cliq, a broken connection: logged, and polled again.
PollFails(a) ==
  /\ up /\ at[a] \in {"catchup", "polled"}
  /\ Rearmed(a)
  /\ UNCHANGED <<table, recent, polls, stopped, routed, send, inbound, process, history>>
-----------------------------------------------------------------------------
(* Files, and headRouteMessage *)

\* Mutant of Loaded: a file that cannot be downloaded takes its message with it.
LoadedOrLost(f) ==
  /\ up /\ f \in loading
  /\ loading' = loading \ {f}
  /\ handed' = HandedBy(f[2], {f[1]}) \/ UNCHANGED handed
  /\ UNCHANGED <<table, own, wiring, send, process, history>>

\* The download ends, well or not, and then the transcription of a sound.  An
\* adapter that is stopped before the download ends drops the message.
Loaded(f) ==
  /\ up /\ f \in loading
  /\ loading' = loading \ {f}
  /\ \/ handed' = HandedBy(f[2], {f[1]})
     \/ f[2] \in stopped /\ UNCHANGED handed
  /\ UNCHANGED <<table, own, wiring, send, process, history>>
-----------------------------------------------------------------------------
(* ChannelRouterImpl.send and ZohoCliqAdapter.send *)

Sending(s, where) == up /\ send[s].at = where
Step(s, record) == send' = [send EXCEPT ![s] = record]

\* Mutant of Added: a list instead of a set.
AddedTwice(texts, c) == IF c.kind = "label" THEN texts ELSE Append(texts, c.text)

\* Set.add of a chunk before it is posted; a label is not remembered.
Added(texts, c) ==
  IF c.kind = "label" \/ Contains(texts, c.text) THEN texts ELSE Append(texts, c.text)

Said(c) == IF c.kind = "label" THEN said ELSE said \cup {c.text}

\* The first chunk; the token was fetched before.
Begins(s, a, job, retry) ==
  /\ Step(s, [at |-> "posting", by |-> a, job |-> job, chunk |-> 1, retry |-> retry])
  /\ recent' = [recent EXCEPT ![a] = Added(@, job[1])]
  /\ said' = Said(job[1])
  /\ UNCHANGED <<table, at, upTo, polls, stopped, wiring, inbound, process,
                 forgotten, baselined, skipped, crashedAt>>

\* The router picks the adapter once, for the retry too.
Sends(s, job) == Sending(s, "idle") /\ Begins(s, routed, job, FALSE)
Resends(s) == Sending(s, "waiting") /\ Begins(s, send[s].by, send[s].job, TRUE)

Accepted(s) ==
  LET c == send[s].job[send[s].chunk]
  IN MayPost /\ chat' = Append(chat, [by |-> send[s].by, text |-> c.text, kind |-> c.kind])

\* Mutant of Evicted: one text too few is remembered.
EvictedEarly(texts, c) == IF c.kind = "text" /\ Len(texts) >= RecentMax THEN Tail(texts) ELSE texts

\* After a chunk the oldest text is forgotten if there are too many.
Evicted(texts, c) == IF c.kind = "text" /\ Len(texts) > RecentMax THEN Tail(texts) ELSE texts

\* The answer to one chunk; the next one follows it.
Posted(s) ==
  LET a == send[s].by
      n == send[s].chunk
      job == send[s].job
      kept == Evicted(recent[a], job[n])
      last == n = Len(job)
  IN
  /\ Sending(s, "posting")
  /\ Accepted(s)
  /\ Step(s, IF last THEN IdleSend ELSE [send[s] EXCEPT !.chunk = n + 1])
  /\ recent' = [recent EXCEPT ![a] = IF last THEN kept ELSE Added(kept, job[n + 1])]
  /\ said' = IF last THEN said ELSE Said(job[n + 1])
  /\ forgotten' = IF job[n].kind = "text" /\ Len(recent[a]) > RecentMax
                  THEN forgotten \cup {Head(recent[a])} ELSE forgotten
  /\ UNCHANGED <<seenAt, marks, at, upTo, polls, stopped, wiring, inbound, process,
                 baselined, skipped, crashedAt>>

\* An error, whether or not Cliq took the chunk: once more from the first chunk
\* after two seconds, then a notice on another channel.
SendFails(s) ==
  /\ Sending(s, "posting")
  /\ UNCHANGED chat \/ Accepted(s)
  /\ Step(s, IF send[s].retry THEN IdleSend
             ELSE [at |-> "waiting", by |-> send[s].by, job |-> send[s].job])
  /\ UNCHANGED <<seenAt, marks, own, wiring, inbound, process, history>>

\* No token for the retry.
ResendFails(s) ==
  /\ Sending(s, "waiting")
  /\ Step(s, IdleSend)
  /\ UNCHANGED <<table, own, wiring, inbound, process, history>>
-----------------------------------------------------------------------------
(* The environment *)

UserPosts(text, kind) ==
  /\ MayPost
  /\ chat' = Append(chat, [by |-> NoAdapter, text |-> text, kind |-> kind])
  /\ UNCHANGED <<seenAt, marks, own, wiring, send, inbound, process, history>>

\* The process dies, between two awaits or while it hands over an answer that is
\* already marked; the memory of every adapter is lost.
Crash ==
  /\ up /\ crashes < MaxCrashes
  /\ \/ UNCHANGED <<seenAt, marks, handed>>
     \/ \E a \in Adapters : \E next \in Fresh(a) :
          /\ at[a] \in {"catchup", "polled"}
          /\ Stores(a)
          /\ HandsOver(a, {i \in Fresh(a) : i < next})
  /\ up' = FALSE /\ crashes' = crashes + 1
  /\ at' = [a \in Adapters |-> IF at[a] = "new" THEN "new" ELSE "off"]
  /\ send' = [s \in Slots |-> IdleSend]
  /\ loading' = {}
  /\ recent' = [a \in Adapters |-> <<>>]
  /\ polls' = [a \in Adapters |-> 0] /\ upTo' = [a \in Adapters |-> 0]
  /\ crashedAt' = Len(chat)
  /\ reloading' = {}
  /\ UNCHANGED <<chat, stopped, current, routed, said, forgotten, baselined, skipped>>
-----------------------------------------------------------------------------
Init ==
  /\ chat \in [1..History -> [by : {NoAdapter}, text : UserTexts, kind : {"text"}]]
  /\ seenAt = [i \in Ids |-> 0] /\ marks = 0
  /\ at = [a \in Adapters |-> IF a = 1 THEN "token" ELSE "new"]
  /\ upTo = [a \in Adapters |-> 0]
  /\ recent = [a \in Adapters |-> <<>>]
  /\ polls = [a \in Adapters |-> 0]
  /\ stopped = {}
  /\ current = 1 /\ routed = 1 /\ reloading = {}
  /\ send = [s \in Slots |-> IdleSend]
  /\ loading = {} /\ handed = [i \in Ids |-> <<>>]
  /\ up = TRUE /\ crashes = 0
  /\ said = {} /\ forgotten = {} /\ baselined = 0 /\ skipped = FALSE /\ crashedAt = 0

AdapterSteps(a) ==
  Starts(a) \/ StartFails(a) \/ Baseline(a) \/ Polls(a) \/ PollAnswered(a) \/ PollFails(a)

Next ==
  \/ Boot \/ Reload \/ Crash
  \/ \E a \in Adapters : AdapterSteps(a)
  \/ \E f \in loading : Loaded(f)
  \/ \E s \in Slots : Posted(s) \/ SendFails(s) \/ Resends(s) \/ ResendFails(s)
  \/ \E s \in Slots, job \in Jobs : Sends(s, job)
  \/ \E t \in UserTexts \cup {NoText}, kind \in {"text", "file"} : UserPosts(t, kind)

Spec == Init /\ [][Next]_vars
-----------------------------------------------------------------------------
(* What the channel promises *)

Got(i) == handed[i] # <<>>
UnderWay(i) == \E f \in loading : f[1] = i
FromUser(i) == chat[i].by = NoAdapter

\* No message reaches the head twice, whatever answers overlap, whichever adapter
\* reads them, and however the process ends between marking and handing over.
HandedOnce ==
  \A i \in Ids : Len(handed[i]) + Cardinality({f \in loading : f[1] = i}) <= 1

\* The assistant does not hear itself: a text that an adapter sent and read back
\* reaches the head only if the text stands in the chat twice, or was forgotten
\* to make room for another.
EchoesStayOut ==
  \A i \in DOMAIN chat :
    chat[i].by \in ToSet(handed[i]) /\ chat[i].kind = "text" =>
      \/ \E j \in DOMAIN chat \ {i} : chat[j].text = chat[i].text
      \/ chat[i].text \in forgotten

\* A user's message that is marked and never handed over was one of the first
\* start's history, repeats what the assistant said, was in hand when the process
\* died, says nothing, or is a file that an adapter was loading when it was retired.
SkippedForAReason ==
  \A i \in Rows :
    FromUser(i) /\ ~Got(i) /\ ~UnderWay(i) =>
      \/ i <= baselined
      \/ i <= crashedAt
      \/ chat[i].text \in said
      \/ SaysNothing(i)
      \/ chat[i].kind = "file" /\ stopped # {}

\* What was in the chat before the first start never reaches the head, unless a
\* cold start could not read it.
HistoryStaysOut == \A i \in 1..History : Got(i) => skipped
=============================================================================
