--------------------------- MODULE HeadAdminProofs ---------------------------
(***************************************************************************)
(* Proofs about HeadAdmin for every set of ids, agents and schedules, and  *)
(* any number of rows, requests and restarts.  The argument: whatever was  *)
(* not put where another head answers lies under the id of its head, or    *)
(* during a rename under the id its head is about to have; and a loop that *)
(* can reach it is that head's own.                                        *)
(***************************************************************************)
EXTENDS HeadAdmin, TLAPS

(* What is known of the process and the administrator *)

\* A head has one id, only the default head has the default one, and new heads
\* are new.
HeadsDistinct ==
  /\ born > 0
  /\ \A x \in Ids : conf[x] # Nobody => conf[x] < born /\ (conf[x] = 0 => x = Default)
  /\ \A x, y \in Ids : conf[x] # Nobody /\ conf[x] = conf[y] => x = y

\* Between the writes of a request the configuration is as the request found it.
RequestKnown ==
  /\ request.op = "none" => request = Idle
  /\ request.op # "none" =>
       /\ request.from \in Configured /\ request.from # Default
       /\ phase \in {"ready", "serving"} /\ ~fresh
  /\ request.op = "rename" => request.to \notin Configured /\ request.to # Default

\* A loop has its id from the startup, and a row in hand, or an archival under way,
\* only while it runs.
LoopsKnown ==
  /\ phase = "down" => \A x \in Ids : loop[x] = Nobody
  /\ phase = "starting" => fresh /\ todo \subseteq Configured
  /\ phase \in {"ready", "serving"} => todo = {}
  /\ fresh /\ phase # "down" => \A x \in Ids : x \in todo \/ loop[x] = Resolved[x]
  /\ \A x \in Ids : working[x] # 0 =>
       /\ phase = "serving"
       /\ working[x] <= sent
       /\ loop[x] \in takenBy[working[x]]
  /\ \A x \in Ids : archiving[x] # 0 => phase = "serving" /\ loop[x] # Nobody

AgentsKnown == \A k \in Agents : agent[k].live => phase = "serving"

SchedulesKnown == \A s \in Schedules : schedule[s] # Nobody => madeFor[s] # Nobody

Control ==
  TypeOK /\ HeadsDistinct /\ RequestKnown /\ LoopsKnown /\ AgentsKnown /\ SchedulesKnown
  /\ OnlyDeadReaped

(* What is known of the data *)

\* The head whose data are under x: a rename has moved them ahead of the head.
Answers(x) ==
  IF request.op # "rename" THEN Resolved[x]
  ELSE IF x = request.to THEN Resolved[request.from]
  ELSE IF x = request.from THEN Nobody
  ELSE Resolved[x]

RowsInOrder ==
  \A i \in Sent :
    /\ i > sent => row[i].st = "none" /\ logged[i] = {} /\ takenBy[i] = {}
    /\ i <= sent => ownerOf[i] # Nobody

DataWithHead == \A i \in Sent \ astray : \A x \in Where(i) : Answers(x) = ownerOf[i]

\* Only the head's own loop can reach a row.
LoopsOwn ==
  \A i \in Sent \ astray : row[i].st # "none" => loop[row[i].id] \in {ownerOf[i], Nobody}

\* A request in progress has taken everything from the id.
OriginEmpty ==
  request.op # "none" =>
    /\ keys[request.from] = {}
    /\ \A i \in Sent : request.from \notin Where(i)

CleanIds ==
  \A x \in Ids \ Configured :
    x \notin stray /\ (request.op = "rename" => x # request.to) =>
      /\ keys[x] = {}
      /\ \A i \in Sent : x \notin Where(i)
      /\ x \in left \/ \A s \in Schedules : schedule[s] # x

\* Since the last startup a row is in hand only with its loop.
InHand ==
  fresh /\ phase # "down" =>
    \A i \in Sent :
      row[i].st = "processing" /\ loop[row[i].id] # Nobody => working[row[i].id] = i

Storage ==
  RowsInOrder /\ DataWithHead /\ LoopsOwn /\ NoCrossTalk /\ OriginEmpty /\ CleanIds /\ InHand

\* Since the last startup a head's lock is held exactly while one archival runs.
LocksTrue ==
  fresh /\ phase # "down" =>
    \A x \in Ids : loop[x] # Nobody => archiving[x] = IF "held" \in keys[x] THEN 1 ELSE 0

IInv == Control /\ Storage /\ LocksTrue
-----------------------------------------------------------------------------
(* The configured heads *)

\* What resolveHeads() gives is a configuration like any other.
LEMMA ResolvedDistinct ==
  ASSUME TypeOK, HeadsDistinct
  PROVE  /\ Resolved \in [Ids -> Heads \cup {Nobody}]
         /\ Resolved[Default] \in {0, Nobody}
         /\ \A x \in Ids : Resolved[x] # Nobody => Resolved[x] < born /\ (Resolved[x] = 0 => x = Default)
         /\ \A x, y \in Ids : Resolved[x] # Nobody /\ Resolved[x] = Resolved[y] => x = y
BY ConstantsAssumption DEF TypeOK, HeadsDistinct, Resolved, Heads

LEMMA SameHeads ==
  ASSUME UNCHANGED conf
  PROVE  Resolved' = Resolved /\ Configured' = Configured
BY DEF Resolved, Configured

LEMMA CreatesHead ==
  ASSUME TypeOK, HeadsDistinct, NEW x \in Ids, x # Default, x \notin Configured, born \in Nat,
         conf' = [Resolved EXCEPT ![x] = born], born' = born + 1
  PROVE  /\ conf' \in [Ids -> Heads \cup {Nobody}]
         /\ conf'[Default] \in {0, Nobody}
         /\ HeadsDistinct'
         /\ Resolved' = conf'
<1>1. /\ Resolved \in [Ids -> Heads \cup {Nobody}]
      /\ Resolved[Default] \in {0, Nobody}
      /\ \A y \in Ids : Resolved[y] # Nobody => Resolved[y] < born /\ (Resolved[y] = 0 => y = Default)
      /\ \A y, z \in Ids : Resolved[y] # Nobody /\ Resolved[y] = Resolved[z] => y = z
  BY ResolvedDistinct
<1>2. conf' \in [Ids -> Heads \cup {Nobody}] /\ conf'[Default] \in {0, Nobody}
  BY <1>1, ConstantsAssumption DEF Heads
<1>3. HeadsDistinct'
  <2>1. born > 0 /\ born' > 0 /\ born < born'
    BY DEF HeadsDistinct
  <2>2. \A y \in Ids : conf'[y] = IF y = x THEN born ELSE Resolved[y]
    BY <1>1
  <2>3. \A y \in Ids : conf'[y] # Nobody => conf'[y] < born' /\ (conf'[y] = 0 => y = Default)
    BY <1>1, <2>1, <2>2, ConstantsAssumption DEF Heads
  <2>4. \A y, z \in Ids : conf'[y] # Nobody /\ conf'[y] = conf'[z] => y = z
    BY <1>1, <2>1, <2>2, ConstantsAssumption DEF Heads
  <2> QED
    BY <2>1, <2>3, <2>4 DEF HeadsDistinct
<1>4. conf'[x] # Nobody
  BY <1>1, ConstantsAssumption DEF Heads
<1> QED
  BY <1>2, <1>3, <1>4 DEF Resolved

\* Where a head has an id of its own, what is configured is what is in config.json.
LEMMA NamedHeadConfigured ==
  ASSUME TypeOK, NEW x \in Configured, x # Default
  PROVE  Resolved = conf
BY DEF Resolved, Configured, TypeOK

LEMMA DeletedHead ==
  ASSUME TypeOK, HeadsDistinct, NEW x \in Configured, x # Default,
         conf' = [conf EXCEPT ![x] = Nobody], UNCHANGED born
  PROVE  /\ conf' \in [Ids -> Heads \cup {Nobody}]
         /\ conf'[Default] \in {0, Nobody}
         /\ HeadsDistinct'
         /\ Resolved'[x] = Nobody
         /\ \A y \in Ids : y # x /\ Resolved[y] # Nobody => Resolved'[y] = Resolved[y]
         /\ Configured' \subseteq (Configured \ {x}) \cup {Default}
         /\ Configured \ {x} \subseteq Configured'
<1>1. Resolved = conf /\ x \in Ids
  BY NamedHeadConfigured DEF Configured
<1>2. conf' \in [Ids -> Heads \cup {Nobody}] /\ conf'[Default] \in {0, Nobody}
  BY <1>1, ConstantsAssumption DEF TypeOK
<1>3. HeadsDistinct'
  BY <1>1 DEF TypeOK, HeadsDistinct
<1>4. /\ Resolved'[x] = Nobody
      /\ \A y \in Ids : y # x /\ Resolved[y] # Nobody => Resolved'[y] = Resolved[y]
      /\ \A y \in Ids : Resolved'[y] # Nobody => y = Default \/ (y # x /\ Resolved[y] # Nobody)
  BY <1>1, <1>2, ConstantsAssumption DEF TypeOK, Resolved
<1> QED
  BY <1>1, <1>2, <1>3, <1>4 DEF Configured

LEMMA RenamedHead ==
  ASSUME TypeOK, HeadsDistinct, NEW x \in Configured, x # Default,
         NEW y \in Ids, y # Default, y \notin Configured,
         conf' = [conf EXCEPT ![x] = Nobody, ![y] = conf[x]], UNCHANGED born
  PROVE  /\ conf' \in [Ids -> Heads \cup {Nobody}]
         /\ conf'[Default] \in {0, Nobody}
         /\ HeadsDistinct'
         /\ Resolved' = [Resolved EXCEPT ![x] = Nobody, ![y] = Resolved[x]]
         /\ Configured' = (Configured \ {x}) \cup {y}
<1>1. Resolved = conf /\ x \in Ids /\ x # y /\ conf[x] # Nobody /\ conf[y] = Nobody
  BY NamedHeadConfigured DEF Configured
<1>2. conf' \in [Ids -> Heads \cup {Nobody}] /\ conf'[Default] \in {0, Nobody}
  BY <1>1, ConstantsAssumption DEF TypeOK
<1>3. \A z \in Ids : conf'[z] = IF z = x THEN Nobody ELSE IF z = y THEN conf[x] ELSE conf[z]
  BY <1>1 DEF TypeOK
<1>4. HeadsDistinct'
  <2>1. conf[x] # 0
    BY <1>1 DEF HeadsDistinct
  <2> QED
    BY <1>1, <1>3, <2>1 DEF TypeOK, HeadsDistinct
<1>5. Resolved' = conf'
  BY <1>1, <1>3 DEF Resolved
<1> QED
  BY <1>1, <1>2, <1>3, <1>4, <1>5 DEF Configured
-----------------------------------------------------------------------------
(* The process and the administrator, action by action *)

LEMMA EnqueueTypes ==
  ASSUME TypeOK, NEW x \in Ids, NEW h \in Heads \cup {Nobody}, Enqueue(x, h)
  PROVE  /\ sent' \in Nat /\ sent' = sent + 1 /\ sent' \in Sent
         /\ row' \in [Sent -> Row]
         /\ ownerOf' \in [Sent -> Heads \cup {Nobody}]
         /\ astray' \in SUBSET Sent /\ astray \subseteq astray'
         /\ stray' \in SUBSET Ids
<1>1. sent' \in Nat /\ sent' = sent + 1 /\ sent' \in Sent
  BY ConstantsAssumption DEF TypeOK, Enqueue, Sent
<1>2. [id |-> x, st |-> "pending"] \in Row
  BY DEF Row
<1> QED
  BY <1>1, <1>2 DEF TypeOK, Enqueue

\* Steps that leave the configuration, the request and the loops alone.
LEMMA ControlKept ==
  ASSUME Control, TypeOK',
         UNCHANGED <<conf, request, phase, todo, loop, working, archiving, born, fresh>>,
         sent <= sent', \A i \in Sent : takenBy[i] \subseteq takenBy'[i],
         AgentsKnown', SchedulesKnown', OnlyDeadReaped'
  PROVE  Control'
<1>1. Resolved' = Resolved /\ Configured' = Configured
  BY SameHeads
<1>2. HeadsDistinct' /\ RequestKnown'
  BY <1>1 DEF Control, HeadsDistinct, RequestKnown
<1>3. LoopsKnown'
  <2>1. ASSUME NEW x \in Ids, working[x] # 0
        PROVE  working[x] <= sent' /\ loop[x] \in takenBy'[working[x]]
    BY <2>1 DEF Control, LoopsKnown, TypeOK, Sent
  <2> QED
    BY <1>1, <2>1 DEF Control, LoopsKnown
<1> QED
  BY <1>2, <1>3 DEF Control

LEMMA EnqueueControl ==
  ASSUME Control, NEW x \in Ids, NEW h \in Heads \cup {Nobody}, Enqueue(x, h),
         UNCHANGED <<conf, request, proc, logged, keys, schedule, born, changes, crashes,
                     takenBy, madeFor, left, fresh>>,
         agent' \in [Agents -> Agent], liveReaped' \in BOOLEAN, AgentsKnown', OnlyDeadReaped'
  PROVE  Control'
<1>1. TypeOK'
  BY EnqueueTypes DEF Control, TypeOK, proc
<1>2. sent <= sent'
  BY EnqueueTypes DEF Control, TypeOK
<1>3. SchedulesKnown'
  BY DEF Control, SchedulesKnown
<1> QED
  BY <1>1, <1>2, <1>3, ControlKept DEF proc

LEMMA AsksTypes ==
  ASSUME TypeOK, Asks
  PROVE  changes' \in Nat /\ fresh' \in BOOLEAN /\ ~fresh' /\ request = Idle
         /\ phase \in {"ready", "serving"}
<1>1. changes' \in Nat
  BY DEF TypeOK, Asks
<1>2. request = Idle
  BY DEF Asks, Free
<1>3. phase \in {"ready", "serving"}
  BY DEF Asks
<1>4. fresh' = FALSE
  BY DEF Asks
<1> QED
  BY <1>1, <1>2, <1>3, <1>4

LEMMA CreatesControl ==
  ASSUME Control, NEW x \in Ids, Creates(x)
  PROVE  Control'
<1>0. /\ conf' \in [Ids -> Heads \cup {Nobody}] /\ conf'[Default] \in {0, Nobody}
      /\ HeadsDistinct'
  <2>1. TypeOK /\ HeadsDistinct /\ born \in Nat
    BY DEF Control, TypeOK
  <2>2. x # Default /\ x \notin Configured /\ conf' = [Resolved EXCEPT ![x] = born] /\ born' = born + 1
    BY DEF Creates
  <2> QED
    BY <2>1, <2>2, CreatesHead
<1>1. TypeOK'
  <2>1. changes' \in Nat /\ fresh' \in BOOLEAN /\ born' \in Nat
    BY AsksTypes DEF Control, TypeOK, Creates
  <2> QED
    BY <1>0, <2>1 DEF Control, TypeOK, Creates, proc, store, rowHist
<1>2. RequestKnown'
  BY DEF Control, RequestKnown, Creates, Asks, Free, Idle
<1>3. LoopsKnown'
  BY DEF Control, LoopsKnown, Creates, Asks, proc, rowHist
<1> QED
  BY <1>0, <1>1, <1>2, <1>3
  DEF Control, AgentsKnown, SchedulesKnown, OnlyDeadReaped, Creates, Asks, proc

LEMMA DeletesControl ==
  ASSUME Control, NEW x \in Ids, Deletes(x)
  PROVE  Control'
<1>1. Resolved' = Resolved /\ Configured' = Configured
  BY SameHeads DEF Deletes
<1>2. TypeOK'
  <2>1. Nowhere \in Row
    BY ConstantsAssumption DEF Nowhere, Row
  <2>2. row' \in [Sent -> Row] /\ logged' \in [Sent -> SUBSET Ids] /\ keys' \in [Ids -> SUBSET Keys]
    BY <2>1 DEF Control, TypeOK, Deletes, Wiped
  <2>3. request' \in Request
    BY DEF Deletes, Request
  <2>4. changes' \in Nat /\ fresh' \in BOOLEAN
    BY AsksTypes DEF Control, Deletes
  <2> QED
    BY <2>2, <2>3, <2>4 DEF Control, TypeOK, Deletes, proc, rowHist
<1>3. RequestKnown'
  BY <1>1 DEF Control, RequestKnown, Deletes, Asks, proc
<1>4. LoopsKnown'
  BY <1>1 DEF Control, LoopsKnown, Deletes, Asks, proc, rowHist
<1> QED
  BY <1>2, <1>3, <1>4
  DEF Control, HeadsDistinct, AgentsKnown, SchedulesKnown, OnlyDeadReaped, Deletes, Asks, proc

LEMMA DeletesScheduleControl ==
  ASSUME Control, NEW s \in Schedules, DeletesSchedule(s)
  PROVE  Control'
<1>1. TypeOK'
  BY DEF Control, TypeOK, DeletesSchedule, proc, store, counts, rowHist
<1>2. SchedulesKnown'
  BY DEF Control, TypeOK, SchedulesKnown, DeletesSchedule
<1> QED
  BY <1>1, <1>2, ControlKept
  DEF Control, TypeOK, AgentsKnown, OnlyDeadReaped, DeletesSchedule, proc, counts, rowHist

LEMMA DeletedControl ==
  ASSUME Control, Deleted
  PROVE  Control'
<1>1. request.from \in Configured /\ request.from # Default /\ phase \in {"ready", "serving"} /\ ~fresh
  BY DEF Control, RequestKnown, Deleted
<1>2. TypeOK' /\ HeadsDistinct'
  BY <1>1, DeletedHead, ConstantsAssumption
  DEF Control, TypeOK, Deleted, proc, store, counts, Idle, Request
<1>3. RequestKnown'
  BY DEF RequestKnown, Deleted, Idle
<1>4. LoopsKnown'
  BY <1>1 DEF Control, LoopsKnown, Deleted, proc, counts
<1> QED
  BY <1>2, <1>3, <1>4 DEF Control, AgentsKnown, SchedulesKnown, OnlyDeadReaped, Deleted, proc

LEMMA RenamesControl ==
  ASSUME Control, NEW x \in Ids, NEW y \in Ids, Renames(x, y)
  PROVE  Control'
<1>1. Resolved' = Resolved /\ Configured' = Configured
  BY SameHeads DEF Renames
<1>2. TypeOK'
  <2>1. row' \in [Sent -> Row]
    BY DEF Control, TypeOK, Renames, Moved, Row
  <2>2. logged' \in [Sent -> SUBSET Ids]
    BY DEF Control, TypeOK, Renames, Moved
  <2>3. keys' \in [Ids -> SUBSET Keys]
    BY DEF Control, TypeOK, Renames, Moved
  <2>4. request' \in Request
    BY DEF Renames, Request
  <2>5. astray' \in SUBSET Sent
    BY DEF Control, TypeOK, Renames
  <2>6. changes' \in Nat /\ fresh' \in BOOLEAN
    BY AsksTypes DEF Control, Renames
  <2> QED
    BY <2>1, <2>2, <2>3, <2>4, <2>5, <2>6 DEF Control, TypeOK, Renames, proc
<1>3. RequestKnown'
  BY <1>1 DEF Control, RequestKnown, Renames, Asks, proc
<1>4. LoopsKnown'
  BY <1>1 DEF Control, LoopsKnown, Renames, Asks, proc
<1> QED
  BY <1>2, <1>3, <1>4
  DEF Control, HeadsDistinct, AgentsKnown, SchedulesKnown, OnlyDeadReaped, Renames, Asks, proc

LEMMA RenamedControl ==
  ASSUME Control, Renamed
  PROVE  Control'
<1>1. /\ request.from \in Configured /\ request.from # Default
      /\ request.to \in Ids /\ request.to \notin Configured /\ request.to # Default
      /\ phase \in {"ready", "serving"} /\ ~fresh
  BY DEF Control, RequestKnown, Renamed, TypeOK, Request
<1>2. TypeOK' /\ HeadsDistinct'
  BY <1>1, RenamedHead, ConstantsAssumption
  DEF Control, TypeOK, Renamed, proc, store, counts, rowHist, Idle, Request
<1>3. RequestKnown'
  BY DEF RequestKnown, Renamed, Idle
<1>4. LoopsKnown'
  BY <1>1 DEF Control, LoopsKnown, Renamed, proc, counts, rowHist
<1> QED
  BY <1>2, <1>3, <1>4 DEF Control, AgentsKnown, SchedulesKnown, OnlyDeadReaped, Renamed, proc

LEMMA BootsControl ==
  ASSUME Control, Boots
  PROVE  Control'
<1>1. Resolved' = Resolved /\ Configured' = Configured
  BY SameHeads DEF Boots
<1>2. TypeOK'
  BY DEF Control, TypeOK, Boots, Phases, Configured, store, counts, rowHist
<1>3. RequestKnown'
  BY <1>1 DEF Control, RequestKnown, Boots
<1>4. LoopsKnown'
  <2>1. \A x \in Ids : loop'[x] = Nobody /\ working[x] = 0 /\ archiving[x] = 0
    BY DEF Control, LoopsKnown, Boots
  <2>2. \A x \in Ids : x \in todo' \/ loop'[x] = Resolved'[x]
    BY <1>1, <2>1 DEF Boots, Configured
  <2> QED
    BY <1>1, <2>1, <2>2 DEF LoopsKnown, Boots
<1> QED
  BY <1>2, <1>3, <1>4
  DEF Control, HeadsDistinct, AgentsKnown, SchedulesKnown, OnlyDeadReaped, Boots, counts

LEMMA SetsUpControl ==
  ASSUME Control, NEW x \in Ids, SetsUp(x)
  PROVE  Control'
<1>1. Resolved' = Resolved /\ Configured' = Configured
  BY SameHeads DEF SetsUp
<1>2. Resolved[x] \in Heads \cup {Nobody}
  BY ResolvedDistinct DEF Control
<1>3. TypeOK'
  <2>1. row' \in [Sent -> Row]
    BY DEF Control, TypeOK, SetsUp, Requeued, Row
  <2>2. keys' \in [Ids -> SUBSET Keys]
    BY DEF Control, TypeOK, SetsUp, Unlocked, Keys
  <2> QED
    BY <1>2, <2>1, <2>2 DEF Control, TypeOK, SetsUp, counts, rowHist, adminHist
<1>4. RequestKnown'
  BY <1>1 DEF Control, RequestKnown, SetsUp, adminHist
<1>5. LoopsKnown'
  <2>1. \A y \in Ids : working[y] = 0 /\ archiving[y] = 0
    BY DEF Control, LoopsKnown, SetsUp
  <2>2. \A y \in Ids : y \in todo' \/ loop'[y] = Resolved[y]
    BY DEF Control, TypeOK, LoopsKnown, SetsUp
  <2> QED
    BY <1>1, <2>1, <2>2 DEF Control, LoopsKnown, SetsUp, adminHist
<1> QED
  BY <1>3, <1>4, <1>5
  DEF Control, HeadsDistinct, AgentsKnown, SchedulesKnown, OnlyDeadReaped, SetsUp, counts, adminHist

LEMMA ReapsControl ==
  ASSUME Control, NEW x \in Ids, NEW k \in Agents, Reaps(x, k)
  PROVE  Control'
<1>1. /\ agent[k].head \in Heads
      /\ agent' \in [Agents -> Agent]
      /\ AgentsKnown'
  <2>1. agent' = [agent EXCEPT ![k].st = "ended", ![k].live = FALSE] /\ phase' = phase
    BY DEF Reaps, proc
  <2>2. agent \in [Agents -> Agent] /\ AgentsKnown
    BY DEF Control, TypeOK
  <2>3. agent' \in [Agents -> Agent] /\ agent[k].head \in Heads
    BY <2>1, <2>2 DEF Agent
  <2>4. \A j \in Agents : agent'[j].live => agent[j].live
    BY <2>1, <2>2 DEF Agent
  <2> QED
    BY <2>1, <2>2, <2>3, <2>4 DEF AgentsKnown
<1>2. ~agent[k].live
  BY DEF Control, AgentsKnown, Reaps, Reaping
<1>3. liveReaped' \in BOOLEAN /\ OnlyDeadReaped'
  BY <1>2 DEF Control, OnlyDeadReaped, Reaps
<1>4. CASE Enqueue(x, agent[k].head) /\ UNCHANGED <<logged, keys, takenBy>>
  BY <1>1, <1>3, <1>4, EnqueueControl DEF Reaps
<1>5. CASE UNCHANGED <<store, sent, rowHist>>
  <2>1. TypeOK'
    BY <1>1, <1>3, <1>5 DEF Control, TypeOK, Reaps, proc, store, rowHist
  <2>2. sent \in Nat
    BY DEF Control, TypeOK
  <2> QED
    BY <1>1, <1>3, <1>5, <2>1, <2>2, ControlKept
    DEF Control, SchedulesKnown, Reaps, proc, rowHist
<1> QED
  BY <1>4, <1>5 DEF Reaps

LEMMA OpensControl ==
  ASSUME Control, Opens \/ StartsLoops
  PROVE  Control'
<1>1. Resolved' = Resolved /\ Configured' = Configured
  BY SameHeads DEF Opens, StartsLoops
<1>2. TypeOK'
  BY DEF Control, TypeOK, Opens, StartsLoops, Phases, store, counts, rowHist, adminHist
<1>3. RequestKnown'
  BY <1>1 DEF Control, RequestKnown, Opens, StartsLoops, adminHist
<1>4. LoopsKnown'
  BY <1>1 DEF Control, LoopsKnown, Opens, StartsLoops, counts, rowHist, adminHist
<1> QED
  BY <1>2, <1>3, <1>4
  DEF Control, HeadsDistinct, AgentsKnown, SchedulesKnown, OnlyDeadReaped, Opens, StartsLoops,
      counts, adminHist

LEMMA DiesControl ==
  ASSUME Control, Dies
  PROVE  Control'
<1>1. Resolved' = Resolved /\ Configured' = Configured
  BY SameHeads DEF Dies
<1>2. TypeOK'
  <2>1. agent' \in [Agents -> Agent]
    BY DEF Control, TypeOK, Dies, Agent
  <2>2. request' \in Request
    BY ConstantsAssumption DEF Dies, Idle, Request
  <2>3. stray' \in SUBSET Ids /\ astray' \in SUBSET Sent
    BY DEF Control, TypeOK, Dies, Request
  <2>4. crashes' \in Nat
    BY DEF Control, TypeOK, Dies
  <2>5. phase' \in Phases /\ todo' \in SUBSET Ids
    BY DEF Dies, Phases
  <2> QED
    BY <2>1, <2>2, <2>3, <2>4, <2>5 DEF Control, TypeOK, Dies, store, adminHist
<1>3. RequestKnown'
  BY DEF RequestKnown, Dies, Idle
<1>4. LoopsKnown'
  BY DEF LoopsKnown, Dies
<1>5. AgentsKnown'
  BY DEF Control, TypeOK, Agent, AgentsKnown, Dies
<1> QED
  BY <1>2, <1>3, <1>4, <1>5
  DEF Control, HeadsDistinct, SchedulesKnown, OnlyDeadReaped, Dies, adminHist

LEMMA SendsControl ==
  ASSUME Control, NEW x \in Ids, Sends(x)
  PROVE  Control'
<1>1. loop[x] \in Heads \cup {Nobody}
  BY DEF Control, TypeOK
<1>2. agent' \in [Agents -> Agent] /\ AgentsKnown' /\ liveReaped' \in BOOLEAN /\ OnlyDeadReaped'
  BY DEF Control, TypeOK, AgentsKnown, OnlyDeadReaped, Sends, proc, adminHist
<1> QED
  BY <1>1, <1>2, EnqueueControl DEF Sends, adminHist

LEMMA ReportsControl ==
  ASSUME Control, NEW k \in Agents, Reports(k)
  PROVE  Control'
<1>1. agent[k].head \in Heads /\ agent[k].id \in Ids
  BY DEF Control, TypeOK, Agent
<1>2. agent' \in [Agents -> Agent] /\ AgentsKnown'
  BY DEF Control, TypeOK, Agent, AgentsKnown, Reports, proc
<1>3. liveReaped' \in BOOLEAN /\ OnlyDeadReaped'
  BY DEF Control, TypeOK, OnlyDeadReaped, Reports, adminHist
<1> QED
  BY <1>1, <1>2, <1>3, EnqueueControl DEF Reports, adminHist

LEMMA TicksControl ==
  ASSUME Control, NEW s \in Schedules, Ticks(s)
  PROVE  Control'
<1>1. schedule[s] \in Ids /\ madeFor[s] \in Heads \cup {Nobody}
  BY DEF Control, TypeOK, Ticks
<1>2. agent' \in [Agents -> Agent] /\ AgentsKnown' /\ liveReaped' \in BOOLEAN /\ OnlyDeadReaped'
  BY DEF Control, TypeOK, AgentsKnown, OnlyDeadReaped, Ticks, proc, adminHist
<1> QED
  BY <1>1, <1>2, EnqueueControl DEF Ticks, adminHist

LEMMA LogsTypes ==
  ASSUME TypeOK, NEW x \in Ids, NEW i \in Sent, Logs(x, i)
  PROVE  /\ logged' \in [Sent -> SUBSET Ids]
         /\ astray' \in SUBSET Sent /\ astray \subseteq astray'
         /\ stray' \in SUBSET Ids /\ stray \subseteq stray'
BY DEF TypeOK, Logs

LEMMA TakesControl ==
  ASSUME Control, RowsInOrder, NEW x \in Ids, NEW i \in Sent, Takes(x, i)
  PROVE  Control'
<1>1. Resolved' = Resolved /\ Configured' = Configured
  BY SameHeads DEF Takes
<1>2. loop[x] \in Heads
  BY DEF Control, TypeOK, Takes
<1>3. TypeOK'
  <2>1. row' \in [Sent -> Row]
    BY DEF Control, TypeOK, Takes, Row
  <2>2. keys' \in [Ids -> SUBSET Keys]
    BY DEF Control, TypeOK, Takes, Keys
  <2>3. takenBy' \in [Sent -> SUBSET Heads] /\ working' \in [Ids -> Sent \cup {0}]
    BY <1>2 DEF Control, TypeOK, Takes
  <2>4. /\ logged' \in [Sent -> SUBSET Ids]
        /\ astray' \in SUBSET Sent
        /\ stray' \in SUBSET Ids
    BY LogsTypes DEF Control, Takes
  <2> QED
    BY <2>1, <2>2, <2>3, <2>4 DEF Control, TypeOK, Takes, counts, adminHist
<1>4. RequestKnown'
  BY <1>1 DEF Control, RequestKnown, Takes, adminHist
<1>5. LoopsKnown'
  <2>1. i <= sent
    BY DEF Control, TypeOK, RowsInOrder, Takes, Sent
  <2>2. \A y \in Ids : working'[y] # 0 =>
          phase = "serving" /\ working'[y] <= sent /\ loop[y] \in takenBy'[working'[y]]
    <3> SUFFICES ASSUME NEW y \in Ids, working'[y] # 0
                 PROVE  phase = "serving" /\ working'[y] <= sent /\ loop[y] \in takenBy'[working'[y]]
      OBVIOUS
    <3>1. CASE y = x
      BY <2>1, <3>1 DEF Control, TypeOK, Takes, LoopsRun
    <3>2. CASE y # x
      BY <3>2 DEF Control, TypeOK, LoopsKnown, Takes
    <3> QED
      BY <3>1, <3>2
  <2> QED
    BY <1>1, <2>2 DEF Control, LoopsKnown, Takes, counts, adminHist
<1> QED
  BY <1>3, <1>4, <1>5
  DEF Control, HeadsDistinct, AgentsKnown, SchedulesKnown, OnlyDeadReaped, Takes, counts, adminHist

\* An archival may begin when an activation is over, and ends when it likes: only the
\* lock of the loop's own id is touched.
LEMMA ArchivingKnown ==
  ASSUME Control, NEW x \in Ids, Finishes(x) \/ ArchivalEnds(x)
  PROVE  /\ phase = "serving" /\ loop[x] \in Heads /\ loop[x] # Nobody
         /\ archiving' \in [Ids -> Nat] /\ keys' \in [Ids -> SUBSET Keys]
         /\ \A y \in Ids \ {x} : archiving'[y] = archiving[y] /\ keys'[y] = keys[y]
<1>1. phase = "serving" /\ loop[x] \in Heads /\ loop[x] # Nobody
  <2>1. phase = "serving" /\ loop[x] \in Heads \cup {Nobody}
    BY DEF Control, TypeOK, LoopsKnown, Finishes, LoopsRun, ArchivalEnds
  <2>2. working[x] # 0 => loop[x] \in Heads
    BY DEF Control, TypeOK, LoopsKnown
  <2> QED
    BY <2>1, <2>2, ConstantsAssumption DEF Control, LoopsKnown, Finishes, ArchivalEnds, Heads
<1>2. archiving \in [Ids -> Nat] /\ keys \in [Ids -> SUBSET Keys]
  BY DEF Control, TypeOK
<1>3. /\ \/ archiving' = [archiving EXCEPT ![x] = archiving[x] + 1]
         \/ archiving' = [archiving EXCEPT ![x] = archiving[x] - 1] /\ archiving[x] # 0
         \/ archiving' = archiving
      /\ \/ keys' = [keys EXCEPT ![x] = Locked(@)]
         \/ keys' = [keys EXCEPT ![x] = Unlocked(@)]
         \/ keys' = keys
  BY DEF Finishes, Archives, ArchivalEnds
<1>4. archiving[x] + 1 \in Nat /\ (archiving[x] # 0 => archiving[x] - 1 \in Nat)
  BY <1>2
<1>5. archiving' \in [Ids -> Nat] /\ \A y \in Ids \ {x} : archiving'[y] = archiving[y]
  BY <1>2, <1>3, <1>4
<1>6. keys' \in [Ids -> SUBSET Keys] /\ \A y \in Ids \ {x} : keys'[y] = keys[y]
  BY <1>2, <1>3 DEF Locked, Unlocked, Keys
<1> QED
  BY <1>1, <1>5, <1>6

LEMMA FinishesControl ==
  ASSUME Control, NEW x \in Ids, Finishes(x)
  PROVE  Control'
<1>1. Resolved' = Resolved /\ Configured' = Configured
  BY SameHeads DEF Finishes
<1>2. working[x] \in Sent /\ Logs(x, working[x])
  BY DEF Control, TypeOK, Finishes
<1>3. TypeOK'
  <2>1. row' \in [Sent -> Row]
    BY <1>2 DEF Control, TypeOK, Finishes, Row
  <2>2. working' \in [Ids -> Sent \cup {0}]
    BY DEF Control, TypeOK, Finishes
  <2>3. /\ logged' \in [Sent -> SUBSET Ids]
        /\ astray' \in SUBSET Sent
        /\ stray' \in SUBSET Ids
    BY <1>2, LogsTypes DEF Control
  <2> QED
    BY <2>1, <2>2, <2>3, ArchivingKnown DEF Control, TypeOK, Finishes, counts, adminHist
<1>4. RequestKnown'
  BY <1>1 DEF Control, RequestKnown, Finishes, adminHist
<1>5. LoopsKnown'
  <2>1. \A y \in Ids : working'[y] # 0 => working'[y] = working[y]
    BY DEF Control, TypeOK, Finishes
  <2> QED
    BY <1>1, <2>1, ArchivingKnown DEF Control, LoopsKnown, Finishes, counts, adminHist
<1> QED
  BY <1>3, <1>4, <1>5
  DEF Control, HeadsDistinct, AgentsKnown, SchedulesKnown, OnlyDeadReaped, Finishes, counts, adminHist

LEMMA ArchivalEndsControl ==
  ASSUME Control, NEW x \in Ids, ArchivalEnds(x)
  PROVE  Control'
<1>1. Resolved' = Resolved /\ Configured' = Configured
  BY SameHeads DEF ArchivalEnds
<1>2. TypeOK'
  <2>1. stray' \in SUBSET Ids
    BY DEF Control, TypeOK, ArchivalEnds, Soils
  <2> QED
    BY <2>1, ArchivingKnown DEF Control, TypeOK, ArchivalEnds, counts, adminHist
<1>3. RequestKnown'
  BY <1>1 DEF Control, RequestKnown, ArchivalEnds, adminHist
<1>4. LoopsKnown'
  BY <1>1, ArchivingKnown DEF Control, LoopsKnown, ArchivalEnds, counts, adminHist
<1> QED
  BY <1>2, <1>3, <1>4
  DEF Control, HeadsDistinct, AgentsKnown, SchedulesKnown, OnlyDeadReaped, ArchivalEnds,
      counts, adminHist

LEMMA SpawnsControl ==
  ASSUME Control, NEW x \in Ids, NEW k \in Agents, Spawns(x, k)
  PROVE  Control'
<1>1. loop[x] \in Heads
  BY DEF Control, TypeOK, LoopsKnown, Spawns
<1>2. agent' \in [Agents -> Agent] /\ AgentsKnown'
  BY <1>1 DEF Control, TypeOK, Agent, AgentsKnown, Spawns, LoopsRun, proc
<1>3. TypeOK'
  BY <1>2 DEF Control, TypeOK, Spawns, proc, store, counts, rowHist, adminHist
<1>4. sent \in Nat
  BY DEF Control, TypeOK
<1> QED
  BY <1>2, <1>3, <1>4, ControlKept
  DEF Control, SchedulesKnown, OnlyDeadReaped, Spawns, proc, counts, rowHist, adminHist

LEMMA AddsControl ==
  ASSUME Control, NEW s \in Schedules, NEW x \in Ids, NEW h \in Heads, Adds(s, x, h),
         stray' \in SUBSET Ids
  PROVE  Control'
<1>1. schedule' \in [Schedules -> Ids \cup {Nobody}] /\ madeFor' \in [Schedules -> Heads \cup {Nobody}]
  BY DEF Control, TypeOK, Adds
<1>2. TypeOK'
  BY <1>1 DEF Control, TypeOK, Adds, proc, store, counts
<1>3. h # Nobody /\ sent \in Nat
  BY ConstantsAssumption DEF Control, TypeOK, Heads
<1>4. SchedulesKnown'
  BY <1>3 DEF Control, TypeOK, SchedulesKnown, Adds
<1> QED
  BY <1>2, <1>3, <1>4, ControlKept DEF Control, AgentsKnown, OnlyDeadReaped, Adds, proc, counts

\* A schedule is made for the head that asks for it.
LEMMA CreatesScheduleAdds ==
  ASSUME Control, NEW s \in Schedules, NEW x \in Ids, CreatesSchedule(s, x)
  PROVE  /\ stray' \in SUBSET Ids /\ stray \subseteq stray'
         /\ x \in Configured \/ x \in stray'
         /\ \E h \in Heads : Adds(s, x, h)
<1>1. CASE /\ LoopsRun /\ working[x] # 0
           /\ Adds(s, x, loop[x])
           /\ Soils(x)
  <2>1. loop[x] \in Heads
    BY <1>1 DEF Control, TypeOK, LoopsKnown
  <2>2. loop[x] # Nobody
    BY <2>1, ConstantsAssumption DEF Heads
  <2> QED
    BY <1>1, <2>1, <2>2 DEF Control, TypeOK, Configured, Soils
<1>2. CASE /\ Free /\ phase \in {"ready", "serving"} /\ x \in Configured
           /\ Adds(s, x, Resolved[x])
           /\ UNCHANGED stray
  <2>1. Resolved[x] \in Heads
    BY <1>2, ResolvedDistinct DEF Control, Configured
  <2> QED
    BY <1>2, <2>1 DEF Control, TypeOK
<1> QED
  BY <1>1, <1>2 DEF CreatesSchedule

LEMMA ControlStep ==
  ASSUME Control, RowsInOrder, [Next]_vars
  PROVE  Control'
<1>1. CASE AdminStep
  BY <1>1, CreatesControl, DeletesControl, RenamesControl, DeletesScheduleControl,
     DeletedControl, RenamedControl DEF AdminStep
<1>2. CASE StartStep
  BY <1>2, BootsControl, OpensControl, DiesControl, SetsUpControl, ReapsControl DEF StartStep
<1>3. ASSUME NEW x \in Ids, HeadStep(x)
      PROVE  Control'
  <2>1. CASE \E s \in Schedules : CreatesSchedule(s, x)
    <3>1. PICK s \in Schedules : CreatesSchedule(s, x)
      BY <2>1
    <3>2. stray' \in SUBSET Ids /\ \E h \in Heads : Adds(s, x, h)
      BY <3>1, CreatesScheduleAdds
    <3> QED
      BY <3>2, AddsControl
  <2> QED
    BY <1>3, <2>1, SendsControl, TakesControl, FinishesControl, SpawnsControl,
       ArchivalEndsControl
    DEF HeadStep
<1>4. ASSUME NEW k \in Agents, Reports(k)
      PROVE  Control'
  BY <1>4, ReportsControl
<1>5. ASSUME NEW s \in Schedules, Ticks(s)
      PROVE  Control'
  BY <1>5, TicksControl
<1>6. CASE UNCHANGED vars
  <2>1. UNCHANGED <<conf, request, phase, todo, loop, working, archiving, born, fresh, sent,
                    takenBy>>
    BY <1>6 DEF vars, proc, counts, rowHist, adminHist
  <2>2. TypeOK'
    BY <1>6 DEF Control, TypeOK, vars, proc, store, counts, rowHist, adminHist
  <2>3. AgentsKnown' /\ SchedulesKnown' /\ OnlyDeadReaped'
    BY <1>6
    DEF Control, AgentsKnown, SchedulesKnown, OnlyDeadReaped, vars, proc, adminHist
  <2>4. sent <= sent'
    BY <2>1 DEF Control, TypeOK
  <2> QED
    BY <2>1, <2>2, <2>3, <2>4, ControlKept
<1> QED
  BY <1>1, <1>2, <1>3, <1>4, <1>5, <1>6 DEF Next, Rests
-----------------------------------------------------------------------------
(* The data, action by action *)

\* What is stored belongs to a head.
LEMMA StoredHasOwner ==
  ASSUME Control, RowsInOrder, NEW i \in Sent, NEW x \in Where(i)
  PROVE  x \in Ids /\ i <= sent /\ ownerOf[i] # Nobody
<1>1. i \in Nat /\ sent \in Nat /\ row[i] \in Row /\ logged[i] \subseteq Ids
  <2>1. sent \in Nat /\ row \in [Sent -> Row] /\ logged \in [Sent -> SUBSET Ids]
    BY DEF Control, TypeOK
  <2> QED
    BY <2>1 DEF Sent
<1>2. x \in Ids
  BY <1>1 DEF Where, Row
<1>3. ~(i > sent)
  BY DEF RowsInOrder, Where
<1> QED
  BY <1>1, <1>2, <1>3 DEF RowsInOrder

\* Steps that store nothing.
LEMMA QuietStorage ==
  ASSUME Control, Storage,
         UNCHANGED <<conf, request, loop, working, row, logged, keys, sent, ownerOf, takenBy,
                     astray, stray, schedule, left>>,
         fresh' /\ phase' # "down" => (fresh /\ phase # "down") \/ \A x \in Ids : loop[x] = Nobody
  PROVE  Storage'
<1>1. Resolved' = Resolved /\ Configured' = Configured
  BY SameHeads
<1>2. \A i \in Sent : Where(i)' = Where(i)
  BY DEF Where
<1>3. \A x \in Ids : Answers(x)' = Answers(x)
  BY <1>1 DEF Answers
<1>4. DataWithHead'
  BY <1>2, <1>3, StoredHasOwner DEF Storage, DataWithHead
<1>5. CleanIds'
  BY <1>1, <1>2 DEF Storage, CleanIds
<1>6. InHand'
  <2>1. \A i \in Sent : row[i].id \in Ids
    BY DEF Control, TypeOK, Row
  <2> QED
    BY <2>1 DEF Storage, InHand
<1>7. RowsInOrder' /\ LoopsOwn' /\ NoCrossTalk'
  BY DEF Storage, RowsInOrder, LoopsOwn, NoCrossTalk
<1>8. OriginEmpty'
  BY <1>2 DEF Storage, OriginEmpty
<1> QED
  BY <1>4, <1>5, <1>6, <1>7, <1>8 DEF Storage

\* Whatever is enqueued goes where its head answers, or is marked.
LEMMA EnqueueStorage ==
  ASSUME Control, Storage, NEW x \in Ids, NEW h \in Heads, Enqueue(x, h), request = Idle,
         UNCHANGED <<conf, request, phase, loop, working, logged, keys, takenBy, schedule, left, fresh>>
  PROVE  Storage'
<1>1. Resolved' = Resolved /\ Configured' = Configured
  BY SameHeads
<1>2. h # Nobody
  BY ConstantsAssumption DEF Heads
<1>a. PICK i \in Sent : i = sent + 1
  BY EnqueueTypes DEF Control
<1>3. /\ sent' = i /\ i = sent + 1 /\ sent \in Nat
      /\ row' = [row EXCEPT ![i] = [id |-> x, st |-> "pending"]]
      /\ ownerOf' = [ownerOf EXCEPT ![i] = h]
      /\ astray \subseteq astray' /\ (i \notin astray' => ~NotAlone(x, h))
      /\ stray' = IF Resolved[x] # h THEN stray \cup {x} ELSE stray
  BY <1>a, EnqueueTypes DEF Control, TypeOK, Enqueue
<1>4. row \in [Sent -> Row] /\ ownerOf \in [Sent -> Heads \cup {Nobody}]
  BY DEF Control, TypeOK
<1>5. /\ row'[i] = [id |-> x, st |-> "pending"] /\ ownerOf'[i] = h
      /\ \A j \in Sent \ {i} : row'[j] = row[j] /\ ownerOf'[j] = ownerOf[j]
  BY <1>3, <1>4
<1>6. logged[i] = {}
  BY <1>3 DEF Storage, RowsInOrder
<1>7. Where(i)' = {x} /\ \A j \in Sent \ {i} : Where(j)' = Where(j)
  BY <1>5, <1>6 DEF Where
<1>8. \A z \in Ids : Answers(z)' = Answers(z) /\ Answers(z) = Resolved[z]
  BY <1>1 DEF Answers, Idle
<1>9. RowsInOrder'
  <2>1. ASSUME NEW j \in Sent
        PROVE  /\ j > sent' => row'[j].st = "none" /\ logged'[j] = {} /\ takenBy[j] = {}
               /\ j <= sent' => ownerOf'[j] # Nobody
    <3>1. CASE j = i
      BY <1>2, <1>3, <1>5, <3>1
    <3>2. CASE j # i
      <4>1. (j > sent' => j > sent) /\ (j <= sent' => j <= sent)
        BY <1>3, <3>2 DEF Sent
      <4> QED
        BY <1>5, <3>2, <4>1 DEF Storage, RowsInOrder
    <3> QED
      BY <3>1, <3>2
  <2> QED
    BY <2>1 DEF RowsInOrder
<1>10. DataWithHead'
  <2>1. ASSUME NEW j \in Sent \ astray', NEW z \in Where(j)'
        PROVE  Answers(z)' = ownerOf'[j]
    <3>1. CASE j = i
      BY <1>3, <1>5, <1>7, <1>8, <2>1, <3>1 DEF NotAlone
    <3>2. CASE j # i
      <4>1. j \in Sent \ astray /\ z \in Where(j) /\ ownerOf'[j] = ownerOf[j]
        BY <1>3, <1>5, <1>7, <2>1, <3>2
      <4>2. z \in Ids
        BY <4>1, StoredHasOwner DEF Storage
      <4> QED
        BY <1>8, <4>1, <4>2 DEF Storage, DataWithHead
    <3> QED
      BY <3>1, <3>2
  <2> QED
    BY <2>1 DEF DataWithHead
<1>11. LoopsOwn'
  <2>1. ASSUME NEW j \in Sent \ astray', row'[j].st # "none"
        PROVE  loop[row'[j].id] \in {ownerOf'[j], Nobody}
    <3>1. CASE j = i
      BY <1>3, <1>5, <2>1, <3>1 DEF NotAlone
    <3>2. CASE j # i
      BY <1>3, <1>5, <2>1, <3>2 DEF Storage, LoopsOwn
    <3> QED
      BY <3>1, <3>2
  <2> QED
    BY <2>1 DEF LoopsOwn
<1>12. NoCrossTalk'
  <2>1. ASSUME NEW j \in Sent \ astray'
        PROVE  takenBy[j] \subseteq {ownerOf'[j]}
    <3>1. CASE j = i
      BY <1>3, <3>1 DEF Storage, RowsInOrder
    <3>2. CASE j # i
      BY <1>3, <1>5, <2>1, <3>2 DEF Storage, NoCrossTalk
    <3> QED
      BY <3>1, <3>2
  <2> QED
    BY <2>1 DEF NoCrossTalk
<1>13. OriginEmpty'
  BY DEF OriginEmpty, Idle
<1>14. CleanIds'
  <2>1. ASSUME NEW z \in Ids \ Configured, z \notin stray'
        PROVE  z # x /\ z \notin stray
    BY <1>2, <1>3, <2>1 DEF Configured
  <2>2. ASSUME NEW z \in Ids \ Configured, z \notin stray'
        PROVE  \A j \in Sent : z \notin Where(j)'
    BY <1>7, <2>1, <2>2 DEF Storage, CleanIds, Idle
  <2> QED
    BY <1>1, <2>1, <2>2 DEF Storage, CleanIds, Idle
<1>15. InHand'
  BY <1>3, <1>5 DEF Storage, InHand
<1> QED
  BY <1>9, <1>10, <1>11, <1>12, <1>13, <1>14, <1>15 DEF Storage

LEMMA CreatesStorage ==
  ASSUME Control, Storage, NEW x \in Ids, Creates(x)
  PROVE  Storage'
<1>1. /\ request = Idle /\ request' = Idle /\ ~fresh'
      /\ UNCHANGED <<loop, row, logged, keys, schedule, sent, ownerOf, takenBy, astray, stray, left>>
  BY AsksTypes DEF Control, Creates, proc, store, rowHist
<1>2. /\ Resolved' = [Resolved EXCEPT ![x] = born]
      /\ Resolved \in [Ids -> Heads \cup {Nobody}]
      /\ Resolved[x] = Nobody
  <2>1. TypeOK /\ HeadsDistinct /\ born \in Nat
    BY DEF Control, TypeOK
  <2> QED
    BY <2>1, CreatesHead, ResolvedDistinct DEF Creates, Configured
<1>3. \A i \in Sent : Where(i)' = Where(i)
  BY <1>1 DEF Where
<1>4. DataWithHead'
  <2>1. ASSUME NEW i \in Sent \ astray, NEW z \in Where(i)
        PROVE  Answers(z)' = ownerOf[i]
    <3>1. z \in Ids /\ ownerOf[i] # Nobody /\ Resolved[z] = ownerOf[i]
      BY <1>1, StoredHasOwner DEF Storage, DataWithHead, Answers, Idle
    <3>2. z # x
      BY <1>2, <3>1
    <3> QED
      BY <1>1, <1>2, <3>1, <3>2 DEF Answers, Idle
  <2> QED
    BY <1>1, <1>3, <2>1 DEF DataWithHead
<1>5. CleanIds'
  <2>1. \A z \in Ids \ Configured' : z \in Ids \ Configured
    BY <1>2, ConstantsAssumption DEF Configured, Control, TypeOK
  <2> QED
    BY <1>1, <1>3, <2>1 DEF Storage, CleanIds, Idle
<1>6. RowsInOrder' /\ LoopsOwn' /\ NoCrossTalk'
  BY <1>1 DEF Storage, RowsInOrder, LoopsOwn, NoCrossTalk
<1> QED
  BY <1>1, <1>4, <1>5, <1>6 DEF Storage, OriginEmpty, InHand, Idle

LEMMA DeletesStorage ==
  ASSUME Control, Storage, NEW x \in Ids, Deletes(x)
  PROVE  Storage'
<1>1. /\ request = Idle /\ request' = [op |-> "delete", from |-> x, to |-> x] /\ ~fresh'
      /\ UNCHANGED <<conf, loop, schedule, sent, ownerOf, takenBy, astray, stray, left>>
      /\ row' = [i \in Sent |-> IF row[i].id = x THEN Nowhere ELSE row[i]]
      /\ logged' = [i \in Sent |-> logged[i] \ {x}]
      /\ keys' = [keys EXCEPT ![x] = {}]
  BY AsksTypes DEF Control, Deletes, Wiped, proc, rowHist
<1>2. Resolved' = Resolved /\ Configured' = Configured
  BY <1>1, SameHeads
<1>3. keys'[x] = {} /\ \A z \in Ids \ {x} : keys'[z] = keys[z]
  BY <1>1 DEF Control, TypeOK
<1>4. \A i \in Sent :
        /\ row'[i].st # "none" => row'[i] = row[i] /\ row[i].id # x
        /\ logged'[i] = logged[i] \ {x}
  BY <1>1 DEF Nowhere
<1>5. \A i \in Sent : Where(i)' \subseteq Where(i) \ {x}
  BY <1>4 DEF Where
<1>6. \A z \in Ids : Answers(z)' = Resolved[z] /\ Answers(z) = Resolved[z]
  BY <1>1, <1>2 DEF Answers, Idle
<1>7. RowsInOrder'
  <2>1. \A i \in Sent : row[i].st = "none" => row'[i].st = "none"
    BY <1>1 DEF Nowhere
  <2> QED
    BY <1>1, <1>4, <2>1 DEF Storage, RowsInOrder
<1>8. DataWithHead'
  BY <1>1, <1>5, <1>6, StoredHasOwner DEF Storage, DataWithHead
<1>9. LoopsOwn'
  BY <1>1, <1>4 DEF Storage, LoopsOwn
<1>10. OriginEmpty'
  BY <1>1, <1>3, <1>5 DEF OriginEmpty
<1>11. CleanIds'
  <2>1. x \in Configured
    BY DEF Deletes
  <2> QED
    BY <1>1, <1>2, <1>3, <1>5, <2>1 DEF Storage, CleanIds, Idle
<1>12. NoCrossTalk'
  BY <1>1 DEF Storage, NoCrossTalk
<1> QED
  BY <1>1, <1>7, <1>8, <1>9, <1>10, <1>11, <1>12 DEF Storage, InHand

LEMMA DeletesScheduleStorage ==
  ASSUME Control, Storage, NEW s \in Schedules, DeletesSchedule(s)
  PROVE  Storage'
<1>1. /\ schedule' = [schedule EXCEPT ![s] = Nobody]
      /\ UNCHANGED <<conf, request, phase, loop, working, row, logged, keys, sent, ownerOf,
                     takenBy, astray, stray, left, fresh>>
  BY DEF DeletesSchedule, proc, store, counts, rowHist
<1>2. Resolved' = Resolved /\ Configured' = Configured
  BY <1>1, SameHeads
<1>3. \A i \in Sent : Where(i)' = Where(i)
  BY <1>1 DEF Where
<1>4. \A x \in Ids : Answers(x)' = Answers(x)
  BY <1>1, <1>2 DEF Answers
<1>5. DataWithHead'
  BY <1>1, <1>3, <1>4, StoredHasOwner DEF Storage, DataWithHead
<1>6. CleanIds'
  <2>1. \A t \in Schedules, x \in Ids : schedule[t] # x => schedule'[t] # x
    BY <1>1, ConstantsAssumption DEF Control, TypeOK
  <2> QED
    BY <1>1, <1>2, <1>3, <2>1 DEF Storage, CleanIds
<1>7. RowsInOrder' /\ LoopsOwn' /\ NoCrossTalk' /\ InHand'
  BY <1>1 DEF Storage, RowsInOrder, LoopsOwn, NoCrossTalk, InHand
<1>8. OriginEmpty'
  BY <1>1, <1>3 DEF Storage, OriginEmpty
<1> QED
  BY <1>5, <1>6, <1>7, <1>8 DEF Storage

LEMMA DeletedStorage ==
  ASSUME Control, Storage, Deleted
  PROVE  Storage'
<1> DEFINE x == request.from
<1>1. /\ x \in Configured /\ x # Default /\ ~fresh /\ request.op = "delete"
      /\ \A s \in Schedules : schedule[s] # x
      /\ conf' = [conf EXCEPT ![x] = Nobody]
      /\ request' = Idle
      /\ stray' = stray \ {x} /\ left' = left \ {x}
      /\ UNCHANGED <<loop, row, logged, keys, schedule, sent, ownerOf, takenBy, astray, fresh, born>>
  BY DEF Control, RequestKnown, Deleted, SchedulesGone, proc, store, counts
<1>2. PICK id \in Configured : id = x
  BY <1>1
<1>3. /\ \A y \in Ids : y # id /\ Resolved[y] # Nobody => Resolved'[y] = Resolved[y]
      /\ Configured \ {id} \subseteq Configured'
  BY <1>1, <1>2, DeletedHead DEF Control
<1>4. \A i \in Sent : Where(i)' = Where(i) /\ id \notin Where(i)
  BY <1>1, <1>2 DEF Where, Storage, OriginEmpty
<1>5. DataWithHead'
  <2>1. ASSUME NEW i \in Sent \ astray, NEW z \in Where(i)
        PROVE  Answers(z)' = ownerOf[i]
    <3>1. z \in Ids /\ ownerOf[i] # Nobody /\ Resolved[z] = ownerOf[i] /\ z # id
      BY <1>1, <1>4, StoredHasOwner DEF Storage, DataWithHead, Answers
    <3> QED
      BY <1>1, <1>3, <3>1 DEF Answers, Idle
  <2> QED
    BY <1>1, <1>4, <2>1 DEF DataWithHead
<1>6. CleanIds'
  <2>1. ASSUME NEW z \in Ids \ Configured', z \notin stray'
        PROVE  /\ keys[z] = {}
               /\ \A i \in Sent : z \notin Where(i)
               /\ z \in left' \/ \A s \in Schedules : schedule[s] # z
    <3>1. CASE z = id
      BY <1>1, <1>2, <1>4, <3>1 DEF Storage, OriginEmpty
    <3>2. CASE z # id
      BY <1>1, <1>2, <1>3, <2>1, <3>2 DEF Storage, CleanIds
    <3> QED
      BY <3>1, <3>2
  <2> QED
    BY <1>1, <1>4, <2>1 DEF CleanIds
<1>7. RowsInOrder' /\ LoopsOwn' /\ NoCrossTalk'
  BY <1>1 DEF Storage, RowsInOrder, LoopsOwn, NoCrossTalk
<1> QED
  BY <1>1, <1>5, <1>6, <1>7 DEF Storage, OriginEmpty, InHand, Idle

LEMMA RenamesStorage ==
  ASSUME Control, Storage, NEW x \in Ids, NEW y \in Ids, Renames(x, y)
  PROVE  Storage'
<1>1. /\ request = Idle /\ request' = [op |-> "rename", from |-> x, to |-> y] /\ ~fresh'
      /\ UNCHANGED <<conf, loop, schedule, sent, ownerOf, takenBy, stray, left>>
      /\ row' = [i \in Sent |-> IF row[i].id = x THEN [row[i] EXCEPT !.id = y] ELSE row[i]]
      /\ logged' = [i \in Sent |-> IF x \in logged[i] THEN (logged[i] \ {x}) \cup {y} ELSE logged[i]]
      /\ keys' = [keys EXCEPT ![x] = {}, ![y] = @ \cup keys[x]]
      /\ astray' = astray \cup {i \in Sent : row[i].id = x /\ loop[y] \notin {ownerOf[i], Nobody}}
  BY AsksTypes DEF Control, Renames, Moved, proc
<1>2. Resolved' = Resolved /\ Configured' = Configured
  BY <1>1, SameHeads
<1>3. x # y /\ x \in Configured /\ y \notin Configured /\ Resolved[y] = Nobody
  BY DEF Renames, Configured
<1>4. keys'[x] = {} /\ \A z \in Ids \ {x, y} : keys'[z] = keys[z]
  BY <1>1, <1>3 DEF Control, TypeOK
<1>5. \A i \in Sent :
        /\ row'[i].st = row[i].st
        /\ row'[i].id = IF row[i].id = x THEN y ELSE row[i].id
  BY <1>1 DEF Control, TypeOK, Row
<1>6. \A i \in Sent :
        /\ x \notin Where(i)'
        /\ y \in Where(i)' => x \in Where(i) \/ y \in Where(i)
        /\ \A z \in Where(i)' : z # y => z \in Where(i)
  <2>1. \A i \in Sent : logged'[i] = IF x \in logged[i] THEN (logged[i] \ {x}) \cup {y} ELSE logged[i]
    BY <1>1
  <2> QED
    BY <1>3, <1>5, <2>1 DEF Where
<1>7. \A z \in Ids : /\ Answers(z) = Resolved[z]
                     /\ z \notin {x, y} => Answers(z)' = Resolved[z]
                     /\ z = y => Answers(z)' = Resolved[x]
  BY <1>1, <1>2 DEF Answers, Idle
<1>8. RowsInOrder'
  <2>1. \A i \in Sent : logged[i] = {} => logged'[i] = {}
    BY <1>1
  <2> QED
    BY <1>1, <1>5, <2>1 DEF Storage, RowsInOrder
<1>9. DataWithHead'
  <2>1. ASSUME NEW i \in Sent \ astray', NEW z \in Where(i)'
        PROVE  Answers(z)' = ownerOf[i]
    <3>1. i \in Sent \ astray
      BY <1>1
    <3>2. \A w \in Where(i) : w \in Ids /\ ownerOf[i] # Nobody /\ Resolved[w] = ownerOf[i]
      BY <1>7, <3>1, StoredHasOwner DEF Storage, DataWithHead
    <3>3. CASE z = y
      BY <1>3, <1>6, <1>7, <2>1, <3>2, <3>3
    <3>4. CASE z # y
      BY <1>6, <1>7, <2>1, <3>2, <3>4
    <3> QED
      BY <3>3, <3>4
  <2> QED
    BY <1>1, <2>1 DEF DataWithHead
<1>10. LoopsOwn'
  BY <1>1, <1>5 DEF Storage, LoopsOwn
<1>11. OriginEmpty'
  BY <1>1, <1>4, <1>6 DEF OriginEmpty
<1>12. CleanIds'
  <2>1. ASSUME NEW z \in Ids \ Configured, z \notin stray, z # y
        PROVE  /\ keys'[z] = {}
               /\ \A i \in Sent : z \notin Where(i)'
               /\ z \in left \/ \A s \in Schedules : schedule[s] # z
    BY <1>1, <1>3, <1>4, <1>6, <2>1 DEF Storage, CleanIds, Idle
  <2> QED
    BY <1>1, <1>2, <2>1 DEF CleanIds
<1>13. NoCrossTalk'
  BY <1>1 DEF Storage, NoCrossTalk
<1> QED
  BY <1>1, <1>8, <1>9, <1>10, <1>11, <1>12, <1>13 DEF Storage, InHand

LEMMA RenamedStorage ==
  ASSUME Control, Storage, Renamed
  PROVE  Storage'
<1>1. PICK x \in Configured, y \in Ids : x = request.from /\ y = request.to
  BY DEF Control, RequestKnown, Renamed, TypeOK, Request
<1>2. /\ x # Default /\ y # Default /\ y \notin Configured /\ ~fresh /\ request.op = "rename"
      /\ conf' = [conf EXCEPT ![x] = Nobody, ![y] = conf[x]]
      /\ request' = Idle
      /\ left' = IF \A s \in Schedules : schedule[s] # x THEN left ELSE left \cup {x}
      /\ UNCHANGED <<loop, row, logged, keys, schedule, sent, ownerOf, takenBy, astray, stray, fresh, born>>
  BY <1>1 DEF Control, RequestKnown, Renamed, SchedulesGone, proc, store, counts, rowHist
<1>3. /\ Resolved' = [Resolved EXCEPT ![x] = Nobody, ![y] = Resolved[x]]
      /\ Configured' = (Configured \ {x}) \cup {y}
      /\ Resolved \in [Ids -> Heads \cup {Nobody}]
  BY <1>2, RenamedHead, ResolvedDistinct DEF Control
<1>4. \A i \in Sent : Where(i)' = Where(i) /\ x \notin Where(i)
  BY <1>1, <1>2 DEF Where, Storage, OriginEmpty
<1>5. x \in Ids /\ x # y
  BY <1>2 DEF Configured
<1>6. \A z \in Ids : Answers(z)' = Answers(z)
  BY <1>1, <1>2, <1>3, <1>5 DEF Answers, Idle
<1>7. DataWithHead'
  BY <1>2, <1>4, <1>6, StoredHasOwner DEF Storage, DataWithHead
<1>8. CleanIds'
  <2>1. ASSUME NEW z \in Ids \ Configured', z \notin stray
        PROVE  /\ keys[z] = {}
               /\ \A i \in Sent : z \notin Where(i)
               /\ z \in left' \/ \A s \in Schedules : schedule[s] # z
    <3>1. CASE z = x
      BY <1>1, <1>2, <1>4, <3>1 DEF Storage, OriginEmpty
    <3>2. CASE z # x
      <4>1. z \notin Configured /\ z # y
        BY <1>3, <2>1, <3>2
      <4> QED
        BY <1>1, <1>2, <2>1, <4>1 DEF Storage, CleanIds
    <3> QED
      BY <3>1, <3>2
  <2> QED
    BY <1>2, <1>4, <2>1 DEF CleanIds
<1>9. RowsInOrder' /\ LoopsOwn' /\ NoCrossTalk'
  BY <1>2 DEF Storage, RowsInOrder, LoopsOwn, NoCrossTalk
<1> QED
  BY <1>2, <1>7, <1>8, <1>9 DEF Storage, OriginEmpty, InHand, Idle

LEMMA SetsUpStorage ==
  ASSUME Control, Storage, NEW x \in Ids, SetsUp(x)
  PROVE  Storage'
<1>1. /\ request = Idle /\ phase = "starting" /\ phase' = phase /\ fresh /\ x \in Configured
      /\ loop' = [loop EXCEPT ![x] = Resolved[x]]
      /\ keys' = [keys EXCEPT ![x] = Unlocked(@)]
      /\ row' = [i \in Sent |-> IF row[i].id = x /\ row[i].st = "processing"
                                THEN [row[i] EXCEPT !.st = "pending"] ELSE row[i]]
      /\ UNCHANGED <<conf, request, working, logged, schedule, sent, ownerOf, takenBy, astray,
                     stray, left, fresh>>
  BY DEF Control, RequestKnown, LoopsKnown, SetsUp, Requeued, counts, rowHist, adminHist
<1>2. Resolved' = Resolved /\ Configured' = Configured
  BY <1>1, SameHeads
<1>3. \A i \in Sent :
        /\ row'[i].id = row[i].id
        /\ row'[i].st = "none" <=> row[i].st = "none"
        /\ row'[i].st = "processing" => row[i].st = "processing" /\ row[i].id # x
  BY <1>1 DEF Control, TypeOK, Row
<1>4. \A i \in Sent : Where(i)' = Where(i)
  BY <1>1, <1>3 DEF Where
<1>5. \A z \in Ids : Answers(z)' = Answers(z) /\ Answers(z) = Resolved[z]
  BY <1>1, <1>2 DEF Answers, Idle
<1>6. DataWithHead'
  BY <1>1, <1>4, <1>5, StoredHasOwner DEF Storage, DataWithHead
<1>7. \A z \in Ids : loop'[z] = IF z = x THEN Resolved[x] ELSE loop[z]
  BY <1>1 DEF Control, TypeOK
<1>8. LoopsOwn'
  <2>1. ASSUME NEW i \in Sent \ astray, row[i].st # "none"
        PROVE  loop'[row[i].id] \in {ownerOf[i], Nobody}
    <3>1. row[i].id \in Where(i) /\ row[i].id \in Ids
      BY <2>1, StoredHasOwner DEF Where, Storage
    <3>2. Resolved[row[i].id] = ownerOf[i]
      BY <1>5, <3>1 DEF Storage, DataWithHead
    <3> QED
      BY <1>7, <2>1, <3>1, <3>2 DEF Storage, LoopsOwn
  <2> QED
    BY <1>1, <1>3, <2>1 DEF LoopsOwn
<1>9. CleanIds'
  <2>1. \A z \in Ids \ {x} : keys'[z] = keys[z]
    BY <1>1 DEF Control, TypeOK
  <2> QED
    BY <1>1, <1>2, <1>4, <2>1 DEF Storage, CleanIds
<1>10. InHand'
  <2>1. \A i \in Sent : row[i].id \in Ids
    BY DEF Control, TypeOK, Row
  <2> QED
    BY <1>1, <1>3, <1>7, <2>1 DEF Storage, InHand
<1>11. RowsInOrder'
  BY <1>1, <1>3 DEF Storage, RowsInOrder
<1>12. NoCrossTalk' /\ OriginEmpty'
  BY <1>1 DEF Storage, NoCrossTalk, OriginEmpty, Idle
<1> QED
  BY <1>6, <1>8, <1>9, <1>10, <1>11, <1>12 DEF Storage

LEMMA DiesStorage ==
  ASSUME Control, Storage, Dies
  PROVE  Storage'
<1>1. /\ request' = Idle /\ phase' = "down"
      /\ loop' = [x \in Ids |-> Nobody]
      /\ astray \subseteq astray' /\ stray \subseteq stray'
      /\ request.op = "rename" => /\ request.to \in stray'
                                 /\ \A i \in Sent : request.to \in {row[i].id} \cup logged[i] => i \in astray'
      /\ UNCHANGED <<conf, row, logged, keys, schedule, sent, ownerOf, takenBy, left>>
  BY DEF Dies, store, adminHist
<1>2. Resolved' = Resolved /\ Configured' = Configured
  BY <1>1, SameHeads
<1>3. \A i \in Sent : Where(i)' = Where(i)
  BY <1>1 DEF Where
<1>4. DataWithHead'
  <2>1. ASSUME NEW i \in Sent \ astray', NEW z \in Where(i)
        PROVE  Answers(z)' = ownerOf[i]
    <3>1. z \in Ids /\ Answers(z) = ownerOf[i]
      BY <1>1, StoredHasOwner DEF Storage, DataWithHead
    <3>2. request.op # "rename" \/ z \notin {request.from, request.to}
      BY <1>1, <2>1 DEF Where, Storage, OriginEmpty
    <3>3. Answers(z)' = Resolved[z]
      BY <1>1, <1>2 DEF Answers, Idle
    <3> QED
      BY <3>1, <3>2, <3>3 DEF Answers
  <2> QED
    BY <1>1, <1>3, <2>1 DEF DataWithHead
<1>5. LoopsOwn'
  <2>1. \A i \in Sent : row[i].id \in Ids
    BY DEF Control, TypeOK, Row
  <2> QED
    BY <1>1, <2>1 DEF LoopsOwn
<1>6. CleanIds'
  BY <1>1, <1>2, <1>3 DEF Storage, CleanIds
<1>7. RowsInOrder' /\ NoCrossTalk'
  BY <1>1 DEF Storage, RowsInOrder, NoCrossTalk
<1> QED
  BY <1>1, <1>4, <1>5, <1>6, <1>7 DEF Storage, OriginEmpty, InHand, Idle

\* A loop writes into the history for its own head, or marks what it writes.
LEMMA LogsStorage ==
  ASSUME Control, Storage, NEW x \in Ids, NEW i \in Sent, Logs(x, i), request = Idle,
         loop[x] \in Heads, i <= sent,
         i \notin astray => loop[x] = ownerOf[i],
         \A j \in Sent : row'[j].id = row[j].id /\ (row'[j].st = "none" <=> row[j].st = "none"),
         \A z \in Ids \ {x} : keys'[z] = keys[z],
         \A j \in Sent : takenBy[j] \subseteq takenBy'[j] /\ takenBy'[j] \subseteq takenBy[j] \cup {loop[x]},
         \A j \in Sent \ {i} : takenBy'[j] = takenBy[j],
         UNCHANGED <<conf, request, loop, schedule, sent, ownerOf, left>>
  PROVE  RowsInOrder' /\ DataWithHead' /\ LoopsOwn' /\ NoCrossTalk' /\ OriginEmpty' /\ CleanIds'
<1>1. Resolved' = Resolved /\ Configured' = Configured
  BY SameHeads
<1>2. /\ logged'[i] = logged[i] \cup {x}
      /\ \A j \in Sent \ {i} : logged'[j] = logged[j]
      /\ astray \subseteq astray' /\ stray \subseteq stray'
      /\ Resolved[x] # loop[x] => i \in astray' /\ x \in stray'
  BY DEF Control, TypeOK, Logs
<1>3. /\ Where(i)' = Where(i) \cup {x}
      /\ \A j \in Sent \ {i} : Where(j)' = Where(j)
  BY <1>2 DEF Where
<1>4. loop[x] # Nobody
  BY ConstantsAssumption DEF Heads
<1>5. \A z \in Ids : Answers(z)' = Answers(z) /\ Answers(z) = Resolved[z]
  BY <1>1 DEF Answers, Idle
<1>6. RowsInOrder'
  <2>1. i \in Nat /\ sent \in Nat /\ ~(i > sent)
    BY DEF Control, TypeOK, Sent
  <2> QED
    BY <1>2, <2>1 DEF Storage, RowsInOrder
<1>7. DataWithHead'
  <2>1. ASSUME NEW j \in Sent \ astray', NEW z \in Where(j)'
        PROVE  Answers(z)' = ownerOf[j]
    <3>1. CASE z \in Where(j)
      BY <1>2, <1>5, <3>1, StoredHasOwner DEF Storage, DataWithHead
    <3>2. CASE z \notin Where(j)
      BY <1>2, <1>3, <1>5, <2>1, <3>2
    <3> QED
      BY <3>1, <3>2
  <2> QED
    BY <2>1 DEF DataWithHead
<1>8. LoopsOwn'
  BY <1>2 DEF Storage, LoopsOwn
<1>9. NoCrossTalk'
  BY <1>2 DEF Storage, NoCrossTalk
<1>10. CleanIds'
  <2>1. ASSUME NEW z \in Ids \ Configured, z \notin stray'
        PROVE  z # x /\ z \notin stray
    BY <1>2, <1>4, <2>1 DEF Configured
  <2> QED
    BY <1>1, <1>3, <2>1 DEF Storage, CleanIds, Idle
<1> QED
  BY <1>6, <1>7, <1>8, <1>9, <1>10 DEF OriginEmpty, Idle

LEMMA TakesStorage ==
  ASSUME Control, Storage, NEW x \in Ids, NEW i \in Sent, Takes(x, i)
  PROVE  Storage'
<1>1. /\ request = Idle /\ loop[x] # Nobody /\ working[x] = 0
      /\ row[i] = [id |-> x, st |-> "pending"]
      /\ row' = [row EXCEPT ![i].st = "processing"]
      /\ working' = [working EXCEPT ![x] = i]
      /\ takenBy' = [takenBy EXCEPT ![i] = @ \cup {loop[x]}]
      /\ Logs(x, i)
      /\ UNCHANGED <<conf, request, phase, loop, schedule, sent, ownerOf, left, fresh>>
  BY DEF Takes, LoopsRun, Free, counts, adminHist
<1>2. loop[x] \in Heads
  BY <1>1 DEF Control, TypeOK
<1>3. i <= sent
  BY <1>1 DEF Control, TypeOK, Storage, RowsInOrder, Sent
<1>4. i \notin astray => loop[x] = ownerOf[i]
  BY <1>1 DEF Storage, LoopsOwn
<1>5. /\ row'[i].id = x /\ row'[i].st = "processing"
      /\ \A j \in Sent \ {i} : row'[j] = row[j]
  BY <1>1 DEF Control, TypeOK, Row
<1>6. \A z \in Ids \ {x} : keys'[z] = keys[z]
  BY DEF Control, TypeOK, Takes
<1>7. /\ \A j \in Sent : takenBy[j] \subseteq takenBy'[j] /\ takenBy'[j] \subseteq takenBy[j] \cup {loop[x]}
      /\ \A j \in Sent \ {i} : takenBy'[j] = takenBy[j]
  BY <1>1 DEF Control, TypeOK
<1>8. \A j \in Sent : row'[j].id = row[j].id /\ (row'[j].st = "none" <=> row[j].st = "none")
  BY <1>1, <1>5
<1>9. RowsInOrder' /\ DataWithHead' /\ LoopsOwn' /\ NoCrossTalk' /\ OriginEmpty' /\ CleanIds'
  BY <1>1, <1>2, <1>3, <1>4, <1>6, <1>7, <1>8, LogsStorage
<1>10. InHand'
  <2>1. ASSUME fresh, phase # "down", NEW j \in Sent, row'[j].st = "processing", loop[row'[j].id] # Nobody
        PROVE  working'[row'[j].id] = j
    <3>1. CASE j = i
      BY <1>1, <1>5, <3>1 DEF Control, TypeOK
    <3>2. CASE j # i
      <4>1. working[row[j].id] = j /\ row'[j].id = row[j].id /\ row[j].id \in Ids
        BY <1>5, <2>1, <3>2 DEF Storage, InHand, Control, TypeOK, Row
      <4>2. row[j].id # x
        BY <1>1, <4>1 DEF Sent
      <4> QED
        BY <1>1, <4>1, <4>2 DEF Control, TypeOK
    <3> QED
      BY <3>1, <3>2
  <2> QED
    BY <1>1, <2>1 DEF InHand
<1> QED
  BY <1>9, <1>10 DEF Storage

LEMMA FinishesStorage ==
  ASSUME Control, Storage, NEW x \in Ids, Finishes(x)
  PROVE  Storage'
<1>1. PICK i \in Sent : i = working[x]
  BY DEF Control, TypeOK, Finishes
<1>2. /\ request = Idle /\ i # 0
      /\ row' = IF row[i].st = "none" THEN row ELSE [row EXCEPT ![i].st = "done"]
      /\ working' = [working EXCEPT ![x] = 0]
      /\ Logs(x, i)
      /\ UNCHANGED <<conf, request, phase, loop, schedule, sent, ownerOf, takenBy, left, fresh>>
  BY <1>1 DEF Finishes, LoopsRun, Free, counts, adminHist
<1>3. i <= sent /\ loop[x] \in takenBy[i]
  BY <1>1, <1>2 DEF Control, LoopsKnown
<1>4. loop[x] \in Heads
  BY <1>3 DEF Control, TypeOK
<1>5. i \notin astray => loop[x] = ownerOf[i]
  BY <1>3 DEF Storage, NoCrossTalk
<1>6. \A j \in Sent :
        /\ row'[j].id = row[j].id
        /\ row'[j].st = "none" <=> row[j].st = "none"
        /\ row'[j].st = "processing" => row[j].st = "processing" /\ j # i
  BY <1>2 DEF Control, TypeOK, Row
<1>7. \A j \in Sent : takenBy[j] \subseteq takenBy'[j] /\ takenBy'[j] \subseteq takenBy[j] \cup {loop[x]}
  BY <1>2
<1>8. RowsInOrder' /\ DataWithHead' /\ LoopsOwn' /\ NoCrossTalk' /\ OriginEmpty' /\ CleanIds'
  BY <1>2, <1>3, <1>4, <1>5, <1>6, <1>7, ArchivingKnown, LogsStorage
<1>9. InHand'
  <2>1. ASSUME fresh, phase # "down", NEW j \in Sent, row'[j].st = "processing", loop[row'[j].id] # Nobody
        PROVE  working'[row'[j].id] = j
    <3>1. working[row[j].id] = j /\ row'[j].id = row[j].id /\ row[j].id \in Ids /\ j # i
      BY <1>6, <2>1 DEF Storage, InHand, Control, TypeOK, Row
    <3>2. row[j].id # x
      BY <1>1, <3>1
    <3> QED
      BY <1>2, <3>1, <3>2 DEF Control, TypeOK
  <2> QED
    BY <1>2, <2>1 DEF InHand
<1> QED
  BY <1>8, <1>9 DEF Storage

\* What an archival writes under its loop's id is its head's, or marked.
LEMMA ArchivalEndsStorage ==
  ASSUME Control, Storage, NEW x \in Ids, ArchivalEnds(x)
  PROVE  Storage'
<1>1. /\ request = Idle /\ Soils(x)
      /\ \A z \in Ids \ {x} : keys'[z] = keys[z]
      /\ UNCHANGED <<conf, request, phase, loop, working, row, logged, schedule, sent, ownerOf,
                     takenBy, astray, left, fresh>>
  BY ArchivingKnown DEF ArchivalEnds, Free, counts, adminHist
<1>2. stray \subseteq stray' /\ (x \in Configured \/ x \in stray')
  BY <1>1, ArchivingKnown DEF Soils, Configured
<1>3. Resolved' = Resolved /\ Configured' = Configured
  BY <1>1, SameHeads
<1>4. \A i \in Sent : Where(i)' = Where(i)
  BY <1>1 DEF Where
<1>5. \A z \in Ids : Answers(z)' = Answers(z)
  BY <1>1, <1>3 DEF Answers
<1>6. DataWithHead'
  BY <1>1, <1>4, <1>5, StoredHasOwner DEF Storage, DataWithHead
<1>7. CleanIds'
  <2>1. \A z \in Ids \ Configured : z \notin stray' => z # x /\ z \notin stray
    BY <1>2
  <2> QED
    BY <1>1, <1>3, <1>4, <2>1 DEF Storage, CleanIds
<1>8. RowsInOrder' /\ LoopsOwn' /\ NoCrossTalk' /\ InHand'
  BY <1>1 DEF Storage, RowsInOrder, LoopsOwn, NoCrossTalk, InHand
<1> QED
  BY <1>1, <1>6, <1>7, <1>8 DEF Storage, OriginEmpty, Idle

LEMMA CreatesScheduleStorage ==
  ASSUME Control, Storage, NEW s \in Schedules, NEW x \in Ids, CreatesSchedule(s, x)
  PROVE  Storage'
<1>1. /\ stray \subseteq stray' /\ (x \in Configured \/ x \in stray')
      /\ schedule' = [schedule EXCEPT ![s] = x]
      /\ UNCHANGED <<conf, request, phase, loop, working, row, logged, keys, sent, ownerOf,
                     takenBy, astray, left, fresh>>
  BY CreatesScheduleAdds DEF Adds, proc, store, counts
<1>2. request = Idle
  BY DEF CreatesSchedule, LoopsRun, Free
<1>3. Resolved' = Resolved /\ Configured' = Configured
  BY <1>1, SameHeads
<1>4. \A i \in Sent : Where(i)' = Where(i)
  BY <1>1 DEF Where
<1>5. \A z \in Ids : Answers(z)' = Answers(z)
  BY <1>1, <1>3 DEF Answers
<1>6. DataWithHead'
  BY <1>1, <1>4, <1>5, StoredHasOwner DEF Storage, DataWithHead
<1>7. CleanIds'
  <2>1. \A z \in Ids, t \in Schedules : z # x /\ schedule[t] # z => schedule'[t] # z
    BY <1>1 DEF Control, TypeOK
  <2>2. \A z \in Ids \ Configured : z \notin stray' => z # x /\ z \notin stray
    BY <1>1
  <2> QED
    BY <1>1, <1>3, <1>4, <2>1, <2>2 DEF Storage, CleanIds
<1>8. RowsInOrder' /\ LoopsOwn' /\ NoCrossTalk' /\ InHand'
  BY <1>1 DEF Storage, RowsInOrder, LoopsOwn, NoCrossTalk, InHand
<1> QED
  BY <1>1, <1>2, <1>6, <1>7, <1>8 DEF Storage, OriginEmpty, Idle

LEMMA EnqueuesStorage ==
  ASSUME Control, Storage,
         \/ \E x \in Ids : Sends(x)
         \/ \E k \in Agents : Reports(k)
         \/ \E s \in Schedules : Ticks(s)
  PROVE  Storage'
<1>1. ASSUME NEW x \in Ids, Sends(x)
      PROVE  Storage'
  <2>1. request = Idle /\ loop[x] \in Heads
    BY <1>1 DEF Control, TypeOK, Sends, Free
  <2> QED
    BY <1>1, <2>1, EnqueueStorage DEF Sends, proc, adminHist
<1>2. ASSUME NEW k \in Agents, Reports(k)
      PROVE  Storage'
  <2>1. request = Idle /\ agent[k].head \in Heads /\ agent[k].id \in Ids
    BY <1>2 DEF Control, TypeOK, Agent, Reports, Free
  <2> QED
    BY <1>2, <2>1, EnqueueStorage DEF Reports, proc, adminHist
<1>3. ASSUME NEW s \in Schedules, Ticks(s)
      PROVE  Storage'
  <2>1. request = Idle /\ schedule[s] \in Ids /\ madeFor[s] \in Heads
    BY <1>3 DEF Control, TypeOK, SchedulesKnown, Ticks, Free
  <2> QED
    BY <1>3, <2>1, EnqueueStorage DEF Ticks, proc, adminHist
<1> QED
  BY <1>1, <1>2, <1>3

LEMMA ReapsStorage ==
  ASSUME Control, Storage, NEW x \in Ids, NEW k \in Agents, Reaps(x, k)
  PROVE  Storage'
<1>1. agent[k].head \in Heads
  BY DEF Control, TypeOK, Agent
<1>2. request = Idle
  BY DEF Control, RequestKnown, Reaps, Reaping, TypeOK, Request
<1>3. CASE Enqueue(x, agent[k].head) /\ UNCHANGED <<logged, keys, takenBy>>
  BY <1>1, <1>2, <1>3, EnqueueStorage DEF Reaps, proc
<1>4. CASE UNCHANGED <<store, sent, rowHist>>
  BY <1>4, QuietStorage DEF Reaps, proc, store, rowHist
<1> QED
  BY <1>3, <1>4 DEF Reaps

LEMMA StartsStorage ==
  ASSUME Control, Storage, Boots \/ Opens \/ StartsLoops
  PROVE  Storage'
<1>1. CASE Boots
  <2>1. \A x \in Ids : loop[x] = Nobody
    BY <1>1 DEF Control, LoopsKnown, Boots
  <2> QED
    BY <1>1, <2>1, QuietStorage DEF Boots, store, counts, rowHist
<1>2. CASE Opens \/ StartsLoops
  BY <1>2, QuietStorage DEF Opens, StartsLoops, Free, store, counts, rowHist, adminHist
<1> QED
  BY <1>1, <1>2

LEMMA StorageStep ==
  ASSUME Control, Storage, [Next]_vars
  PROVE  Storage'
<1>1. CASE AdminStep
  BY <1>1, CreatesStorage, DeletesStorage, RenamesStorage, DeletesScheduleStorage,
     DeletedStorage, RenamedStorage DEF AdminStep
<1>2. CASE StartStep
  BY <1>2, StartsStorage, DiesStorage, SetsUpStorage, ReapsStorage DEF StartStep
<1>3. ASSUME NEW x \in Ids, HeadStep(x)
      PROVE  Storage'
  <2>1. ASSUME NEW k \in Agents, Spawns(x, k)
        PROVE  Storage'
    BY <2>1, QuietStorage DEF Spawns, proc, store, counts, rowHist, adminHist
  <2> QED
    BY <1>3, <2>1, EnqueuesStorage, TakesStorage, FinishesStorage, ArchivalEndsStorage,
       CreatesScheduleStorage
    DEF HeadStep
<1>4. CASE (\E k \in Agents : Reports(k)) \/ (\E s \in Schedules : Ticks(s))
  BY <1>4, EnqueuesStorage
<1>5. CASE UNCHANGED vars
  BY <1>5, QuietStorage DEF vars, proc, store, counts, rowHist, adminHist
<1> QED
  BY <1>1, <1>2, <1>3, <1>4, <1>5 DEF Next, Rests
-----------------------------------------------------------------------------
(* The archival locks *)

\* Steps after which no head's lock is anything else than before.
LEMMA LocksKept ==
  ASSUME LocksTrue, fresh' /\ phase' # "down" => fresh /\ phase # "down",
         UNCHANGED <<loop, archiving>>,
         \A x \in Ids : "held" \in keys'[x] <=> "held" \in keys[x]
  PROVE  LocksTrue'
BY DEF LocksTrue

\* Requests make no difference: the process is not fresh any more.
LEMMA AdminLocks ==
  ASSUME Control, LocksTrue, AdminStep
  PROVE  LocksTrue'
<1>1. CASE \E x \in Ids : Creates(x) \/ Deletes(x) \/ \E y \in Ids : Renames(x, y)
  BY <1>1 DEF LocksTrue, Creates, Deletes, Renames, Asks
<1>2. CASE (\E s \in Schedules : DeletesSchedule(s)) \/ Deleted \/ Renamed
  BY <1>2, LocksKept DEF DeletesSchedule, Deleted, Renamed, proc, store
<1> QED
  BY <1>1, <1>2 DEF AdminStep

LEMMA StartLocks ==
  ASSUME Control, LocksTrue, StartStep
  PROVE  LocksTrue'
<1>1. CASE Boots
  <2>1. \A x \in Ids : loop'[x] = Nobody
    BY <1>1 DEF Control, LoopsKnown, Boots
  <2> QED
    BY <2>1 DEF LocksTrue
<1>2. CASE Dies
  BY <1>2 DEF LocksTrue, Dies
<1>3. CASE Opens \/ StartsLoops
  BY <1>3, LocksKept DEF Opens, StartsLoops, Free, store, adminHist
<1>4. ASSUME NEW x \in Ids, SetsUp(x)
      PROVE  LocksTrue'
  <2>1. \A y \in Ids : archiving[y] = 0
    BY <1>4 DEF Control, LoopsKnown, SetsUp
  <2>2. /\ "held" \notin keys'[x]
        /\ \A y \in Ids \ {x} : keys'[y] = keys[y] /\ loop'[y] = loop[y]
    BY <1>4 DEF Control, TypeOK, SetsUp, Unlocked
  <2>3. UNCHANGED <<archiving, phase, fresh>>
    BY <1>4 DEF SetsUp, adminHist
  <2>4. phase = "starting" /\ phase # "down"
    BY <1>4 DEF SetsUp
  <2> QED
    BY <2>1, <2>2, <2>3, <2>4 DEF LocksTrue
<1>5. ASSUME NEW x \in Ids, NEW k \in Agents, Reaps(x, k)
      PROVE  LocksTrue'
  BY <1>5, LocksKept DEF Reaps, proc, store
<1> QED
  BY <1>1, <1>2, <1>3, <1>4, <1>5 DEF StartStep

\* An archival takes its head's lock and gives it back.
LEMMA ArchivesLocks ==
  ASSUME Control, LocksTrue, NEW x \in Ids, Finishes(x) \/ ArchivalEnds(x)
  PROVE  LocksTrue'
<1>1. UNCHANGED <<loop, phase, fresh>> /\ loop[x] # Nobody
  BY ArchivingKnown DEF Finishes, ArchivalEnds, adminHist
<1>2. archiving \in [Ids -> Nat] /\ keys \in [Ids -> SUBSET Keys]
  BY DEF Control, TypeOK
<1>3. \A y \in Ids \ {x} : archiving'[y] = archiving[y] /\ keys'[y] = keys[y]
  BY ArchivingKnown
<1>4. ASSUME fresh, phase # "down"
      PROVE  archiving'[x] = IF "held" \in keys'[x] THEN 1 ELSE 0
  <2>1. archiving[x] = IF "held" \in keys[x] THEN 1 ELSE 0
    BY <1>1, <1>4 DEF LocksTrue
  <2>2. CASE Archives(x)
    BY <1>2, <2>1, <2>2 DEF Archives, Locked
  <2>3. CASE ArchivalEnds(x)
    BY <1>2, <2>1, <2>3 DEF ArchivalEnds, Unlocked
  <2>4. CASE UNCHANGED <<archiving, keys>>
    BY <2>1, <2>4
  <2> QED
    BY <2>2, <2>3, <2>4 DEF Finishes
<1> QED
  BY <1>1, <1>3, <1>4 DEF LocksTrue

LEMMA LocksStep ==
  ASSUME Control, LocksTrue, [Next]_vars
  PROVE  LocksTrue'
<1>1. ASSUME NEW x \in Ids, NEW i \in Sent, Takes(x, i)
      PROVE  LocksTrue'
  <2>1. \A z \in Ids : "held" \in keys'[z] <=> "held" \in keys[z]
    BY <1>1 DEF Control, TypeOK, Takes
  <2> QED
    BY <1>1, <2>1, LocksKept DEF Takes, adminHist
<1>2. ASSUME NEW x \in Ids, \/ Sends(x)
                            \/ (\E k \in Agents : Spawns(x, k))
                            \/ (\E s \in Schedules : CreatesSchedule(s, x))
      PROVE  LocksTrue'
  BY <1>2, LocksKept DEF Sends, Spawns, CreatesSchedule, Adds, proc, store, adminHist
<1>3. ASSUME NEW x \in Ids, HeadStep(x)
      PROVE  LocksTrue'
  BY <1>1, <1>2, <1>3, ArchivesLocks DEF HeadStep
<1>4. CASE (\E k \in Agents : Reports(k)) \/ (\E s \in Schedules : Ticks(s))
  <2>1. UNCHANGED <<phase, loop, archiving, keys, fresh>>
    BY <1>4 DEF Reports, Ticks, proc, adminHist
  <2> QED
    BY <2>1, LocksKept
<1>5. CASE UNCHANGED vars
  BY <1>5, LocksKept DEF vars, proc, store, adminHist
<1> QED
  BY <1>3, <1>4, <1>5, AdminLocks, StartLocks DEF Next, Rests
-----------------------------------------------------------------------------
(* The theorems *)

LEMMA InitControl == Init => Control
<1> SUFFICES ASSUME Init
             PROVE  Control
  OBVIOUS
<1>1. /\ conf \in [Ids -> Heads \cup {Nobody}] /\ conf[Default] \in {0, Nobody}
      /\ HeadsDistinct
  <2>1. conf \in [Ids -> {Nobody, 0, 1, 2}] /\ born = 3
    BY DEF Init
  <2>2. \A x, y \in Ids : conf[x] # Nobody =>
          /\ conf[x] = 0 <=> x = Default
          /\ conf[x] = conf[y] => x = y
    BY DEF Init
  <2> QED
    BY <2>1, <2>2, ConstantsAssumption DEF HeadsDistinct, Heads
<1>2. TypeOK
  <2>1. Nowhere \in Row /\ Idle \in Request
    BY ConstantsAssumption DEF Nowhere, Row, Idle, Request
  <2>2. [st |-> "none", head |-> 0, id |-> Default, live |-> FALSE] \in Agent
    BY ConstantsAssumption DEF Agent, Heads
  <2> QED
    BY <1>1, <2>1, <2>2 DEF Init, TypeOK, Phases
<1> QED
  BY <1>1, <1>2
  DEF Init, Control, RequestKnown, LoopsKnown, AgentsKnown, SchedulesKnown, OnlyDeadReaped, Idle

LEMMA InitStorage == Init => Storage
<1> SUFFICES ASSUME Init
             PROVE  Storage
  OBVIOUS
<1>1. \A i \in Sent : row[i].st = "none" /\ logged[i] = {} /\ takenBy[i] = {} /\ Where(i) = {}
  BY DEF Init, Nowhere, Where
<1>2. RowsInOrder
  BY <1>1 DEF Init, RowsInOrder, Sent
<1>3. \A s \in Schedules, x \in Ids : schedule[s] # x
  BY ConstantsAssumption DEF Init
<1>4. CleanIds
  BY <1>1, <1>3 DEF Init, CleanIds
<1> QED
  BY <1>1, <1>2, <1>4
  DEF Init, Storage, DataWithHead, LoopsOwn, NoCrossTalk, OriginEmpty, InHand, Idle

\* The inductive invariant: what is known of the process and the administrator, of
\* what is stored under every id, and of the archival locks.
THEOREM InvariantHolds == Spec => []IInv
<1>1. Init => IInv
  <2>1. Init => LocksTrue
    BY DEF Init, LocksTrue
  <2> QED
    BY <2>1, InitControl, InitStorage DEF IInv
<1>2. IInv /\ [Next]_vars => IInv'
  BY ControlStep, StorageStep, LocksStep DEF IInv, Storage
<1> QED
  BY <1>1, <1>2, PTL DEF Spec

\* Type correctness of the configuration, the store and the process.
THEOREM TypeCorrect == Spec => []TypeOK
<1>1. IInv => TypeOK
  BY DEF IInv, Control
<1> QED
  BY <1>1, InvariantHolds, PTL

\* Queue and history are under the id of the head they belong to, through any
\* number of renames, deletions and restarts (dashboard/routes/heads.ts).
THEOREM DataUnderHead == Spec => []DataFollowsHead
<1>1. IInv => DataFollowsHead
  BY DEF IInv, Storage, DataWithHead, DataFollowsHead, Answers, Idle
<1> QED
  BY <1>1, InvariantHolds, PTL

\* No loop ever takes what belongs to another head and was not put where that one
\* answers, although loops keep their ids until the process is restarted.
THEOREM HeadsKeptApart == Spec => []NoCrossTalk
<1>1. IInv => NoCrossTalk
  BY DEF IInv, Storage
<1> QED
  BY <1>1, InvariantHolds, PTL

\* A head that is created, or renamed to an id, finds nothing there of an earlier one
\* but what that one's loop, or an archival of it, wrote after it had lost the id.
THEOREM FreeIdsClean == Spec => []FreeIdsAreClean
<1>1. IInv => FreeIdsAreClean
  BY DEF IInv, Storage, CleanIds, FreeIdsAreClean, Idle
<1> QED
  BY <1>1, InvariantHolds, PTL

\* A restart leaves no open row out of reach of its head's loop, and no archival lock
\* that nobody releases.
THEOREM NoneStranded == Spec => []NothingStranded
<1>1. IInv => NothingStranded
  <2> SUFFICES ASSUME IInv, phase = "serving", fresh
               PROVE  /\ \A i \in Sent \ astray : row[i].st \in {"pending", "processing"} =>
                           /\ loop[row[i].id] = ownerOf[i]
                           /\ row[i].st = "processing" => working[row[i].id] = i
                      /\ \A x \in Configured : archiving[x] = IF "held" \in keys[x] THEN 1 ELSE 0
    BY DEF NothingStranded
  <2>a. ASSUME NEW i \in Sent \ astray, row[i].st \in {"pending", "processing"}
        PROVE  /\ loop[row[i].id] = ownerOf[i]
               /\ row[i].st = "processing" => working[row[i].id] = i
    <3>1. row[i].id \in Where(i)
      BY <2>a DEF Where
    <3>2. row[i].id \in Ids /\ ownerOf[i] # Nobody
      BY <3>1, StoredHasOwner DEF IInv, Storage
    <3>3. request.op = "none"
      BY DEF IInv, Control, RequestKnown, TypeOK
    <3>4. Resolved[row[i].id] = ownerOf[i]
      BY <3>1, <3>3 DEF IInv, Storage, DataWithHead, Answers
    <3>5. loop[row[i].id] = ownerOf[i]
      BY <3>2, <3>4 DEF IInv, Control, LoopsKnown
    <3> QED
      BY <2>a, <3>2, <3>5 DEF IInv, Storage, InHand
  <2>b. \A x \in Configured : x \in Ids /\ loop[x] # Nobody
    BY DEF IInv, Control, LoopsKnown, Configured
  <2> QED
    BY <2>a, <2>b DEF IInv, LocksTrue
<1> QED
  BY <1>1, InvariantHolds, PTL

\* Startup fails no agent that is alive.
THEOREM DeadOnesReaped == Spec => []OnlyDeadReaped
<1>1. IInv => OnlyDeadReaped
  BY DEF IInv, Control
<1> QED
  BY <1>1, InvariantHolds, PTL
=============================================================================
