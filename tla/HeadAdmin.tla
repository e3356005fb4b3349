------------------------------ MODULE HeadAdmin ------------------------------
(***************************************************************************)
(* Several heads in one process, and the administrator who creates, renames *)
(* and deletes them while their loops run: the requests of                  *)
(* src/src/dashboard/routes/heads.ts, the heads of config.json, what is kept *)
(* under a head's id (queue rows, history, app state, schedules), and the    *)
(* startup of src/src/index.ts, which gives every configured head a loop and *)
(* reaps the agents that a dead process left behind.                        *)
(*                                                                          *)
(* The code knows a head by its id only.  The model numbers the heads, so    *)
(* that it can say whose a row is when ids are moved and used again.  Loops  *)
(* keep the id they were started with; requests take effect at a restart.    *)
(***************************************************************************)
EXTENDS Naturals, FiniteSets

CONSTANTS
  Ids,         \* the ids a head may have
  Default,     \* the id "default", which requests neither give nor take away
  Nobody,      \* no head
  Agents,      \* agents that a loop may start
  Schedules,   \* rows of the schedule store
  MaxSent,     \* bound: queue rows that are ever inserted
  MaxArchivals, \* bound: loops that have an archival under way at once
  MaxChanges,  \* bound: requests of the administrator
  MaxCrashes   \* bound: times the process ends

ASSUME ConstantsAssumption ==
  /\ Default \in Ids
  /\ Nobody \notin Nat \cup Ids
  /\ MaxSent \in Nat
  /\ MaxArchivals \in Nat
  /\ MaxChanges \in Nat
  /\ MaxCrashes \in Nat

Heads == Nat            \* 0 is the default head
Sent == 1 .. MaxSent

\* "held" is no key: it says that the value of the archival lock is 'true'.
Keys == {"archival_lock", "held", "last_active_channel"}

Nowhere == [id |-> Default, st |-> "none"]
Row == [id : Ids, st : {"none", "pending", "processing", "done"}]

Agent == [st : {"none", "running", "ended"}, head : Heads, id : Ids, live : BOOLEAN]

Idle == [op |-> "none", from |-> Default, to |-> Default]
Request == [op : {"none", "delete", "rename"}, from : Ids, to : Ids]

Phases == {"down", "starting", "ready", "serving"}

VARIABLES
  conf,      \* heads[] of config.json: id -> head, or Nobody
  request,   \* the request between two of its writes
  phase,     \* of the process
  todo,      \* ids whose head is still to be set up
  loop,      \* id -> the head whose loop has it, or Nobody
  working,   \* id -> the row its loop has in hand, or 0
  archiving, \* id -> archivals that its loop has under way
  row,       \* queue_events
  logged,    \* messages: row -> ids under which its text is in the history
  keys,      \* app_state: id -> the keys stored with it
  schedule,  \* the schedule store: schedule -> the id of its row, or Nobody
  agent,     \* agents
  sent,      \* rows inserted so far
  born,      \* heads so far
  changes,   \* requests so far
  crashes,   \* ends of the process so far
  ownerOf,   \* row -> the head it is meant for (history)
  madeFor,   \* schedule -> the head that made it (history)
  takenBy,   \* row -> heads whose loops took it (history)
  astray,    \* rows that were put, or moved, where another head answers (history)
  stray,     \* ids under which something was written that is not their head's (history)
  left,      \* ids from which a head with schedules was renamed (history)
  fresh,     \* no request since the process started (history)
  liveReaped \* an agent was reaped while it was at work (history)

store == <<row, logged, keys>>
proc == <<phase, todo, loop, working, archiving>>
counts == <<sent, born, changes, crashes>>
rowHist == <<ownerOf, takenBy, astray, stray>>
adminHist == <<madeFor, left, fresh, liveReaped>>
vars == <<conf, request, proc, store, schedule, agent, counts, rowHist, adminHist>>

TypeOK ==
  /\ conf \in [Ids -> Heads \cup {Nobody}]
  /\ conf[Default] \in {0, Nobody}
  /\ request \in Request
  /\ phase \in Phases
  /\ todo \in SUBSET Ids
  /\ loop \in [Ids -> Heads \cup {Nobody}]
  /\ working \in [Ids -> Sent \cup {0}]
  /\ archiving \in [Ids -> Nat]
  /\ row \in [Sent -> Row]
  /\ logged \in [Sent -> SUBSET Ids]
  /\ keys \in [Ids -> SUBSET Keys]
  /\ schedule \in [Schedules -> Ids \cup {Nobody}]
  /\ agent \in [Agents -> Agent]
  /\ sent \in Nat /\ born \in Nat /\ changes \in Nat /\ crashes \in Nat
  /\ ownerOf \in [Sent -> Heads \cup {Nobody}]
  /\ madeFor \in [Schedules -> Heads \cup {Nobody}]
  /\ takenBy \in [Sent -> SUBSET Heads]
  /\ astray \in SUBSET Sent
  /\ stray \in SUBSET Ids
  /\ left \in SUBSET Ids
  /\ fresh \in BOOLEAN
  /\ liveReaped \in BOOLEAN
-----------------------------------------------------------------------------
(* The configured heads *)

\* resolveHeads(): without a head in config.json there is the default head.
Resolved == IF \A x \in Ids : conf[x] = Nobody THEN [conf EXCEPT ![Default] = 0] ELSE conf

Configured == {x \in Ids : Resolved[x] # Nobody}

\* A loop of another head has the id, or no head does: what is put there for h
\* may be taken by somebody else, or by nobody.
NotAlone(x, h) == Resolved[x] # h \/ loop[x] \notin {h, Nobody}

Running(k) == agent[k].st = "running"

\* Startup reaps without waiting for anything in between.
Reaping == phase = "starting" /\ (\E x \in Ids : loop[x] # Nobody) /\ \E k \in Agents : Running(k)

\* JavaScript runs one thing at a time.
Free == phase # "down" /\ request = Idle /\ ~Reaping

\* An agent that is at work keeps a row for its report.
Room == sent + Cardinality({k \in Agents : Running(k)}) < MaxSent

\* tryAcquireArchivalLock() and releaseArchivalLock(), which write the key in any case
Locked(ks) == ks \cup {"archival_lock", "held"}
Unlocked(ks) == (ks \ {"held"}) \cup {"archival_lock"}

\* QueueStore.enqueue() under id x of something that is meant for h
Enqueue(x, h) ==
  LET i == sent + 1 IN
  /\ i <= MaxSent
  /\ sent' = i
  /\ row' = [row EXCEPT ![i] = [id |-> x, st |-> "pending"]]
  /\ ownerOf' = [ownerOf EXCEPT ![i] = h]
  /\ astray' = IF NotAlone(x, h) THEN astray \cup {i} ELSE astray
  /\ stray' = IF Resolved[x] # h THEN stray \cup {x} ELSE stray
-----------------------------------------------------------------------------
(* The administrator *)

Asks ==
  /\ Free /\ phase \in {"ready", "serving"}
  /\ changes < MaxChanges /\ changes' = changes + 1
  /\ fresh' = FALSE

\* Mutant of Creates: the reserved id is not refused.
CreatesAny(x) ==
  /\ Asks
  /\ x \notin Configured
  /\ conf' = [Resolved EXCEPT ![x] = born]
  /\ born' = born + 1
  /\ UNCHANGED <<request, proc, store, schedule, agent, sent, crashes, rowHist,
                 madeFor, left, liveReaped>>

\* POST /api/heads.  The first change writes the default head into config.json.
Creates(x) ==
  /\ Asks
  /\ x # Default /\ x \notin Configured
  /\ conf' = [Resolved EXCEPT ![x] = born]
  /\ born' = born + 1
  /\ UNCHANGED <<request, proc, store, schedule, agent, sent, crashes, rowHist,
                 madeFor, left, liveReaped>>

\* Mutant of Wiped: the queue keeps the rows of the head.
WipedButQueue(x) ==
  /\ UNCHANGED row
  /\ logged' = [i \in Sent |-> logged[i] \ {x}]
  /\ keys' = [keys EXCEPT ![x] = {}]

\* The transaction of DELETE
Wiped(x) ==
  /\ row' = [i \in Sent |-> IF row[i].id = x THEN Nowhere ELSE row[i]]
  /\ logged' = [i \in Sent |-> logged[i] \ {x}]
  /\ keys' = [keys EXCEPT ![x] = {}]

\* DELETE /api/heads/:id: the transaction first,
Deletes(x) ==
  /\ Asks
  /\ x # Default /\ x \in Configured
  /\ Wiped(x)
  /\ request' = [op |-> "delete", from |-> x, to |-> x]
  /\ UNCHANGED <<conf, proc, schedule, agent, sent, born, crashes, rowHist,
                 madeFor, left, liveReaped>>

\* then the files of the schedules, one after the other,
DeletesSchedule(s) ==
  /\ phase # "down" /\ request.op = "delete"
  /\ schedule[s] = request.from
  /\ schedule' = [schedule EXCEPT ![s] = Nobody]
  /\ madeFor' = [madeFor EXCEPT ![s] = Nobody]
  /\ UNCHANGED <<conf, request, proc, store, agent, counts, rowHist, left, fresh, liveReaped>>

\* Mutant of SchedulesGone: config.json is rewritten before the schedules are deleted.
SchedulesUnseen(x) == TRUE

SchedulesGone(x) == \A s \in Schedules : schedule[s] # x

\* and config.json last, so that a request cut short can be repeated.
Deleted ==
  /\ phase # "down" /\ request.op = "delete"
  /\ SchedulesGone(request.from)
  /\ conf' = [conf EXCEPT ![request.from] = Nobody]
  /\ request' = Idle
  /\ stray' = stray \ {request.from}
  /\ left' = left \ {request.from}
  /\ UNCHANGED <<proc, store, schedule, agent, counts, ownerOf, takenBy, astray,
                 madeFor, fresh, liveReaped>>

\* Mutant of Moved: the queue is forgotten.
MovedButQueue(x, y) ==
  /\ UNCHANGED row
  /\ logged' = [i \in Sent |-> IF x \in logged[i] THEN (logged[i] \ {x}) \cup {y} ELSE logged[i]]
  /\ keys' = [keys EXCEPT ![x] = {}, ![y] = @ \cup keys[x]]

\* Mutant of Moved: the history is forgotten.
MovedButHistory(x, y) ==
  /\ row' = [i \in Sent |-> IF row[i].id = x THEN [row[i] EXCEPT !.id = y] ELSE row[i]]
  /\ UNCHANGED logged
  /\ keys' = [keys EXCEPT ![x] = {}, ![y] = @ \cup keys[x]]

\* Mutant of Moved: the app state is copied.
MovedButKeys(x, y) ==
  /\ row' = [i \in Sent |-> IF row[i].id = x THEN [row[i] EXCEPT !.id = y] ELSE row[i]]
  /\ logged' = [i \in Sent |-> IF x \in logged[i] THEN (logged[i] \ {x}) \cup {y} ELSE logged[i]]
  /\ keys' = [keys EXCEPT ![y] = @ \cup keys[x]]

\* The three updates of PATCH
Moved(x, y) ==
  /\ row' = [i \in Sent |-> IF row[i].id = x THEN [row[i] EXCEPT !.id = y] ELSE row[i]]
  /\ logged' = [i \in Sent |-> IF x \in logged[i] THEN (logged[i] \ {x}) \cup {y} ELSE logged[i]]
  /\ keys' = [keys EXCEPT ![x] = {}, ![y] = @ \cup keys[x]]

\* PATCH /api/heads/:id with a new id.  A key that already is there under the new
\* id makes the transaction fail, and the request with it.
Renames(x, y) ==
  /\ Asks
  /\ x # Default /\ x \in Configured
  /\ y # Default /\ y \notin Configured
  /\ keys[x] \cap keys[y] = {}
  /\ Moved(x, y)
  /\ request' = [op |-> "rename", from |-> x, to |-> y]
  /\ astray' = astray \cup {i \in Sent : row[i].id = x /\ loop[y] \notin {ownerOf[i], Nobody}}
  /\ UNCHANGED <<conf, proc, schedule, agent, sent, born, crashes, ownerOf, takenBy, stray,
                 madeFor, left, liveReaped>>

Renamed ==
  LET x == request.from
      y == request.to IN
  /\ phase # "down" /\ request.op = "rename"
  /\ conf' = [conf EXCEPT ![x] = Nobody, ![y] = conf[x]]
  /\ request' = Idle
  /\ left' = IF SchedulesGone(x) THEN left ELSE left \cup {x}
  /\ UNCHANGED <<proc, store, schedule, agent, counts, rowHist, madeFor, fresh, liveReaped>>
-----------------------------------------------------------------------------
(* Startup, one head after the other *)

Boots ==
  /\ phase = "down" /\ phase' = "starting"
  /\ todo' = Configured
  /\ fresh' = TRUE
  /\ UNCHANGED <<conf, request, loop, working, archiving, store, schedule, agent, counts, rowHist,
                 madeFor, left, liveReaped>>

\* Mutant of Requeued: the rows that were in hand are left as they are.
NotRequeued(x) == UNCHANGED row

\* requeueStale()
Requeued(x) ==
  row' = [i \in Sent |-> IF row[i].id = x /\ row[i].st = "processing"
                         THEN [row[i] EXCEPT !.st = "pending"] ELSE row[i]]

\* The archival lock is released, and written, whether it was held or not.
SetsUp(x) ==
  /\ phase = "starting" /\ ~Reaping
  /\ x \in todo
  /\ todo' = todo \ {x}
  /\ loop' = [loop EXCEPT ![x] = Resolved[x]]
  /\ Requeued(x)
  /\ keys' = [keys EXCEPT ![x] = Unlocked(@)]
  /\ UNCHANGED <<conf, request, phase, working, archiving, logged, schedule, agent, counts,
                 rowHist, adminHist>>

\* Agents that are marked as running are taken for dead, whichever head's they
\* are: the first head that is set up fails them all and is told of it.  One
\* that was being cancelled is reported to nobody.
Reaps(x, k) ==
  /\ Reaping /\ Running(k)
  /\ loop[x] # Nobody
  /\ agent' = [agent EXCEPT ![k].st = "ended", ![k].live = FALSE]
  /\ liveReaped' = (liveReaped \/ agent[k].live)
  /\ \/ Enqueue(x, agent[k].head) /\ UNCHANGED <<logged, keys, takenBy>>
     \/ UNCHANGED <<store, sent, rowHist>>
  /\ UNCHANGED <<conf, request, proc, schedule, born, changes, crashes, madeFor, left, fresh>>

\* The scheduler and the dashboard are started, and then the loops.
Opens ==
  /\ phase = "starting" /\ ~Reaping /\ todo = {}
  /\ phase' = "ready"
  /\ UNCHANGED <<conf, request, todo, loop, working, archiving, store, schedule, agent, counts,
                 rowHist, adminHist>>

StartsLoops ==
  /\ Free /\ phase = "ready"
  /\ phase' = "serving"
  /\ UNCHANGED <<conf, request, todo, loop, working, archiving, store, schedule, agent, counts,
                 rowHist, adminHist>>

\* The process dies or is restarted, maybe between two writes of a request: the
\* rows and the history of a head may then be under an id that no head has.
Dies ==
  /\ phase # "down" /\ phase' = "down"
  /\ crashes < MaxCrashes /\ crashes' = crashes + 1
  /\ request' = Idle
  /\ todo' = {}
  /\ loop' = [x \in Ids |-> Nobody]
  /\ working' = [x \in Ids |-> 0]
  /\ archiving' = [x \in Ids |-> 0]
  /\ agent' = [k \in Agents |-> [agent[k] EXCEPT !.live = FALSE]]
  /\ IF request.op = "rename"
     THEN /\ stray' = stray \cup {request.to}
          /\ astray' = astray \cup {i \in Sent : request.to \in {row[i].id} \cup logged[i]}
     ELSE UNCHANGED <<stray, astray>>
  /\ UNCHANGED <<conf, store, schedule, sent, born, changes, ownerOf, takenBy, adminHist>>
-----------------------------------------------------------------------------
(* The heads at work *)

\* Mutant of LoopsRun: every loop is started as soon as its head is set up.
LoopsRunEarly == Free

LoopsRun == Free /\ phase = "serving"

\* A message for a head, from its user or from another head of the roster, goes
\* to the id that the head had at startup.
Sends(x) ==
  /\ Free /\ loop[x] # Nobody
  /\ Room
  /\ Enqueue(x, loop[x])
  /\ UNCHANGED <<conf, request, proc, logged, keys, schedule, agent, born, changes, crashes,
                 takenBy, adminHist>>

\* The loop of x puts row i into the history, under the id it knows.
Logs(x, i) ==
  /\ logged' = [logged EXCEPT ![i] = @ \cup {x}]
  /\ IF Resolved[x] = loop[x] THEN UNCHANGED <<astray, stray>>
     ELSE astray' = astray \cup {i} /\ stray' = stray \cup {x}

\* A user's message also makes its channel the active one.
Takes(x, i) ==
  /\ LoopsRun /\ loop[x] # Nobody /\ working[x] = 0
  /\ row[i] = [id |-> x, st |-> "pending"]
  /\ row' = [row EXCEPT ![i].st = "processing"]
  /\ working' = [working EXCEPT ![x] = i]
  /\ takenBy' = [takenBy EXCEPT ![i] = @ \cup {loop[x]}]
  /\ \E ks \in {{}, {"last_active_channel"}} : keys' = [keys EXCEPT ![x] = @ \cup ks]
  /\ Logs(x, i)
  /\ UNCHANGED <<conf, request, phase, todo, loop, archiving, schedule, agent, counts, ownerOf,
                 adminHist>>

\* What the loop of x puts under its id lies where another head or none has it.
Soils(x) == stray' = IF Resolved[x] = loop[x] THEN stray ELSE stray \cup {x}

\* With a long history the lock is taken under the id that the loop knows, and an
\* archival goes on beside the loop.
Archives(x) ==
  /\ "held" \notin keys[x]
  /\ Cardinality({y \in Ids : archiving[y] # 0}) < MaxArchivals
  /\ archiving' = [archiving EXCEPT ![x] = @ + 1]
  /\ keys' = [keys EXCEPT ![x] = Locked(@)]

\* The row is acknowledged by its own id, wherever it is by now.
Finishes(x) ==
  LET i == working[x] IN
  /\ LoopsRun /\ i # 0
  /\ row' = IF row[i].st = "none" THEN row ELSE [row EXCEPT ![i].st = "done"]
  /\ working' = [working EXCEPT ![x] = 0]
  /\ Logs(x, i)
  /\ Archives(x) \/ UNCHANGED <<archiving, keys>>
  /\ UNCHANGED <<conf, request, phase, todo, loop, schedule, agent, counts,
                 ownerOf, takenBy, adminHist>>

\* It ends, well or not: maybe a note goes into the history, and the lock is released, both
\* under the id that the loop knows.  (What was archived leaves the history by the ids
\* of its messages, wherever they are by now; nothing here asks for a text to be kept.)
ArchivalEnds(x) ==
  /\ Free /\ archiving[x] # 0
  /\ archiving' = [archiving EXCEPT ![x] = @ - 1]
  /\ keys' = [keys EXCEPT ![x] = Unlocked(@)]
  /\ Soils(x)
  /\ UNCHANGED <<conf, request, phase, todo, loop, working, row, logged, schedule, agent, counts,
                 ownerOf, takenBy, astray, adminHist>>

Spawns(x, k) ==
  /\ LoopsRun /\ working[x] # 0
  /\ agent[k].st = "none" /\ Room
  /\ agent' = [agent EXCEPT ![k] = [st |-> "running", head |-> loop[x], id |-> x, live |-> TRUE]]
  /\ UNCHANGED <<conf, request, proc, store, schedule, counts, rowHist, adminHist>>

\* An agent reports to the id under which it was started.
Reports(k) ==
  /\ Free /\ Running(k) /\ agent[k].live
  /\ agent' = [agent EXCEPT ![k].st = "ended", ![k].live = FALSE]
  /\ Enqueue(agent[k].id, agent[k].head)
  /\ UNCHANGED <<conf, request, proc, logged, keys, schedule, born, changes, crashes,
                 takenBy, adminHist>>

Adds(s, x, h) ==
  /\ schedule[s] = Nobody
  /\ schedule' = [schedule EXCEPT ![s] = x]
  /\ madeFor' = [madeFor EXCEPT ![s] = h]
  /\ UNCHANGED <<conf, request, proc, store, agent, counts, ownerOf, takenBy, astray,
                 left, fresh, liveReaped>>

\* create_schedule of a head or its agents, and POST of the dashboard
CreatesSchedule(s, x) ==
  \/ /\ LoopsRun /\ working[x] # 0
     /\ Adds(s, x, loop[x])
     /\ Soils(x)
  \/ /\ Free /\ phase \in {"ready", "serving"} /\ x \in Configured
     /\ Adds(s, x, Resolved[x])
     /\ UNCHANGED stray

\* One due row of the scheduler's tick, of whichever head
Ticks(s) ==
  /\ Free /\ phase \in {"ready", "serving"}
  /\ schedule[s] # Nobody /\ Room
  /\ Enqueue(schedule[s], madeFor[s])
  /\ UNCHANGED <<conf, request, proc, logged, keys, schedule, agent, born, changes, crashes,
                 takenBy, adminHist>>

\* Nobody has anything to do.
Rests == Free /\ phase = "serving" /\ UNCHANGED vars
-----------------------------------------------------------------------------
\* Any configuration, of up to two named heads, that somebody wrote; no data yet.
Init ==
  /\ conf \in [Ids -> {Nobody, 0, 1, 2}]
  /\ \A x, y \in Ids : conf[x] # Nobody =>
       /\ conf[x] = 0 <=> x = Default
       /\ conf[x] = conf[y] => x = y
  /\ request = Idle
  /\ phase = "down"
  /\ todo = {}
  /\ loop = [x \in Ids |-> Nobody]
  /\ working = [x \in Ids |-> 0]
  /\ archiving = [x \in Ids |-> 0]
  /\ row = [i \in Sent |-> Nowhere]
  /\ logged = [i \in Sent |-> {}]
  /\ keys = [x \in Ids |-> {}]
  /\ schedule = [s \in Schedules |-> Nobody]
  /\ agent = [k \in Agents |-> [st |-> "none", head |-> 0, id |-> Default, live |-> FALSE]]
  /\ sent = 0
  /\ born = 3
  /\ changes = 0
  /\ crashes = 0
  /\ ownerOf = [i \in Sent |-> Nobody]
  /\ madeFor = [s \in Schedules |-> Nobody]
  /\ takenBy = [i \in Sent |-> {}]
  /\ astray = {}
  /\ stray = {}
  /\ left = {}
  /\ fresh = TRUE
  /\ liveReaped = FALSE

AdminStep ==
  \/ \E x \in Ids : Creates(x) \/ Deletes(x) \/ \E y \in Ids : Renames(x, y)
  \/ (\E s \in Schedules : DeletesSchedule(s)) \/ Deleted \/ Renamed

StartStep ==
  \/ Boots \/ Opens \/ StartsLoops \/ Dies
  \/ \E x \in Ids : SetsUp(x) \/ \E k \in Agents : Reaps(x, k)

HeadStep(x) ==
  \/ Sends(x) \/ (\E i \in Sent : Takes(x, i)) \/ Finishes(x)
  \/ ArchivalEnds(x)
  \/ (\E k \in Agents : Spawns(x, k)) \/ (\E s \in Schedules : CreatesSchedule(s, x))

Next ==
  \/ AdminStep \/ StartStep
  \/ \E x \in Ids : HeadStep(x)
  \/ (\E k \in Agents : Reports(k)) \/ (\E s \in Schedules : Ticks(s))
  \/ Rests

Spec == Init /\ [][Next]_vars
-----------------------------------------------------------------------------
(* Properties *)

Where(i) == logged[i] \cup (IF row[i].st = "none" THEN {} ELSE {row[i].id})

\* A head's queue and history go where the head goes, through renames, restarts
\* and requests cut short, and go away with it: what was not written to a foreign
\* place, or left half moved by a crash, is under the id of its head.
DataFollowsHead ==
  request = Idle => \A i \in Sent \ astray : \A x \in Where(i) : Resolved[x] = ownerOf[i]

\* Nothing that was put where only its head answers is ever taken by another head,
\* although ids are moved and used again.
NoCrossTalk == \A i \in Sent \ astray : takenBy[i] \subseteq {ownerOf[i]}

\* An id that no head has is clean, so that a head created or renamed there starts
\* with its own data only: a delete that was cut short leaves its head configured and
\* can be repeated.  A loop that outlived the change of its id may soil it, and so
\* may the archivals it has under way; a rename leaves the schedules behind.
FreeIdsAreClean ==
  request = Idle =>
    \A x \in Ids \ Configured :
      x \notin stray =>
        /\ keys[x] = {}
        /\ \A i \in Sent : x \notin Where(i)
        /\ x \in left \/ \A s \in Schedules : schedule[s] # x

\* After a restart every open row of a configured head is within reach of that
\* head's loop, no row is taken for being in hand that nobody has in hand, and the
\* archival lock of a head is held for one archival that is under way, or free.
NothingStranded ==
  phase = "serving" /\ fresh =>
    /\ \A i \in Sent \ astray :
         LET x == row[i].id IN
         row[i].st \in {"pending", "processing"} =>
           /\ loop[x] = ownerOf[i]
           /\ row[i].st = "processing" => working[x] = i
    /\ \A x \in Configured : archiving[x] = IF "held" \in keys[x] THEN 1 ELSE 0

\* Startup fails only agents of the process before, since no loop runs until all
\* heads are set up.
OnlyDeadReaped == ~liveReaped
=============================================================================
