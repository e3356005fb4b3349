------------------------------ MODULE RingRunner ------------------------------
(***************************************************************************)
(* The ring of one Home Assistant channel: RingRunner in                   *)
(* src/src/ring/runner.ts, the calls that several tool calls and agents     *)
(* make to it at once, and the cleanup at startup.  Every request to Home   *)
(* Assistant is an await.                                                   *)
(***************************************************************************)
EXTENDS Naturals, FiniteSets

CONSTANTS
  Calls,   \* calls of start() and stop()
  NoCall   \* not one of them

\* Where a call is: the request it waits for.
Places == {"unused", "derive", "volume", "play", "light", "silence", "dark", "over"}

VARIABLES
  at,       \* call -> Places
  slot,     \* the call whose timers are in the slots map, or NoCall
  polling,  \* calls whose poll timer has not been cleared
  capped,   \* calls whose cap timer has not been cleared
  asking,   \* calls whose poll waits for the player's state
  record,   \* the ring is in the store
  playing,  \* the player sounds
  up

vars == <<at, slot, polling, capped, asking, record, playing, up>>

TypeOK ==
  /\ at \in [Calls -> Places]
  /\ slot \in Calls \cup {NoCall}
  /\ polling \in SUBSET Calls
  /\ capped \in SUBSET Calls
  /\ asking \in SUBSET Calls
  /\ record \in BOOLEAN
  /\ playing \in BOOLEAN
  /\ up \in BOOLEAN

Goto(c, where) == at' = [at EXCEPT ![c] = where]
At(c, where) == up /\ at[c] = where
timers == <<slot, polling, capped, asking>>
-----------------------------------------------------------------------------
(* start() *)

\* The guard looks at slots, which start() fills only at its end.
Starts(c) ==
  /\ At(c, "unused")
  /\ Goto(c, IF slot # NoCall THEN "over" ELSE "derive")
  /\ UNCHANGED <<timers, record, playing, up>>

Derives(c) == At(c, "derive") /\ Goto(c, "volume") /\ UNCHANGED <<timers, record, playing, up>>
SetsVolume(c) == At(c, "volume") /\ Goto(c, "play") /\ UNCHANGED <<timers, record, playing, up>>

\* A request that times out is taken for done.
Plays(c) ==
  /\ At(c, "play")
  /\ Goto(c, "light")
  /\ playing' \in {playing, TRUE}
  /\ UNCHANGED <<timers, record, up>>

\* The last request, then the record and both timers.
Rings(c) ==
  /\ At(c, "light")
  /\ Goto(c, "over")
  /\ record' = TRUE
  /\ slot' = c
  /\ polling' = polling \cup {c}
  /\ capped' = capped \cup {c}
  /\ UNCHANGED <<asking, playing, up>>

\* An error of Home Assistant ends start() wherever it is.
StartFails(c) ==
  /\ up /\ at[c] \in {"derive", "volume", "play", "light"}
  /\ Goto(c, "over")
  /\ UNCHANGED <<timers, record, playing, up>>
-----------------------------------------------------------------------------
(* stop() *)

\* The timers of the slot are cleared before anything is awaited.
ClearsSlot ==
  /\ slot' = NoCall
  /\ polling' = polling \ {slot}
  /\ capped' = capped \ {slot}

\* Without a record there is no player to silence.
Stops(c) ==
  /\ At(c, "unused")
  /\ ClearsSlot
  /\ Goto(c, IF record THEN "silence" ELSE "over")
  /\ UNCHANGED <<asking, record, playing, up>>

Silences(c) ==
  /\ At(c, "silence")
  /\ Goto(c, "dark")
  /\ playing' \in {playing, FALSE}
  /\ UNCHANGED <<timers, record, up>>

Forgets(c) ==
  /\ At(c, "dark")
  /\ Goto(c, "over")
  /\ record' = FALSE
  /\ UNCHANGED <<timers, playing, up>>

\* The cap timer of t fires: a stop() like any other.
CapFires(t, c) ==
  /\ t \in capped /\ At(c, "unused")
  /\ slot' = NoCall
  /\ polling' = polling \ {slot}
  /\ capped' = capped \ {slot, t}
  /\ Goto(c, IF record THEN "silence" ELSE "over")
  /\ UNCHANGED <<asking, record, playing, up>>
-----------------------------------------------------------------------------
(* The poll timer *)

PollAsks(t) ==
  /\ up /\ t \in polling
  /\ asking' = asking \cup {t}
  /\ UNCHANGED <<at, slot, polling, capped, record, playing, up>>

\* A player that has run out plays again; the answer may come after stop().
PollAnswered(t) ==
  /\ up /\ t \in asking
  /\ asking' = asking \ {t}
  /\ playing' \in {playing, TRUE}
  /\ UNCHANGED <<at, slot, polling, capped, record, up>>

SoundEnds == playing /\ playing' = FALSE /\ UNCHANGED <<at, timers, record, up>>
-----------------------------------------------------------------------------
Crash ==
  /\ up /\ up' = FALSE
  /\ slot' = NoCall /\ polling' = {} /\ capped' = {} /\ asking' = {}
  /\ at' = [c \in Calls |-> IF at[c] = "unused" THEN "unused" ELSE "over"]
  /\ UNCHANGED <<record, playing>>

\* Startup stops the player of a record, and forgets it whether that works or not.
Boots ==
  /\ ~up /\ up' = TRUE
  /\ playing' \in (IF record THEN {playing, FALSE} ELSE {playing})
  /\ record' = FALSE
  /\ UNCHANGED <<at, timers>>

Init ==
  /\ at = [c \in Calls |-> "unused"]
  /\ slot = NoCall
  /\ polling = {} /\ capped = {} /\ asking = {}
  /\ record = FALSE /\ playing = FALSE
  /\ up = TRUE

Next ==
  \/ \E c \in Calls :
        \/ Starts(c) \/ Derives(c) \/ SetsVolume(c) \/ Plays(c) \/ Rings(c)
        \/ StartFails(c)
        \/ Stops(c) \/ Silences(c) \/ Forgets(c)
        \/ PollAsks(c) \/ PollAnswered(c)
        \/ \E t \in Calls : CapFires(t, c)
  \/ SoundEnds \/ Crash \/ Boots

Spec == Init /\ [][Next]_vars
-----------------------------------------------------------------------------
(* Properties *)

\* runner.ts: a second start() while already ringing is a no-op, so stop() has one
\* poll timer to clear.
SecondStartIsNoOp == Cardinality(polling) <= 1
=============================================================================
