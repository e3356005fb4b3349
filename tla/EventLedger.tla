---------------------------- MODULE EventLedger ----------------------------
(***************************************************************************)
(* The life of a queue_events row, as the rest of Shrok may rely on it: an *)
(* event arrives once, is taken into processing, and is then settled for   *)
(* good or handed back.  Nothing here says which head, which priority or   *)
(* what the event does; ActivationLoop is shown to implement this.         *)
(***************************************************************************)

CONSTANT Rows

VARIABLE status

Lifecycle == {"none", "pending", "processing", "done", "failed", "gone"}

LedgerTypeOK == status \in [Rows -> Lifecycle]

In(v) == {r \in Rows : status[r] = v}

Move(S, v) == status' = [r \in Rows |-> IF r \in S THEN v ELSE status[r]]

Init == status = [r \in Rows |-> "none"]

\* An event is inserted.
Arrive == \E r \in In("none") : Move({r}, "pending")

\* A loop claims one event, or coalesces several.
Take == \E S \in SUBSET In("pending") : Move(S, "processing")

\* Only what was taken can be settled.
Settle == \E S \in SUBSET In("processing"), v \in {"done", "failed"} : Move(S, v)

\* A claim is undone: released, or recovered at a restart.
Return == \E S \in SUBSET In("processing") : Move(S, "pending")

\* The table is emptied by a reset.
Wipe == Move(Rows \ In("none"), "gone")

Next == Arrive \/ Take \/ Settle \/ Return \/ Wipe

Spec == Init /\ [][Next]_status
=============================================================================
