------------------------------ MODULE AgentLife ------------------------------
(***************************************************************************)
(* What the rest of Shrok may rely on about a background agent, whatever   *)
(* its loop is doing: it works, it may ask and be answered, it ends, its   *)
(* outcome is told at most once, and only a completed agent is continued.  *)
(* AgentRunner is shown to implement this.                                 *)
(***************************************************************************)

CONSTANT Agents

VARIABLES
  status,  \* agent -> the status column of its row
  asking,  \* agent -> pending_question is set
  told     \* agent -> whoever waits for it was told of its present outcome

lifeVars == <<status, asking, told>>

Live == {"running", "suspended"}
Ended == {"completed", "failed", "retracted"}

In(S) == {a \in Agents : status[a] \in S}

Set(a, v, q, t) ==
  /\ status' = [status EXCEPT ![a] = v]
  /\ asking' = [asking EXCEPT ![a] = q]
  /\ told' = [told EXCEPT ![a] = t]

Init ==
  /\ status = [a \in Agents |-> "none"]
  /\ asking = [a \in Agents |-> FALSE]
  /\ told = [a \in Agents |-> FALSE]

Start == \E a \in In({"none"}) : Set(a, "running", FALSE, FALSE)

Ask == \E a \in In({"running"}) : Set(a, "suspended", TRUE, FALSE)

\* An answer, or more work for an agent that completed; an agent that failed or
\* was retracted never runs again.
Resume == \E a \in In({"suspended", "completed"}) : Set(a, "running", FALSE, FALSE)

End == \E a \in In(Live), v \in Ended : Set(a, v, asking[a], FALSE)

\* The loop of a withdrawn question fails instead of being cancelled.
Lapse == \E a \in In({"retracted"}) : asking[a] /\ Set(a, "failed", TRUE, FALSE)

\* The outcome is told once.
Tell == \E a \in In({"suspended", "completed", "failed"}) :
          ~told[a] /\ Set(a, status[a], asking[a], TRUE)

\* A start of the process ends what the last one left running; a shutdown
\* ends what does not stop in time and tells nobody.
Sweep ==
  \E S \in SUBSET In({"running"}), R \in SUBSET Agents, T \in BOOLEAN :
     /\ status' = [a \in Agents |-> IF a \notin S THEN status[a]
                                    ELSE IF a \in R THEN "retracted" ELSE "failed"]
     /\ told' = [a \in Agents |-> IF a \in S THEN T /\ a \notin R ELSE told[a]]
     /\ UNCHANGED asking

\* A reset withdraws the questions that no loop waits to have answered.
Withdraw ==
  \E S \in SUBSET In({"suspended"}) :
     /\ status' = [a \in Agents |-> IF a \in S THEN "retracted" ELSE status[a]]
     /\ told' = [a \in Agents |-> told[a] /\ a \notin S]
     /\ UNCHANGED asking

\* The table is emptied.
Forget ==
  /\ status' = [a \in Agents |-> IF status[a] = "none" THEN "none" ELSE "gone"]
  /\ asking' = [a \in Agents |-> FALSE]
  /\ told' = [a \in Agents |-> FALSE]

Next == \/ Start \/ Ask \/ Resume \/ End \/ Lapse \/ Tell
        \/ Sweep \/ Withdraw \/ Forget

Spec == Init /\ [][Next]_lifeVars
=============================================================================
