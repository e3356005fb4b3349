------------------------------- MODULE ToolLoop -------------------------------
(***************************************************************************)
(* runToolLoop() of src/src/llm/tool-loop.ts: rounds of a model call and    *)
(* the tool calls it asks for, the detector that suspects a loop, and the   *)
(* steward that is asked before an agent is nudged and then stopped.        *)
(* A call is a tool with its input; a round runs its calls in parallel.     *)
(***************************************************************************)
EXTENDS Naturals, FiniteSets, SequencesExt

CONSTANTS
  Calls,            \* tool name and input of a tool call
  Terminal,         \* those of a terminal tool
  MaxCalls,         \* bound: calls of one round
  MaxRounds,        \* options.maxRounds, bounded here
  SameArgsTrigger,  \* rounds with the same call before the steward is asked
  ErrorTrigger,     \* errors of the same call before it is
  PostNudgeErrorTrigger, \* the same once the agent was nudged
  Interruptible     \* the caller gives an abort signal and onRoundComplete: an agent

ASSUME ConstantsAssumption ==
  /\ Terminal \subseteq Calls
  /\ MaxCalls \in Nat \ {0}
  /\ MaxRounds \in Nat \ {0}
  /\ SameArgsTrigger \in Nat \ {0}
  /\ ErrorTrigger \in Nat \ {0}
  /\ PostNudgeErrorTrigger \in Nat \ {0}
  /\ Interruptible \in BOOLEAN

\* A round: its calls in order, each with whether it failed.
Result == [call : Calls, failed : BOOLEAN]
Rounds == UNION {[1 .. n -> Result] : n \in 1 .. MaxCalls}

CallsOf(r) == {r[i].call : i \in DOMAIN r}

Ended == {"returned", "failed", "aborted", "stopped", "spent"}
Places == {"top", "model", "tools", "steward", "closing"} \cup Ended

VARIABLES
  at,                 \* where the loop is, or how it ended
  rounds,             \* completed rounds
  recentFingerprints, \* the calls of the last rounds, newest first
  consecutiveErrors,  \* call -> errors since it succeeded
  nudgeSent,
  signal,             \* abortSignal.aborted
  round,              \* the round that is being run
  all,                \* the rounds so far (history)
  since,              \* how many of them the agent had made when it was nudged (history)
  asked,              \* the steward was asked about this round (history)
  lenient             \* the steward has let the agent go on (history)

detector == <<recentFingerprints, consecutiveErrors, nudgeSent>>
histories == <<all, since, asked, lenient>>
vars == <<at, rounds, detector, signal, round, histories>>

TypeOK ==
  /\ at \in Places
  /\ rounds \in 0 .. MaxRounds
  /\ Len(recentFingerprints) <= SameArgsTrigger
  /\ \A i \in DOMAIN recentFingerprints : recentFingerprints[i] \subseteq Calls
  /\ consecutiveErrors \in [Calls -> Nat]
  /\ nudgeSent \in BOOLEAN
  /\ signal \in BOOLEAN
  /\ round \in Rounds \cup {<<>>}
  /\ \A i \in DOMAIN all : all[i] \in Rounds
  /\ since \in 0 .. Len(all)
  /\ asked \in BOOLEAN
  /\ lenient \in BOOLEAN
-----------------------------------------------------------------------------
(* The detector *)

\* Mutant of Window: the oldest round is never dropped.
WindowGrows(fs, r) == <<CallsOf(r)>> \o fs

\* recentFingerprints after round r
Window(fs, r) ==
  LET longer == <<CallsOf(r)>> \o fs
  IN SubSeq(longer, 1, IF Len(longer) > SameArgsTrigger THEN SameArgsTrigger ELSE Len(longer))

\* Trigger A: a call of the newest round is in every round of a full window.
SameArgs(fs) ==
  /\ Len(fs) = SameArgsTrigger
  /\ \E c \in fs[1] : \A i \in DOMAIN fs : c \in fs[i]

\* Mutant of Errors: the counter is kept under the bare tool name, whatever the input.
ErrorsOfAnyInput(es, r) ==
  LET after[n \in 0 .. Len(r)] ==
        IF n = 0 THEN es
        ELSE IF r[n].failed THEN [c \in Calls |-> after[n - 1][c] + 1]
        ELSE [after[n - 1] EXCEPT ![r[n].call] = 0]
  IN after[Len(r)]

\* consecutiveErrors after round r: results are taken in the order of the calls,
\* so a call that a round repeats counts twice, or is reset by a later success.
Errors(es, r) ==
  LET after[n \in 0 .. Len(r)] ==
        IF n = 0 THEN es
        ELSE [after[n - 1] EXCEPT ![r[n].call] = IF r[n].failed THEN @ + 1 ELSE 0]
  IN after[Len(r)]

Progress(r) == \E i \in DOMAIN r : ~r[i].failed

Trigger == IF nudgeSent THEN PostNudgeErrorTrigger ELSE ErrorTrigger

\* Mutant of SameError: a round that got something done is no excuse.
SameErrorAnyway(es, r) == \E i \in DOMAIN r : es[r[i].call] >= Trigger

\* Trigger B: a round without any success in which some call has failed often.
SameError(es, r) == ~Progress(r) /\ \E i \in DOMAIN r : es[r[i].call] >= Trigger

NoErrors == [c \in Calls |-> 0]
-----------------------------------------------------------------------------
(* The loop *)

\* maxRounds and the signal are looked at before a round.
Enters ==
  /\ at = "top"
  /\ at' = IF rounds >= MaxRounds THEN "spent" ELSE IF signal THEN "aborted" ELSE "model"
  /\ UNCHANGED <<rounds, detector, signal, round, histories>>

\* The model answers; nobody looks at the signal.
Answers ==
  /\ at = "model"
  /\ at' = "returned"
  /\ UNCHANGED <<rounds, detector, signal, round, histories>>

\* The provider fails.
Fails ==
  /\ at = "model"
  /\ at' = "failed"
  /\ UNCHANGED <<rounds, detector, signal, round, histories>>

\* The model calls tools; each of them returns or throws.
Executes ==
  /\ at = "model"
  /\ at' = "tools"
  /\ round' \in Rounds
  /\ asked' = FALSE
  /\ UNCHANGED <<rounds, detector, signal, all, since, lenient>>

ToolsAborted ==
  /\ at = "tools" /\ signal
  /\ at' = "aborted"
  /\ UNCHANGED <<rounds, detector, signal, round, histories>>

\* The results are appended, and the detector counts them.
Detects ==
  /\ at = "tools" /\ ~signal
  /\ all' = Append(all, round)
  /\ recentFingerprints' = Window(recentFingerprints, round)
  /\ consecutiveErrors' = Errors(consecutiveErrors, round)
  /\ at' = IF SameArgs(recentFingerprints') \/ SameError(consecutiveErrors', round)
           THEN "steward" ELSE "closing"
  /\ UNCHANGED <<rounds, nudgeSent, signal, round, since, asked, lenient>>

\* "continue" leaves the counters as they are.
LetsGoOn ==
  /\ at = "steward"
  /\ at' = "closing"
  /\ asked' = TRUE
  /\ lenient' = TRUE
  /\ UNCHANGED <<rounds, detector, signal, round, all, since>>

\* Mutant of Nudges: it is forgotten that the agent was nudged.
NudgesForever ==
  /\ at = "steward" /\ ~nudgeSent
  /\ at' = "closing"
  /\ recentFingerprints' = <<>>
  /\ consecutiveErrors' = NoErrors
  /\ asked' = TRUE
  /\ since' = Len(all)
  /\ UNCHANGED <<rounds, nudgeSent, signal, round, all, lenient>>

\* The first "abort" becomes a message to the agent, which starts afresh.
Nudges ==
  /\ at = "steward" /\ ~nudgeSent
  /\ at' = "closing"
  /\ nudgeSent' = TRUE
  /\ recentFingerprints' = <<>>
  /\ consecutiveErrors' = NoErrors
  /\ asked' = TRUE
  /\ since' = Len(all)
  /\ UNCHANGED <<rounds, signal, round, all, lenient>>

\* The second stops it, and so does a steward that fails.
Stops ==
  /\ at = "steward"
  /\ at' = "stopped"
  /\ UNCHANGED <<rounds, detector, signal, round, histories>>

\* A terminal tool ends the loop before onRoundComplete(), which may abort it.
Closes ==
  /\ at = "closing"
  /\ \/ /\ CallsOf(round) \cap Terminal # {}
        /\ at' = "returned"
        /\ UNCHANGED rounds
     \/ /\ CallsOf(round) \cap Terminal = {} /\ Interruptible
        /\ at' = "aborted"
        /\ UNCHANGED rounds
     \/ /\ CallsOf(round) \cap Terminal = {}
        /\ at' = "top"
        /\ rounds' = rounds + 1
  /\ UNCHANGED <<detector, signal, round, histories>>

\* The agent is retracted.
Signalled ==
  /\ Interruptible /\ at \in {"model", "tools", "steward"} /\ ~signal
  /\ signal' = TRUE
  /\ UNCHANGED <<at, rounds, detector, round, histories>>

Finished == at \in Ended /\ UNCHANGED vars

Init ==
  /\ at = "top"
  /\ rounds = 0
  /\ recentFingerprints = <<>>
  /\ consecutiveErrors = NoErrors
  /\ nudgeSent = FALSE
  /\ signal = FALSE
  /\ round = <<>>
  /\ all = <<>>
  /\ since = 0
  /\ asked = FALSE
  /\ lenient = FALSE

Next ==
  \/ Enters \/ Answers \/ Fails \/ Executes \/ ToolsAborted \/ Detects
  \/ LetsGoOn \/ Nudges \/ Stops \/ Closes \/ Signalled \/ Finished

Spec == Init /\ [][Next]_vars
-----------------------------------------------------------------------------
(* Properties *)

\* What the agent has done since the start or since it was nudged.
Recent == SubSeq(all, since + 1, Len(all))

\* Where call c stands in the rounds of s: round, and place in the round.
Made(c, s) ==
  {p \in (DOMAIN s) \X (1 .. MaxCalls) : p[2] \in DOMAIN s[p[1]] /\ s[p[1]][p[2]].call = c}

NotBefore(q, p) == q[1] > p[1] \/ (q[1] = p[1] /\ q[2] >= p[2])

\* How often c has failed since it last succeeded.
FailuresInARow(c, s) ==
  Cardinality({p \in Made(c, s) :
                 \A q \in Made(c, s) : NotBefore(q, p) => s[q[1]][q[2]].failed})

Suspicious(s) ==
  \/ /\ Len(s) >= SameArgsTrigger
     /\ \E c \in Calls : \A i \in (Len(s) - SameArgsTrigger + 1) .. Len(s) : c \in CallsOf(s[i])
  \/ /\ \A i \in DOMAIN Last(s) : Last(s)[i].failed
     /\ \E c \in CallsOf(Last(s)) : FailuresInARow(c, s) >= Trigger

\* The detector's window and counters, which are updated round by round and reset
\* by a nudge, ask the steward for exactly those rounds in which the whole record
\* since the nudge shows the same call in the last rounds, or a barren round
\* with a call that keeps failing.
SuspectsExactly ==
  /\ at = "steward" => Suspicious(Recent)
  /\ at = "closing" /\ ~asked => ~Suspicious(Recent)

\* An agent that never makes the same call twice is left alone until it was nudged,
\* however many of its calls fail.
ExplorationUndisturbed ==
  at = "steward" /\ ~nudgeSent
    => \E c \in Calls : \E p, q \in Made(c, all) : p # q

\* The last rounds in which nothing succeeded and c failed.
Spinning(c) ==
  Cardinality({i \in DOMAIN all : \A j \in i .. Len(all) : c \in CallsOf(all[j]) /\ ~Progress(all[j])})

\* An agent that makes one failing call again and again, and that the steward never
\* lets go on, is stopped within the rounds that both triggers allow.
SpinnerStopped ==
  at = "model" /\ ~lenient
    => \A c \in Calls : Spinning(c) < ErrorTrigger + PostNudgeErrorTrigger
=============================================================================
