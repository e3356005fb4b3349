----------------------------- MODULE ToolLoopProofs -----------------------------
(***************************************************************************)
(* Proofs about ToolLoop for any calls, any number of rounds and of calls   *)
(* of a round, and any triggers.                                            *)
(*                                                                         *)
(* The detector keeps a window and counters that it brings up to date       *)
(* result by result and sets back with the nudge; the properties are about  *)
(* the record of all rounds. The inductive invariant IInv says that the     *)
(* window and the counters are what the record since the nudge shows        *)
(* (Detecting), that the steward is asked if they are alarming and only     *)
(* then (Asking), and that they keep up with an agent that repeats a        *)
(* failing call (Stopping).                                                 *)
(*                                                                         *)
(* What a counter is after a round is shown by induction over the results   *)
(* of the round, as the absence of a smallest counterexample (Smallest,     *)
(* UpTo).                                                                   *)
(***************************************************************************)
EXTENDS ToolLoop, FiniteSetTheorems, WellFoundedInduction, SequenceTheorems, TLAPS

-----------------------------------------------------------------------------
(* Induction over an interval, and the operators of the model *)

\* Every set of natural numbers that is not empty has a smallest one: the form
\* in which the proofs below use induction.
LEMMA Smallest ==
  ASSUME NEW T \in SUBSET Nat, T # {}
  PROVE  \E x \in T : \A y \in T : x <= y
<1> DEFINE R == OpToRel(<, Nat)
<1>1. IsWellFoundedOn(R, Nat)
  BY NatLessThanWellFounded
<1>2. \A x, y \in Nat : <<x, y>> \in R <=> x < y
  BY DEF OpToRel
<1>3. PICK x \in T : \A y \in T : ~(<<y, x>> \in R)
  <2> HIDE DEF R
  <2> QED BY <1>1, WFMin
<1>4. \A y \in T : ~(y < x)
  BY <1>2, <1>3
<1> HIDE DEF R
<1> QED BY <1>4

\* What holds of 0 and of the successor of each number it holds of, up to n, holds
\* of n: the set of numbers it holds of is given as T.
LEMMA UpTo ==
  ASSUME NEW n \in Nat, NEW T, 0 \in T, \A k \in 1 .. n : k - 1 \in T => k \in T
  PROVE  \A k \in 0 .. n : k \in T
<1> DEFINE Bad == {k \in 0 .. n : k \notin T}
<1>1. CASE Bad = {}
  BY <1>1
<1>2. CASE Bad # {}
  <2>1. PICK k \in Bad : \A j \in Bad : k <= j
    <3>1. Bad \in SUBSET Nat
      OBVIOUS
    <3> HIDE DEF Bad
    <3> QED BY <1>2, <3>1, Smallest
  <2>2. k # 0 /\ k \in 1 .. n /\ k - 1 \in 0 .. n
    OBVIOUS
  <2>3. k - 1 \in T
    BY <2>1, <2>2
  <2> QED BY <2>2, <2>3
<1> QED BY <1>1, <1>2

\* A round is a sequence of results.
LEMMA RoundFacts ==
  ASSUME NEW r \in Rounds
  PROVE  /\ r \in Seq(Result) /\ Len(r) \in 1 .. MaxCalls /\ DOMAIN r = 1 .. Len(r)
         /\ Len(r) \in Nat
         /\ \A i \in 1 .. Len(r) : r[i] \in Result /\ r[i].call \in Calls /\ r[i].failed \in BOOLEAN
         /\ CallsOf(r) \subseteq Calls /\ CallsOf(r) # {}
<1>1. PICK n \in 1 .. MaxCalls : r \in [1 .. n -> Result]
  BY DEF Rounds
<1>2. n \in Nat /\ n >= 1
  BY ConstantsAssumption
<1>3. r \in Seq(Result) /\ Len(r) = n /\ DOMAIN r = 1 .. n
  BY <1>1, <1>2
<1>4. \A i \in 1 .. n : r[i] \in Result
  BY <1>1
<1>5. 1 \in DOMAIN r
  BY <1>2, <1>3
<1> QED BY <1>1, <1>2, <1>3, <1>4, <1>5 DEF Result, CallsOf
-----------------------------------------------------------------------------
(* The counters of errors *)

\* One step of Errors.
Count(es, r, after, n) ==
  IF n = 0 THEN es
  ELSE [after[n - 1] EXCEPT ![r[n].call] = IF r[n].failed THEN after[n - 1][r[n].call] + 1 ELSE 0]

\* The recursion of Errors has a solution.
LEMMA CountExists ==
  ASSUME NEW es, NEW r \in Rounds
  PROVE  \E after : after = [n \in 0 .. Len(r) |-> Count(es, r, after, n)]
<1> DEFINE T == {k \in Nat : \E after : after = [n \in 0 .. k |-> Count(es, r, after, n)]}
<1>1. 0 \in T
  <2> DEFINE after == [n \in 0 .. 0 |-> es]
  <2>1. after = [n \in 0 .. 0 |-> Count(es, r, after, n)]
    BY DEF Count
  <2> QED BY <2>1
<1>2. ASSUME NEW k \in 1 .. Len(r), k - 1 \in T PROVE k \in T
  <2>0. k \in Nat /\ k >= 1
    OBVIOUS
  <2>1. PICK after : after = [n \in 0 .. k - 1 |-> Count(es, r, after, n)]
    BY <1>2
  <2> DEFINE more == [n \in 0 .. k |-> IF n = k THEN Count(es, r, after, n) ELSE after[n]]
  <2>2. ASSUME NEW n \in 0 .. k PROVE more[n] = Count(es, r, more, n)
    <3>1. more[n] = Count(es, r, after, n)
      <4>1. CASE n = k
        BY <4>1
      <4>2. CASE n # k
        <5>1. n \in 0 .. k - 1 /\ more[n] = after[n]
          BY <2>0, <4>2
        <5>2. after[n] = Count(es, r, after, n)
          BY <2>1, <5>1
        <5> QED BY <5>1, <5>2
      <4> QED BY <4>1, <4>2
    <3>2. CASE n = 0
      BY <3>1, <3>2 DEF Count
    <3>3. CASE n # 0
      <4>1. n - 1 \in 0 .. k /\ n - 1 # k
        BY <2>0, <3>3
      <4>2. more[n - 1] = after[n - 1]
        BY <4>1
      <4> HIDE DEF more
      <4> QED BY <3>1, <3>3, <4>2 DEF Count
    <3> QED BY <3>2, <3>3
  <2>3. more = [n \in 0 .. k |-> Count(es, r, more, n)]
    <3>1. more = [n \in 0 .. k |-> more[n]]
      OBVIOUS
    <3> HIDE DEF more
    <3> QED BY <2>2, <3>1
  <2> HIDE DEF more
  <2> QED BY <2>0, <2>3
<1>3. Len(r) \in Nat /\ Len(r) \in 0 .. Len(r)
  BY RoundFacts
<1> HIDE DEF T
<1>4. \A k \in 0 .. Len(r) : k \in T
  BY <1>1, <1>2, <1>3, UpTo
<1>5. Len(r) \in T
  BY <1>3, <1>4
<1> QED BY <1>5 DEF T

\* The counters from es on, result by result.
Counts(after, es, r) ==
  /\ Errors(es, r) = after[Len(r)]
  /\ after[0] = es
  /\ \A n \in 1 .. Len(r), c \in Calls :
       after[n][c] = IF c # r[n].call THEN after[n - 1][c]
                     ELSE IF r[n].failed THEN after[n - 1][c] + 1 ELSE 0

\* A round is counted result by result.
LEMMA ErrorsSteps ==
  ASSUME NEW es \in [Calls -> Nat], NEW r \in Rounds
  PROVE  \E after \in [0 .. Len(r) -> [Calls -> Nat]] : Counts(after, es, r)
<1> DEFINE after == CHOOSE f : f = [n \in 0 .. Len(r) |-> Count(es, r, f, n)]
<1>1. after = [n \in 0 .. Len(r) |-> Count(es, r, after, n)]
  BY CountExists
<1>2. Errors(es, r) = after[Len(r)]
  BY DEF Errors, Count
<1> HIDE DEF after
<1>3. Len(r) \in Nat /\ \A i \in 1 .. Len(r) : r[i].call \in Calls
  BY RoundFacts
<1>4. \A n \in 0 .. Len(r) : after[n] = Count(es, r, after, n)
  BY <1>1
<1>5. after[0] = es
  <2>1. 0 \in 0 .. Len(r)
    BY <1>3
  <2>2. Count(es, r, after, 0) = es
    BY DEF Count
  <2> QED BY <1>4, <2>1, <2>2
<1>6. \A n \in 1 .. Len(r) : after[n] =
        [after[n - 1] EXCEPT ![r[n].call] = IF r[n].failed THEN after[n - 1][r[n].call] + 1 ELSE 0]
  <2> SUFFICES ASSUME NEW n \in 1 .. Len(r)
               PROVE  after[n] = [after[n - 1] EXCEPT ![r[n].call] =
                        IF r[n].failed THEN after[n - 1][r[n].call] + 1 ELSE 0]
    OBVIOUS
  <2>1. n \in 0 .. Len(r) /\ n # 0
    BY <1>3
  <2> QED BY <1>4, <2>1 DEF Count
<1> DEFINE T == {n \in Nat : after[n] \in [Calls -> Nat]}
<1>7. 0 \in T
  BY <1>5
<1>8. ASSUME NEW n \in 1 .. Len(r), n - 1 \in T PROVE n \in T
  <2>1. n \in Nat /\ after[n - 1] \in [Calls -> Nat] /\ r[n].call \in Calls
    BY <1>3, <1>8
  <2>2. after[n] \in [Calls -> Nat]
    <3>1. PICK old \in [Calls -> Nat] : old = after[n - 1]
      BY <2>1
    <3>2. after[n] = [old EXCEPT ![r[n].call] = IF r[n].failed THEN old[r[n].call] + 1 ELSE 0]
      BY <1>6, <3>1
    <3> QED BY <2>1, <3>2
  <2> QED BY <2>1, <2>2
<1> HIDE DEF T
<1>9. \A n \in 0 .. Len(r) : n \in T
  BY <1>3, <1>7, <1>8, UpTo
<1>10. \A n \in 0 .. Len(r) : after[n] \in [Calls -> Nat]
  BY <1>9 DEF T
<1>11. after \in [0 .. Len(r) -> [Calls -> Nat]]
  BY <1>1, <1>10
<1>12. ASSUME NEW n \in 1 .. Len(r), NEW c \in Calls
       PROVE  after[n][c] = IF c # r[n].call THEN after[n - 1][c]
                            ELSE IF r[n].failed THEN after[n - 1][c] + 1 ELSE 0
  <2>1. n - 1 \in 0 .. Len(r) /\ r[n].call \in Calls
    BY <1>3
  <2>2. after[n - 1] \in [Calls -> Nat]
    BY <1>10, <2>1
  <2> QED BY <1>6, <2>1, <2>2
<1>13. Counts(after, es, r)
  BY <1>2, <1>5, <1>12 DEF Counts
<1> QED BY <1>11, <1>13

\* The counters stay numbers, and in a round without success those of its calls
\* grow.
LEMMA ErrorsGrow ==
  ASSUME NEW es \in [Calls -> Nat], NEW r \in Rounds
  PROVE  /\ Errors(es, r) \in [Calls -> Nat]
         /\ ~Progress(r) => \A c \in CallsOf(r) : Errors(es, r)[c] >= es[c] + 1
<1>0. PICK after \in [0 .. Len(r) -> [Calls -> Nat]] : Counts(after, es, r)
  BY ErrorsSteps
<1>1. /\ Errors(es, r) = after[Len(r)]
      /\ after[0] = es
      /\ \A n \in 1 .. Len(r), c \in Calls :
           after[n][c] = IF c # r[n].call THEN after[n - 1][c]
                         ELSE IF r[n].failed THEN after[n - 1][c] + 1 ELSE 0
  BY <1>0 DEF Counts
<1>2. Len(r) \in Nat /\ DOMAIN r = 1 .. Len(r)
      /\ \A i \in 1 .. Len(r) : r[i].call \in Calls /\ r[i].failed \in BOOLEAN
  BY RoundFacts
<1>3. Len(r) \in 0 .. Len(r) /\ after[Len(r)] \in [Calls -> Nat]
  BY <1>1, <1>2
<1>4. ASSUME ~Progress(r), NEW c \in CallsOf(r) PROVE Errors(es, r)[c] >= es[c] + 1
  <2> DEFINE Grown(n) == /\ after[n][c] >= es[c]
                         /\ (\E i \in 1 .. n : r[i].call = c) => after[n][c] >= es[c] + 1
             T == {n \in Nat : Grown(n)}
  <2>1. c \in Calls /\ \E i \in 1 .. Len(r) : r[i].call = c
    BY <1>2, <1>4 DEF CallsOf
  <2>2. \A i \in 1 .. Len(r) : r[i].failed
    BY <1>2, <1>4 DEF Progress
  <2>3. 0 \in T
    BY <1>1, <2>1
  <2>4. ASSUME NEW n \in 1 .. Len(r), n - 1 \in T PROVE n \in T
    <3>1. n \in Nat /\ n - 1 \in 0 .. Len(r) /\ n \in 0 .. Len(r) /\ Grown(n - 1)
      BY <1>2, <2>4
    <3>2. after[n - 1][c] \in Nat /\ es[c] \in Nat /\ after[n][c] \in Nat
      BY <1>1, <2>1, <3>1
    <3>3. after[n][c] = IF c # r[n].call THEN after[n - 1][c] ELSE after[n - 1][c] + 1
      BY <1>1, <2>1, <2>2
    <3>4. \A i \in 1 .. n : i \in 1 .. n - 1 \/ i = n
      BY <3>1
    <3>5. Grown(n)
      BY <3>1, <3>2, <3>3, <3>4
    <3> QED BY <3>1, <3>5
  <2> HIDE DEF T
  <2>5. \A n \in 0 .. Len(r) : n \in T
    BY <1>2, <2>3, <2>4, UpTo
  <2>6. Len(r) \in T
    BY <1>3, <2>5
  <2> QED BY <1>1, <2>1, <2>6 DEF T
<1> QED BY <1>1, <1>3, <1>4

\* The failures of c that no success of c follows.
Streak(c, s) ==
  {p \in Made(c, s) : \A q \in Made(c, s) : NotBefore(q, p) => s[q[1]][q[2]].failed}

\* A finite record holds finitely many calls.
LEMMA MadeFinite ==
  ASSUME NEW s \in Seq(Rounds), NEW c \in Calls
  PROVE  IsFiniteSet(Made(c, s))
<1>1. Len(s) \in Nat /\ DOMAIN s = 1 .. Len(s) /\ MaxCalls \in Nat
  BY ConstantsAssumption
<1>2. IsFiniteSet(1 .. Len(s)) /\ IsFiniteSet(1 .. MaxCalls)
  BY <1>1, FS_Interval
<1>3. IsFiniteSet((1 .. Len(s)) \X (1 .. MaxCalls))
  BY <1>2, FS_Product
<1>4. Made(c, s) \subseteq (1 .. Len(s)) \X (1 .. MaxCalls)
  BY <1>1 DEF Made
<1> QED BY <1>3, <1>4, FS_Subset

\* The places of c in a record to which a round is added.
LEMMA MadeAppend ==
  ASSUME NEW s \in Seq(Rounds), NEW r \in Rounds, NEW c \in Calls, NEW t \in {Append(s, r)}
  PROVE  /\ t \in Seq(Rounds) /\ Len(t) = Len(s) + 1 /\ t[Len(t)] = r
         /\ Made(c, t) = Made(c, s) \cup {p \in {Len(t)} \X (1 .. Len(r)) : r[p[2]].call = c}
         /\ \A p \in Made(c, s) :
              t[p[1]] = s[p[1]] /\ p[1] \in 1 .. Len(s) /\ p[2] \in 1 .. MaxCalls
<1>1. /\ t \in Seq(Rounds) /\ Len(t) = Len(s) + 1 /\ t[Len(t)] = r /\ Len(s) \in Nat
      /\ DOMAIN t = 1 .. Len(t) /\ DOMAIN s = 1 .. Len(s)
      /\ \A k \in 1 .. Len(s) : t[k] = s[k]
  OBVIOUS
<1>2. Len(r) \in 1 .. MaxCalls /\ DOMAIN r = 1 .. Len(r) /\ MaxCalls \in Nat
  BY RoundFacts, ConstantsAssumption
<1>3. \A p \in Made(c, s) : t[p[1]] = s[p[1]] /\ p[1] \in 1 .. Len(s) /\ p[2] \in 1 .. MaxCalls
  BY <1>1 DEF Made
<1>4. Made(c, s) \subseteq Made(c, t)
  BY <1>1 DEF Made
<1>5. {p \in {Len(t)} \X (1 .. Len(r)) : r[p[2]].call = c} \subseteq Made(c, t)
  <2> SUFFICES ASSUME NEW k \in {Len(t)}, NEW i \in 1 .. Len(r), r[i].call = c
               PROVE  <<k, i>> \in Made(c, t)
    OBVIOUS
  <2>1. k \in DOMAIN t /\ t[k] = r /\ i \in 1 .. MaxCalls
    BY <1>1, <1>2
  <2> QED BY <1>2, <2>1 DEF Made
<1>6. ASSUME NEW p \in Made(c, t)
      PROVE  p \in Made(c, s) \/ p \in {q \in {Len(t)} \X (1 .. Len(r)) : r[q[2]].call = c}
  <2>1. PICK k \in 1 .. Len(t), i \in 1 .. MaxCalls : p = <<k, i>>
    BY <1>1 DEF Made
  <2>2. i \in DOMAIN t[k] /\ t[k][i].call = c
    BY <2>1 DEF Made
  <2>3. CASE k = Len(t)
    BY <1>1, <1>2, <2>1, <2>2, <2>3
  <2>4. CASE k # Len(t)
    <3>1. k \in 1 .. Len(s) /\ t[k] = s[k]
      BY <1>1, <2>4
    <3> QED BY <1>1, <2>1, <2>2, <3>1 DEF Made
  <2> QED BY <2>3, <2>4
<1> QED BY <1>1, <1>3, <1>4, <1>5, <1>6

\* The counters, which are kept result by result, are what the record shows.
LEMMA CountErrors ==
  ASSUME NEW s \in Seq(Rounds), NEW r \in Rounds, NEW es \in [Calls -> Nat],
         \A c \in Calls : es[c] = FailuresInARow(c, s), NEW c \in Calls
  PROVE  Errors(es, r)[c] = FailuresInARow(c, Append(s, r))
<1>1. PICK t \in {Append(s, r)} : t = Append(s, r)
  OBVIOUS
<1> DEFINE Within(p, n) == p[1] < Len(t) \/ p[2] <= n
           Part(n) == {p \in Made(c, t) : /\ Within(p, n)
                                          /\ \A q \in Made(c, t) : Within(q, n) /\ NotBefore(q, p)
                                               => t[q[1]][q[2]].failed}
<1>0. PICK after \in [0 .. Len(r) -> [Calls -> Nat]] : Counts(after, es, r)
  BY ErrorsSteps
<1>2. /\ Errors(es, r) = after[Len(r)]
      /\ after[0] = es
      /\ \A n \in 1 .. Len(r), d \in Calls :
           after[n][d] = IF d # r[n].call THEN after[n - 1][d]
                         ELSE IF r[n].failed THEN after[n - 1][d] + 1 ELSE 0
  BY <1>0 DEF Counts
<1>3. Len(r) \in Nat /\ Len(r) >= 1 /\ DOMAIN r = 1 .. Len(r)
      /\ \A i \in 1 .. Len(r) : r[i].call \in Calls /\ r[i].failed \in BOOLEAN
  BY RoundFacts
<1>4. /\ t \in Seq(Rounds) /\ Len(t) = Len(s) + 1 /\ t[Len(t)] = r /\ Len(s) \in Nat
      /\ Made(c, t) = Made(c, s) \cup {p \in {Len(t)} \X (1 .. Len(r)) : r[p[2]].call = c}
      /\ \A p \in Made(c, s) :
              t[p[1]] = s[p[1]] /\ p[1] \in 1 .. Len(s) /\ p[2] \in 1 .. MaxCalls
  <2>1. Len(s) \in Nat
    OBVIOUS
  <2> QED BY <1>1, <2>1, MadeAppend
<1>5. \A p \in Made(c, t) : \/ p \in Made(c, s) /\ p[1] < Len(t) /\ p[1] \in Nat /\ p[2] \in Nat
                            \/ \E i \in 1 .. Len(r) : p = <<Len(t), i>> /\ r[i].call = c
  BY <1>4, ConstantsAssumption
<1>6. \A i \in 1 .. Len(r) : <<Len(t), i>> \in Made(c, t) <=> r[i].call = c
  BY <1>4
<1> DEFINE T == {n \in Nat : IsFiniteSet(Part(n)) /\ Cardinality(Part(n)) = after[n][c]}
<1>7. 0 \in T
  <2>1. Part(0) = Streak(c, s)
    <3>1. \A p \in Made(c, t) : Within(p, 0) <=> p \in Made(c, s)
      BY <1>4, <1>5
    <3> HIDE DEF Within
    <3> QED BY <1>4, <3>1 DEF Streak
  <2>2. IsFiniteSet(Streak(c, s))
    BY MadeFinite, FS_Subset DEF Streak
  <2>3. Cardinality(Streak(c, s)) = es[c]
    BY DEF Streak, FailuresInARow
  <2> HIDE DEF Part
  <2> QED BY <1>2, <2>1, <2>2, <2>3
<1>8. ASSUME NEW n \in 1 .. Len(r), n - 1 \in T PROVE n \in T
  <2>1. /\ n \in Nat /\ n - 1 \in Nat
        /\ IsFiniteSet(Part(n - 1)) /\ Cardinality(Part(n - 1)) = after[n - 1][c]
    <3> HIDE DEF Part
    <3> QED BY <1>3, <1>8
  <2> DEFINE last == <<Len(t), n>>
  <2>2. \A p \in Made(c, t) : Within(p, n) <=> Within(p, n - 1) \/ p = last
    BY <1>4, <1>5, <2>1
  <2>3. \A p \in Made(c, t) :
          Within(p, n) => NotBefore(last, p) /\ (Within(p, n - 1) => ~NotBefore(p, last))
    BY <1>4, <1>5, <2>1 DEF NotBefore
  <2>4. NotBefore(last, last) /\ ~Within(last, n - 1) /\ Within(last, n)
    BY <1>4, <2>1 DEF NotBefore
  <2>5. last \in Made(c, t) <=> r[n].call = c
    BY <1>6
  <2>6. t[last[1]][last[2]] = r[n]
    BY <1>4
  <2>7. after[n][c] = IF c # r[n].call THEN after[n - 1][c]
                      ELSE IF r[n].failed THEN after[n - 1][c] + 1 ELSE 0
    BY <1>2
  <2> HIDE DEF last, Within
  <2>8. CASE r[n].call # c
    <3>1. Part(n) = Part(n - 1)
      BY <2>2, <2>5, <2>8
    <3> HIDE DEF Part
    <3> QED BY <2>1, <2>7, <2>8, <3>1
  <2>9. CASE r[n].call = c /\ r[n].failed
    <3>1. Part(n) = Part(n - 1) \cup {last}
      BY <2>2, <2>3, <2>4, <2>5, <2>6, <2>9
    <3>2. last \notin Part(n - 1)
      BY <2>4
    <3> HIDE DEF Part
    <3>3. IsFiniteSet(Part(n)) /\ Cardinality(Part(n)) = Cardinality(Part(n - 1)) + 1
      <4>1. PICK S : S = Part(n - 1)
        OBVIOUS
      <4>2. IsFiniteSet(S) /\ last \notin S /\ Part(n) = S \cup {last}
        BY <2>1, <3>1, <3>2, <4>1
      <4>3. IsFiniteSet(S \cup {last}) /\ Cardinality(S \cup {last}) = Cardinality(S) + 1
        BY <4>2, FS_AddElement
      <4> QED BY <4>1, <4>2, <4>3
    <3> QED BY <2>1, <2>7, <2>9, <3>3
  <2>10. CASE r[n].call = c /\ ~r[n].failed
    <3>1. Part(n) = {}
      BY <2>2, <2>3, <2>4, <2>5, <2>6, <2>10
    <3> HIDE DEF Part
    <3>2. IsFiniteSet(Part(n)) /\ Cardinality(Part(n)) = 0
      BY <3>1, FS_EmptySet
    <3> QED BY <2>1, <2>7, <2>10, <3>2
  <2> QED BY <1>3, <2>8, <2>9, <2>10
<1> HIDE DEF T
<1>9. \A n \in 0 .. Len(r) : n \in T
  BY <1>3, <1>7, <1>8, UpTo
<1>10. Cardinality(Part(Len(r))) = after[Len(r)][c]
  <2>1. Len(r) \in T
    BY <1>3, <1>9
  <2> QED BY <2>1 DEF T
<1>11. Part(Len(r)) = Streak(c, t)
  <2>1. \A p \in Made(c, t) : Within(p, Len(r))
    BY <1>3, <1>4, <1>5
  <2> HIDE DEF Within
  <2> QED BY <2>1 DEF Streak
<1> HIDE DEF Part
<1> QED BY <1>1, <1>2, <1>10, <1>11 DEF Streak, FailuresInARow

-----------------------------------------------------------------------------
(* The window of the last rounds *)

\* The window holds the calls of the last rounds of s, newest first.
Tracks(fs, s) ==
  /\ fs \in Seq(SUBSET Calls)
  /\ Len(fs) = IF Len(s) > SameArgsTrigger THEN SameArgsTrigger ELSE Len(s)
  /\ \A i \in 1 .. Len(fs) : fs[i] = CallsOf(s[Len(s) - i + 1])

\* It goes on doing so when a round is added.
LEMMA WindowTracks ==
  ASSUME NEW s \in Seq(Rounds), NEW fs \in Seq(SUBSET Calls), Tracks(fs, s), NEW r \in Rounds
  PROVE  Tracks(Window(fs, r), Append(s, r))
<1>1. PICK t : t = Append(s, r)
  OBVIOUS
<1>2. /\ Len(t) = Len(s) + 1 /\ Len(s) \in Nat /\ t[Len(t)] = r
      /\ \A k \in 1 .. Len(s) : t[k] = s[k]
  BY <1>1
<1>3. SameArgsTrigger \in Nat /\ SameArgsTrigger >= 1 /\ CallsOf(r) \in SUBSET Calls
  BY ConstantsAssumption, RoundFacts
<1>4. PICK longer : longer = <<CallsOf(r)>> \o fs
  OBVIOUS
<1>5. /\ longer \in Seq(SUBSET Calls) /\ Len(longer) = Len(fs) + 1 /\ Len(fs) \in Nat
      /\ longer[1] = CallsOf(r)
      /\ \A i \in 1 .. Len(fs) : longer[i + 1] = fs[i]
  BY <1>3, <1>4
<1>6. PICK n \in Nat : n = IF Len(longer) > SameArgsTrigger THEN SameArgsTrigger ELSE Len(longer)
  BY <1>3, <1>5
<1>7. PICK gs : gs = SubSeq(longer, 1, n)
  OBVIOUS
<1>8. /\ gs \in Seq(SUBSET Calls) /\ Len(gs) = n
      /\ \A i \in 1 .. n : gs[i] = longer[i]
  BY <1>3, <1>5, <1>6, <1>7
<1>9. gs = Window(fs, r)
  BY <1>4, <1>6, <1>7 DEF Window
<1>10. n = IF Len(t) > SameArgsTrigger THEN SameArgsTrigger ELSE Len(t)
  BY <1>2, <1>3, <1>5, <1>6 DEF Tracks
<1>11. ASSUME NEW i \in 1 .. n PROVE gs[i] = CallsOf(t[Len(t) - i + 1])
  <2>1. CASE i = 1
    BY <1>2, <1>5, <1>8, <2>1
  <2>2. CASE i # 1
    <3>1. i - 1 \in 1 .. Len(fs) /\ n <= Len(longer)
      BY <1>3, <1>5, <1>6, <2>2
    <3>2. gs[i] = fs[i - 1]
      BY <1>5, <1>8, <3>1
    <3>3. fs[i - 1] = CallsOf(s[Len(s) - (i - 1) + 1])
      BY <3>1 DEF Tracks
    <3>4. Len(s) - (i - 1) + 1 = Len(t) - i + 1 /\ Len(t) - i + 1 \in 1 .. Len(s)
      <4>1. Len(fs) <= Len(s)
        BY <1>2, <1>3 DEF Tracks
      <4> QED BY <1>2, <1>5, <3>1, <4>1
    <3> QED BY <1>2, <3>2, <3>3, <3>4
  <2> QED BY <2>1, <2>2
<1> QED BY <1>1, <1>8, <1>9, <1>10, <1>11 DEF Tracks

\* The detector's two triggers say of its window and its counters what Suspicious
\* says of the record.
LEMMA SuspicionFacts ==
  ASSUME NEW s \in Seq(Rounds), s # <<>>, NEW fs \in Seq(SUBSET Calls), Tracks(fs, s),
         NEW es \in [Calls -> Nat], \A c \in Calls : es[c] = FailuresInARow(c, s),
         NEW r \in Rounds, r = s[Len(s)]
  PROVE  Suspicious(s) <=> SameArgs(fs) \/ SameError(es, r)
<1>1. Len(s) \in Nat /\ Len(s) >= 1 /\ SameArgsTrigger \in Nat /\ SameArgsTrigger >= 1
      /\ Last(s) = r /\ \A i \in 1 .. Len(s) : s[i] \in Rounds
  BY ConstantsAssumption DEF Last
<1>2. \A i \in 1 .. Len(s) : CallsOf(s[i]) \subseteq Calls
  BY <1>1, RoundFacts
<1> DEFINE Repeats == /\ Len(s) >= SameArgsTrigger
                      /\ \E c \in Calls : \A i \in (Len(s) - SameArgsTrigger + 1) .. Len(s) :
                           c \in CallsOf(s[i])
<1>3. Repeats <=> SameArgs(fs)
  <2>1. CASE Len(s) < SameArgsTrigger
    BY <1>1, <2>1 DEF SameArgs, Tracks
  <2>2. CASE Len(s) >= SameArgsTrigger
    <3>1. Len(fs) = SameArgsTrigger /\ DOMAIN fs = 1 .. SameArgsTrigger
          /\ \A i \in 1 .. SameArgsTrigger : fs[i] = CallsOf(s[Len(s) - i + 1])
      BY <1>1, <2>2 DEF Tracks
    <3>2. \A i \in 1 .. SameArgsTrigger :
            Len(s) - i + 1 \in (Len(s) - SameArgsTrigger + 1) .. Len(s)
      BY <1>1, <2>2
    <3>3. \A k \in (Len(s) - SameArgsTrigger + 1) .. Len(s) :
            Len(s) - k + 1 \in 1 .. SameArgsTrigger /\ Len(s) - (Len(s) - k + 1) + 1 = k
      BY <1>1, <2>2
    <3>4. \A k \in (Len(s) - SameArgsTrigger + 1) .. Len(s) : CallsOf(s[k]) = fs[Len(s) - k + 1]
      BY <3>1, <3>3
    <3>5. fs[1] = CallsOf(s[Len(s)]) /\ CallsOf(s[Len(s)]) \subseteq Calls
      BY <1>1, <1>2, <3>1
    <3>6. ASSUME Repeats PROVE SameArgs(fs)
      <4>1. PICK c \in Calls :
              \A i \in (Len(s) - SameArgsTrigger + 1) .. Len(s) : c \in CallsOf(s[i])
        BY <3>6
      <4>2. \A i \in 1 .. SameArgsTrigger : c \in fs[i]
        BY <3>1, <3>2, <4>1
      <4> QED BY <1>1, <3>1, <4>2 DEF SameArgs
    <3>7. ASSUME SameArgs(fs) PROVE Repeats
      <4>1. PICK c \in fs[1] : \A i \in 1 .. SameArgsTrigger : c \in fs[i]
        BY <3>1, <3>7 DEF SameArgs
      <4> QED BY <2>2, <3>3, <3>4, <3>5, <4>1
    <3> QED BY <3>6, <3>7
  <2> QED BY <1>1, <2>1, <2>2
<1>4. /\ DOMAIN r = 1 .. Len(r)
      /\ \A i \in DOMAIN r : r[i].call \in Calls /\ r[i].failed \in BOOLEAN
  BY RoundFacts
<1>5. SameError(es, r) <=> /\ \A i \in DOMAIN r : r[i].failed
                           /\ \E c \in CallsOf(r) : FailuresInARow(c, s) >= Trigger
  BY <1>4 DEF SameError, Progress, CallsOf
<1> HIDE DEF Repeats
<1>6. Suspicious(s) <=> Repeats \/ (/\ \A i \in DOMAIN r : r[i].failed
                                    /\ \E c \in CallsOf(r) : FailuresInARow(c, s) >= Trigger)
  BY <1>1 DEF Suspicious, Repeats
<1> QED BY <1>3, <1>5, <1>6
-----------------------------------------------------------------------------
(* Rounds that lead nowhere *)

\* One round more in which c fails and nothing succeeds, or none at all.
LEMMA SpinStep ==
  ASSUME all \in Seq(Rounds), NEW r \in Rounds, all' = Append(all, r), NEW c \in Calls
  PROVE  /\ Spinning(c) \in Nat
         /\ Spinning(c)' = IF c \in CallsOf(r) /\ ~Progress(r) THEN Spinning(c) + 1 ELSE 0
<1>1. PICK t \in Seq(Rounds) : t = all' /\ t = Append(all, r)
  OBVIOUS
<1>2. /\ Len(t) = Len(all) + 1 /\ Len(all) \in Nat /\ t[Len(t)] = r
      /\ \A k \in 1 .. Len(all) : t[k] = all[k]
      /\ DOMAIN t = 1 .. Len(t) /\ DOMAIN all = 1 .. Len(all)
  BY <1>1
<1> DEFINE Idle(s, j) == c \in CallsOf(s[j]) /\ ~Progress(s[j])
           Spins(s) == {i \in DOMAIN s : \A j \in i .. Len(s) : Idle(s, j)}
<1>3. Spinning(c) = Cardinality(Spins(all)) /\ Spinning(c)' = Cardinality(Spins(t))
  BY <1>1 DEF Spinning
<1>4. IsFiniteSet(Spins(all)) /\ Cardinality(Spins(all)) \in Nat
  <2>1. IsFiniteSet(1 .. Len(all))
    BY <1>2, FS_Interval
  <2>2. Spins(all) \subseteq 1 .. Len(all)
    BY <1>2
  <2> HIDE DEF Spins
  <2> QED BY <2>1, <2>2, FS_Subset, FS_CardinalityType
<1>5. \A j \in 1 .. Len(all) : Idle(t, j) <=> Idle(all, j)
  BY <1>2
<1>6. Idle(t, Len(t)) <=> c \in CallsOf(r) /\ ~Progress(r)
  BY <1>2
<1> HIDE DEF Idle
<1>7. CASE Idle(t, Len(t))
  <2>1. Spins(t) = Spins(all) \cup {Len(t)}
    <3>1. ASSUME NEW i \in Spins(t), i # Len(t) PROVE i \in Spins(all)
      BY <1>2, <1>5, <3>1
    <3>2. ASSUME NEW i \in Spins(all) PROVE i \in Spins(t)
      <4>1. \A j \in i .. Len(t) : j \in i .. Len(all) \/ j = Len(t)
        BY <1>2
      <4> QED BY <1>2, <1>5, <1>7, <4>1
    <3>3. Len(t) \in Spins(t)
      BY <1>2, <1>7
    <3> HIDE DEF Spins
    <3> QED BY <3>1, <3>2, <3>3
  <2>2. Len(t) \notin Spins(all)
    BY <1>2
  <2>3. PICK S : S = Spins(all)
    OBVIOUS
  <2> HIDE DEF Spins
  <2>4. Cardinality(S \cup {Len(t)}) = Cardinality(S) + 1
    BY <1>4, <2>2, <2>3, FS_AddElement
  <2> QED BY <1>3, <1>4, <1>6, <1>7, <2>1, <2>3, <2>4
<1>8. CASE ~Idle(t, Len(t))
  <2>1. Spins(t) = {}
    BY <1>2, <1>8
  <2> HIDE DEF Spins
  <2> QED BY <1>3, <1>4, <1>6, <1>8, <2>1, FS_EmptySet
<1> QED BY <1>7, <1>8

-----------------------------------------------------------------------------
(* The inductive invariant *)

Types ==
  /\ at \in Places
  /\ rounds \in 0 .. MaxRounds
  /\ at \in {"model", "tools", "steward", "closing"} => rounds < MaxRounds
  /\ recentFingerprints \in Seq(SUBSET Calls)
  /\ consecutiveErrors \in [Calls -> Nat]
  /\ nudgeSent \in BOOLEAN /\ signal \in BOOLEAN
  /\ asked \in BOOLEAN /\ lenient \in BOOLEAN
  /\ round \in Rounds \cup {<<>>}
  /\ at \in {"tools", "steward", "closing"} => round \in Rounds
  /\ all \in Seq(Rounds)
  /\ since \in 0 .. Len(all)
  /\ ~nudgeSent => since = 0

\* The detector's window and counters are about the rounds since the nudge.
Detecting ==
  /\ Tracks(recentFingerprints, Recent)
  /\ \A c \in Calls : consecutiveErrors[c] = FailuresInARow(c, Recent)

\* The detector's opinion of the round that is being run.
Alarmed == SameArgs(recentFingerprints) \/ SameError(consecutiveErrors, round)

\* The steward is asked if the detector is alarmed, and only then.
Asking ==
  /\ at = "steward" \/ (at = "closing" /\ ~asked) => since < Len(all) /\ round = all[Len(all)]
  /\ at = "steward" => Alarmed
  /\ at = "closing" /\ ~asked => ~Alarmed

\* The counters keep up with rounds that lead nowhere, also across the nudge that
\* sets them back.
Stopping ==
  ~lenient => \A c \in Calls :
    /\ Spinning(c) \in Nat
    /\ Spinning(c) <= (IF nudgeSent THEN ErrorTrigger ELSE 0) + consecutiveErrors[c]
    /\ ~nudgeSent => Spinning(c) <= ErrorTrigger
    /\ at \in {"top", "model", "tools", "closing"} =>
         Spinning(c) < ErrorTrigger + (IF nudgeSent THEN PostNudgeErrorTrigger ELSE 0)

IInv == Types /\ Detecting /\ Asking /\ Stopping

\* What is assumed of the bounds.
LEMMA Bounds ==
  /\ MaxRounds \in Nat \ {0} /\ SameArgsTrigger \in Nat \ {0}
  /\ ErrorTrigger \in Nat \ {0} /\ PostNudgeErrorTrigger \in Nat \ {0}
BY ConstantsAssumption

\* What was recorded since the nudge.
LEMMA RecentFacts ==
  ASSUME Types
  PROVE  /\ Recent \in Seq(Rounds) /\ Len(Recent) = Len(all) - since
         /\ \A i \in 1 .. Len(Recent) : Recent[i] = all[since + i]
<1>1. all \in Seq(Rounds) /\ Len(all) \in Nat /\ since \in 0 .. Len(all)
  BY DEF Types
<1> QED BY <1>1 DEF Recent

\* A sequence that grows at its end, without its first elements.
LEMMA SubSeqAppend ==
  ASSUME NEW w \in Seq(Rounds), NEW r \in Rounds, NEW n \in 0 .. Len(w)
  PROVE  SubSeq(Append(w, r), n + 1, Len(w) + 1) = Append(SubSeq(w, n + 1, Len(w)), r)
<1>1. Append(w, r) \in Seq(Rounds) /\ Len(w) \in Nat
  OBVIOUS
<1>2. PICK x \in Seq(Rounds) : x = Append(w, r)
  BY <1>1
<1>3. /\ Len(w) \in Nat /\ Len(x) = Len(w) + 1 /\ x[Len(w) + 1] = r
      /\ \A k \in 1 .. Len(w) : x[k] = w[k]
  BY <1>2
<1>4. /\ \A i \in (n + 1) .. (Len(w) + 1) : x[i] \in Rounds
      /\ \A i \in (n + 1) .. Len(w) : w[i] \in Rounds
      /\ n + 1 \in Int /\ Len(w) \in Int /\ Len(w) + 1 \in Int /\ n \in 0 .. Len(w)
  BY <1>1, <1>3
<1>5. SubSeq(x, n + 1, Len(w) + 1) \in Seq(Rounds) /\ SubSeq(w, n + 1, Len(w)) \in Seq(Rounds)
  BY <1>4, SubSeqProperties
<1>6. PICK t \in Seq(Rounds) : t = SubSeq(x, n + 1, Len(w) + 1)
  BY <1>5
<1>7. Len(t) = Len(w) + 1 - n /\ \A i \in 1 .. Len(t) : t[i] = x[n + i]
  BY <1>3, <1>6
<1>8. PICK s \in Seq(Rounds) : s = SubSeq(w, n + 1, Len(w))
  BY <1>5
<1>9. Len(s) = Len(w) - n /\ \A i \in 1 .. Len(s) : s[i] = w[n + i]
  BY <1>3, <1>8
<1>10. Append(s, r) \in Seq(Rounds)
  OBVIOUS
<1>11. PICK u \in Seq(Rounds) : u = Append(s, r)
  BY <1>10
<1>12. Len(u) = Len(s) + 1 /\ u[Len(s) + 1] = r /\ \A i \in 1 .. Len(s) : u[i] = s[i]
  BY <1>11
<1>13. Len(t) = Len(u) /\ Len(t) \in Nat
  BY <1>3, <1>7, <1>9, <1>12
<1>14. \A i \in 1 .. Len(t) : t[i] = u[i]
  <2> SUFFICES ASSUME NEW i \in 1 .. Len(t) PROVE t[i] = u[i]
    OBVIOUS
  <2>1. CASE i = Len(t)
    BY <1>3, <1>7, <1>9, <1>12, <2>1
  <2>2. CASE i # Len(t)
    <3>1. i \in 1 .. Len(s) /\ n + i \in 1 .. Len(w)
      BY <1>1, <1>7, <1>9, <2>2
    <3> QED BY <1>3, <1>7, <1>9, <1>12, <3>1
  <2> QED BY <2>1, <2>2
<1>15. t = u
  BY <1>13, <1>14, SeqEqual
<1> QED BY <1>2, <1>6, <1>8, <1>11, <1>15

\* A round that is added to the record.
LEMMA RecentAppend ==
  ASSUME Types, NEW r \in Rounds, all' = Append(all, r), since' = since
  PROVE  Recent' = Append(Recent, r)
<1>1. /\ Len(all) \in Nat /\ since \in 0 .. Len(all) /\ all \in Seq(Rounds)
      /\ Len(Append(all, r)) = Len(all) + 1
  BY DEF Types
<1>2. Recent' = SubSeq(Append(all, r), since + 1, Len(all) + 1)
  BY <1>1 DEF Recent
<1> QED BY <1>1, <1>2, SubSeqAppend DEF Recent

\* Steps that the detector takes no part in.
LEMMA QuietStep ==
  ASSUME IInv, UNCHANGED <<recentFingerprints, consecutiveErrors, nudgeSent, all, since>>,
         Types', at' # "steward" \/ at = "steward",
         at' = "closing" => (at = "closing" /\ asked' = asked) \/ asked',
         lenient => lenient',
         at' \in {"top", "model", "tools", "closing"} =>
           at \in {"top", "model", "tools", "closing"} \/ lenient',
         at' \in {"steward", "closing"} => round' = round
  PROVE  IInv'
<1>1. Recent' = Recent /\ \A c \in Calls : Spinning(c)' = Spinning(c)
  BY DEF Recent, Spinning
<1>2. Detecting'
  BY <1>1 DEF IInv, Detecting, Tracks, FailuresInARow, Made, CallsOf
<1>3. Stopping'
  BY <1>1 DEF IInv, Stopping
<1>4. at' \in {"steward", "closing"} => Alarmed' = Alarmed
  BY DEF Alarmed, SameArgs, SameError, Progress, Trigger
<1>5. Asking'
  BY <1>4 DEF IInv, Asking, Types
<1> QED BY <1>2, <1>3, <1>5 DEF IInv

\* The detector takes a round in.
LEMMA DetectsKeeps == ASSUME IInv, Detects PROVE IInv'
<1> USE Bounds
<1>1. /\ round \in Rounds /\ all \in Seq(Rounds) /\ at = "tools" /\ Len(all) \in Nat
      /\ consecutiveErrors \in [Calls -> Nat] /\ recentFingerprints \in Seq(SUBSET Calls)
      /\ since \in 0 .. Len(all) /\ nudgeSent \in BOOLEAN /\ lenient \in BOOLEAN
  BY DEF Detects, IInv, Types
<1>2. /\ all' = Append(all, round) /\ since' = since
      /\ recentFingerprints' = Window(recentFingerprints, round)
      /\ consecutiveErrors' = Errors(consecutiveErrors, round)
      /\ UNCHANGED <<rounds, nudgeSent, signal, round, asked, lenient>>
      /\ at' = IF Alarmed' THEN "steward" ELSE "closing"
  BY DEF Detects, Alarmed, SameError, Progress, Trigger
<1>3. PICK s \in Seq(Rounds) : s = Recent /\ Tracks(recentFingerprints, s)
        /\ \A c \in Calls : consecutiveErrors[c] = FailuresInARow(c, s)
  BY RecentFacts DEF IInv, Detecting
<1>4. Recent' = Append(s, round)
  BY <1>1, <1>2, <1>3, RecentAppend DEF IInv
<1>5. Tracks(recentFingerprints, Recent)'
  <2>1. Tracks(Window(recentFingerprints, round), Append(s, round))
    BY <1>1, <1>3, WindowTracks
  <2> QED BY <1>2, <1>4, <2>1 DEF Tracks, CallsOf
<1>6. consecutiveErrors' \in [Calls -> Nat]
  BY <1>1, <1>2, ErrorsGrow
<1>7. ASSUME NEW c \in Calls PROVE (consecutiveErrors[c] = FailuresInARow(c, Recent))'
  <2>1. Errors(consecutiveErrors, round)[c] = FailuresInARow(c, Append(s, round))
    BY <1>1, <1>3, CountErrors
  <2> QED BY <1>2, <1>4, <2>1 DEF FailuresInARow, Made
<1>8. Len(all') = Len(all) + 1 /\ all' \in Seq(Rounds) /\ all'[Len(all')] = round
  BY <1>1, <1>2
<1>9. Types'
  <2>1. recentFingerprints' \in Seq(SUBSET Calls) /\ at' \in Places /\ since' \in 0 .. Len(all')
    BY <1>1, <1>2, <1>5, <1>8 DEF Tracks, Places
  <2> QED BY <1>1, <1>2, <1>6, <1>8, <2>1 DEF IInv, Types
<1>10. Asking'
  BY <1>1, <1>2, <1>8 DEF Asking
<1>11. Stopping'
  <2> SUFFICES ASSUME ~lenient, NEW c \in Calls
               PROVE
                 /\ Spinning(c)' \in Nat
                 /\ Spinning(c)' <= (IF nudgeSent THEN ErrorTrigger ELSE 0) + consecutiveErrors'[c]
                 /\ ~nudgeSent => Spinning(c)' <= ErrorTrigger
                 /\ at' = "closing" =>
                      Spinning(c)' < ErrorTrigger + (IF nudgeSent THEN PostNudgeErrorTrigger ELSE 0)
    BY <1>2 DEF Stopping
  <2>1. /\ Spinning(c) \in Nat /\ consecutiveErrors[c] \in Nat /\ consecutiveErrors'[c] \in Nat
        /\ Spinning(c)' = IF c \in CallsOf(round) /\ ~Progress(round) THEN Spinning(c) + 1 ELSE 0
    BY <1>1, <1>2, <1>6, SpinStep
  <2>2. /\ Spinning(c) <= (IF nudgeSent THEN ErrorTrigger ELSE 0) + consecutiveErrors[c]
        /\ ~nudgeSent => Spinning(c) < ErrorTrigger
    BY <1>1 DEF IInv, Stopping
  <2>3. CASE c \in CallsOf(round) /\ ~Progress(round)
    <3>1. consecutiveErrors'[c] >= consecutiveErrors[c] + 1
      BY <1>1, <1>2, <2>3, ErrorsGrow
    <3>2. at' = "closing" =>
            consecutiveErrors'[c] < IF nudgeSent THEN PostNudgeErrorTrigger ELSE ErrorTrigger
      <4> SUFFICES ASSUME at' = "closing"
                   PROVE  consecutiveErrors'[c] <
                            IF nudgeSent THEN PostNudgeErrorTrigger ELSE ErrorTrigger
        OBVIOUS
      <4>1. ~SameError(consecutiveErrors, round)'
        BY <1>2 DEF Alarmed
      <4>2. ~(consecutiveErrors'[c] >= Trigger)
        BY <1>2, <2>3, <4>1 DEF SameError, Progress, CallsOf, Trigger
      <4> QED BY <2>1, <4>2 DEF Trigger
    <3>3. Spinning(c)' = Spinning(c) + 1
      BY <2>1, <2>3
    <3>4. CASE nudgeSent
      BY <2>1, <2>2, <3>1, <3>2, <3>3, <3>4
    <3>5. CASE ~nudgeSent
      BY <2>1, <2>2, <3>1, <3>2, <3>3, <3>5
    <3> QED BY <3>4, <3>5
  <2>4. CASE ~(c \in CallsOf(round) /\ ~Progress(round))
    BY <2>1, <2>4
  <2> QED BY <2>3, <2>4
<1> QED BY <1>5, <1>7, <1>9, <1>10, <1>11 DEF IInv, Detecting

\* Nothing has failed before the first round.
LEMMA NothingMade == \A c \in Calls : FailuresInARow(c, <<>>) = 0
<1> SUFFICES ASSUME NEW c \in Calls PROVE FailuresInARow(c, <<>>) = 0
  OBVIOUS
<1>1. Made(c, <<>>) = {}
  BY DEF Made
<1> QED BY <1>1, FS_EmptySet DEF FailuresInARow

\* The nudge starts the record of the detector anew.
LEMMA NudgesKeeps == ASSUME IInv, Nudges PROVE IInv'
<1> USE Bounds
<1>1. /\ at = "steward" /\ ~nudgeSent /\ at' = "closing" /\ nudgeSent' = TRUE /\ asked' = TRUE
      /\ recentFingerprints' = <<>> /\ consecutiveErrors' = NoErrors /\ since' = Len(all)
      /\ UNCHANGED <<rounds, signal, round, all, lenient>>
  BY DEF Nudges
<1>2. all \in Seq(Rounds) /\ Len(all) \in Nat
  BY DEF IInv, Types
<1>3. consecutiveErrors' \in [Calls -> Nat] /\ \A c \in Calls : consecutiveErrors'[c] = 0
  BY <1>1 DEF NoErrors
<1>4. Types'
  BY <1>1, <1>2, <1>3 DEF IInv, Types, Places
<1>5. Recent' = <<>>
  BY <1>1, <1>2 DEF Recent
<1>6. Detecting'
  <2>1. \A c \in Calls : FailuresInARow(c, <<>>) = 0
    BY NothingMade
  <2>2. Tracks(<<>>, <<>>)
    BY DEF Tracks
  <2>3. \A c \in Calls : FailuresInARow(c, Recent)' = FailuresInARow(c, <<>>)
    BY <1>5 DEF FailuresInARow, Made
  <2>4. Tracks(recentFingerprints, Recent)'
    BY <1>1, <1>5, <2>2 DEF Tracks, CallsOf
  <2> QED BY <1>3, <2>1, <2>3, <2>4 DEF Detecting
<1>7. Asking'
  BY <1>1 DEF Asking
<1>8. Stopping'
  <2>1. \A c \in Calls : Spinning(c)' = Spinning(c)
    BY <1>1 DEF Spinning
  <2>2. ~lenient => \A c \in Calls : Spinning(c) \in Nat /\ Spinning(c) <= ErrorTrigger
    BY <1>1 DEF IInv, Stopping
  <2> QED BY <1>1, <1>3, <2>1, <2>2 DEF Stopping
<1> QED BY <1>4, <1>6, <1>7, <1>8 DEF IInv

\* A call of a round has a place in the record.
LEMMA CallMade ==
  ASSUME NEW s \in Seq(Rounds), NEW k \in 1 .. Len(s), NEW c \in CallsOf(s[k])
  PROVE  \E p \in Made(c, s) : p[1] = k
<1>1. s[k] \in Rounds
  OBVIOUS
<1>2. PICK i \in DOMAIN s[k] : s[k][i].call = c
  BY DEF CallsOf
<1>3. i \in 1 .. MaxCalls
  <2>1. DOMAIN s[k] = 1 .. Len(s[k]) /\ Len(s[k]) \in 1 .. MaxCalls
    BY <1>1, RoundFacts
  <2> QED BY <2>1, ConstantsAssumption
<1>4. <<k, i>> \in Made(c, s)
  <2>1. k \in DOMAIN s
    OBVIOUS
  <2> QED BY <1>2, <1>3, <2>1 DEF Made
<1> QED BY <1>4

\* A finite set of at least two elements has two that differ.
LEMMA TwoOf ==
  ASSUME NEW S, IsFiniteSet(S), Cardinality(S) >= 2
  PROVE  \E p, q \in S : p # q
<1>1. Cardinality(S) \in Nat
  BY FS_CardinalityType
<1>2. S # {}
  BY <1>1, FS_EmptySet
<1>3. PICK p \in S : TRUE
  BY <1>2
<1>4. IsFiniteSet(S \ {p}) /\ Cardinality(S \ {p}) = Cardinality(S) - 1
  BY FS_RemoveElement
<1>5. S \ {p} # {}
  BY <1>1, <1>4, FS_EmptySet
<1> QED BY <1>5

-----------------------------------------------------------------------------
(* Invariance *)

\* The loop starts with an empty record and counters at zero.
LEMMA InitHolds == Init => IInv
<1> SUFFICES ASSUME Init PROVE IInv
  OBVIOUS
<1> USE Bounds
<1>1. /\ at = "top" /\ rounds = 0 /\ recentFingerprints = <<>> /\ consecutiveErrors = NoErrors
      /\ nudgeSent = FALSE /\ signal = FALSE /\ round = <<>> /\ all = <<>> /\ since = 0
      /\ asked = FALSE /\ lenient = FALSE
  BY DEF Init
<1>2. consecutiveErrors \in [Calls -> Nat] /\ \A c \in Calls : consecutiveErrors[c] = 0
  BY <1>1 DEF NoErrors
<1>3. Types
  <2>1. recentFingerprints \in Seq(SUBSET Calls) /\ all \in Seq(Rounds) /\ since \in 0 .. Len(all)
    BY <1>1
  <2>2. round \in Rounds \cup {<<>>} /\ rounds \in 0 .. MaxRounds /\ at \in Places
    BY <1>1 DEF Places
  <2> QED BY <1>1, <1>2, <2>1, <2>2 DEF Types
<1>4. Recent = <<>>
  BY <1>1 DEF Recent
<1>5. \A c \in Calls : FailuresInARow(c, <<>>) = 0
  BY NothingMade
<1>6. Detecting
  BY <1>1, <1>2, <1>4, <1>5 DEF Detecting, Tracks
<1>7. Asking
  BY <1>1 DEF Asking
<1>8. Stopping
  <2>1. \A c \in Calls : Spinning(c) = 0
    <3> SUFFICES ASSUME NEW c \in Calls PROVE Spinning(c) = 0
      OBVIOUS
    <3>1. {i \in DOMAIN all :
            \A j \in i .. Len(all) : c \in CallsOf(all[j]) /\ ~Progress(all[j])} = {}
      BY <1>1
    <3> QED BY <3>1, FS_EmptySet DEF Spinning
  <2> QED BY <1>1, <1>2, <2>1 DEF Stopping
<1> QED BY <1>3, <1>6, <1>7, <1>8 DEF IInv

\* Detects and Nudges change the record or what is counted of it; every other step
\* is quiet.
LEMMA NextKeeps == IInv /\ [Next]_vars => IInv'
<1> SUFFICES ASSUME IInv, [Next]_vars PROVE IInv'
  OBVIOUS
<1> USE Bounds
<1>1. CASE Enters
  <2>1. /\ at = "top" /\ at' \in {"spent", "aborted", "model"}
        /\ at' = "model" => rounds < MaxRounds
        /\ UNCHANGED <<rounds, recentFingerprints, consecutiveErrors, nudgeSent, signal, round>>
        /\ UNCHANGED <<all, since, asked, lenient>>
    BY <1>1 DEF Enters, IInv, Types, detector, histories
  <2>2. Types'
    BY <2>1 DEF IInv, Types, Places, Ended
  <2> QED BY <2>1, <2>2, QuietStep
<1>2. CASE Answers
  <2>1. /\ at = "model" /\ at' = "returned"
        /\ UNCHANGED <<rounds, recentFingerprints, consecutiveErrors, nudgeSent, signal, round>>
        /\ UNCHANGED <<all, since, asked, lenient>>
    BY <1>2 DEF Answers, detector, histories
  <2>2. Types'
    BY <2>1 DEF IInv, Types, Places, Ended
  <2> QED BY <2>1, <2>2, QuietStep
<1>3. CASE Fails
  <2>1. /\ at = "model" /\ at' = "failed"
        /\ UNCHANGED <<rounds, recentFingerprints, consecutiveErrors, nudgeSent, signal, round>>
        /\ UNCHANGED <<all, since, asked, lenient>>
    BY <1>3 DEF Fails, detector, histories
  <2>2. Types'
    BY <2>1 DEF IInv, Types, Places, Ended
  <2> QED BY <2>1, <2>2, QuietStep
<1>4. CASE Executes
  <2>1. /\ at = "model" /\ at' = "tools" /\ round' \in Rounds /\ asked' = FALSE
        /\ UNCHANGED <<rounds, recentFingerprints, consecutiveErrors, nudgeSent, signal>>
        /\ UNCHANGED <<all, since, lenient>>
    BY <1>4 DEF Executes, detector
  <2>2. Types'
    BY <2>1 DEF IInv, Types, Places, Ended
  <2> QED BY <2>1, <2>2, QuietStep
<1>5. CASE ToolsAborted
  <2>1. /\ at' = "aborted"
        /\ UNCHANGED <<rounds, recentFingerprints, consecutiveErrors, nudgeSent, signal, round>>
        /\ UNCHANGED <<all, since, asked, lenient>>
    BY <1>5 DEF ToolsAborted, detector, histories
  <2>2. Types'
    BY <2>1 DEF IInv, Types, Places, Ended
  <2> QED BY <2>1, <2>2, QuietStep
<1>6. CASE Detects
  BY <1>6, DetectsKeeps
<1>7. CASE LetsGoOn
  <2>1. /\ at = "steward" /\ at' = "closing" /\ asked' = TRUE /\ lenient' = TRUE
        /\ UNCHANGED <<rounds, recentFingerprints, consecutiveErrors, nudgeSent, signal, round>>
        /\ UNCHANGED <<all, since>>
    BY <1>7 DEF LetsGoOn, detector
  <2>2. Types'
    BY <2>1 DEF IInv, Types, Places, Ended
  <2> QED BY <2>1, <2>2, QuietStep
<1>8. CASE Nudges
  BY <1>8, NudgesKeeps
<1>9. CASE Stops
  <2>1. /\ at' = "stopped"
        /\ UNCHANGED <<rounds, recentFingerprints, consecutiveErrors, nudgeSent, signal, round>>
        /\ UNCHANGED <<all, since, asked, lenient>>
    BY <1>9 DEF Stops, detector, histories
  <2>2. Types'
    BY <2>1 DEF IInv, Types, Places, Ended
  <2> QED BY <2>1, <2>2, QuietStep
<1>10. CASE Closes
  <2>1. /\ at = "closing" /\ at' \in {"returned", "aborted", "top"}
        /\ rounds' = rounds \/ rounds' = rounds + 1
        /\ UNCHANGED <<recentFingerprints, consecutiveErrors, nudgeSent, signal, round>>
        /\ UNCHANGED <<all, since, asked, lenient>>
    BY <1>10 DEF Closes, detector, histories
  <2>2. Types'
    BY <2>1 DEF IInv, Types, Places, Ended
  <2> QED BY <2>1, <2>2, QuietStep
<1>11. CASE Signalled
  <2>1. /\ at \in {"model", "tools", "steward"} /\ signal' = TRUE
        /\ UNCHANGED <<at, rounds, recentFingerprints, consecutiveErrors, nudgeSent, round>>
        /\ UNCHANGED <<all, since, asked, lenient>>
    BY <1>11 DEF Signalled, detector, histories
  <2>2. Types'
    BY <2>1 DEF IInv, Types, Places, Ended
  <2> QED BY <2>1, <2>2, QuietStep
<1>12. CASE Finished \/ UNCHANGED vars
  <2>1. /\ UNCHANGED <<at, rounds, recentFingerprints, consecutiveErrors, nudgeSent, signal>>
        /\ UNCHANGED <<round, all, since, asked, lenient>>
    BY <1>12 DEF Finished, vars, detector, histories
  <2>2. Types'
    BY <2>1 DEF IInv, Types
  <2> QED BY <2>1, <2>2, QuietStep DEF IInv, Asking
<1> QED BY <1>1, <1>2, <1>3, <1>4, <1>5, <1>6, <1>7, <1>8, <1>9, <1>10, <1>11, <1>12 DEF Next

\* The window and the counters are about the rounds since the nudge, in every
\* reachable state.
THEOREM InvariantHolds == Spec => []IInv
<1> QED BY InitHolds, NextKeeps, PTL DEF Spec

-----------------------------------------------------------------------------
(* Properties *)

\* The loop's variables have their types, and the window its bound.
THEOREM TypeCorrect == Spec => []TypeOK
<1>1. IInv => TypeOK
  <2> SUFFICES ASSUME IInv PROVE TypeOK
    OBVIOUS
  <2>1. Len(recentFingerprints) <= SameArgsTrigger
    <3>1. /\ Recent \in Seq(Rounds)
          /\ Len(recentFingerprints) =
               IF Len(Recent) > SameArgsTrigger THEN SameArgsTrigger ELSE Len(Recent)
      BY RecentFacts DEF IInv, Detecting, Tracks
    <3> QED BY <3>1, Bounds
  <2>2. \A i \in DOMAIN recentFingerprints : recentFingerprints[i] \subseteq Calls
    BY DEF IInv, Types
  <2>3. \A i \in DOMAIN all : all[i] \in Rounds
    BY DEF IInv, Types
  <2> QED BY <2>1, <2>2, <2>3 DEF IInv, Types, TypeOK
<1> QED BY <1>1, InvariantHolds, PTL

\* The detector, which sees rounds one by one and forgets, asks the steward for
\* exactly the rounds that the whole record since the nudge makes suspicious.
THEOREM SuspectedExactly == Spec => []SuspectsExactly
<1>1. IInv => SuspectsExactly
  <2> SUFFICES ASSUME IInv, at = "steward" \/ (at = "closing" /\ ~asked)
               PROVE  Suspicious(Recent) <=> Alarmed
    BY DEF IInv, Asking, SuspectsExactly
  <2>1. /\ since < Len(all) /\ round = all[Len(all)] /\ round \in Rounds
        /\ Len(all) \in Nat /\ since \in 0 .. Len(all)
        /\ recentFingerprints \in Seq(SUBSET Calls) /\ consecutiveErrors \in [Calls -> Nat]
    BY DEF IInv, Asking, Types
  <2>2. PICK s \in Seq(Rounds) : s = Recent /\ Len(s) = Len(all) - since
                                 /\ \A i \in 1 .. Len(s) : s[i] = all[since + i]
    BY RecentFacts DEF IInv
  <2>3. Len(s) \in 1 .. Len(all) /\ since + Len(s) = Len(all)
    BY <2>1, <2>2
  <2>4. s # <<>> /\ round = s[Len(s)]
    BY <2>1, <2>2, <2>3
  <2>5. /\ Tracks(recentFingerprints, s)
        /\ \A c \in Calls : consecutiveErrors[c] = FailuresInARow(c, s)
    BY <2>2 DEF IInv, Detecting
  <2>6. Suspicious(s) <=> SameArgs(recentFingerprints) \/ SameError(consecutiveErrors, round)
    BY <2>1, <2>4, <2>5, SuspicionFacts
  <2> QED BY <2>2, <2>6 DEF Alarmed
<1> QED BY <1>1, InvariantHolds, PTL

\* An agent that repeats a failing call is stopped within the rounds that both
\* triggers allow, unless the steward lets it go on.
THEOREM SpinnersStopped == Spec => []SpinnerStopped
<1>1. IInv => SpinnerStopped
  <2> SUFFICES ASSUME IInv, at = "model", ~lenient, NEW c \in Calls
               PROVE  Spinning(c) < ErrorTrigger + PostNudgeErrorTrigger
    BY DEF SpinnerStopped
  <2>1. /\ Spinning(c) \in Nat
        /\ Spinning(c) < ErrorTrigger + (IF nudgeSent THEN PostNudgeErrorTrigger ELSE 0)
    BY DEF IInv, Stopping
  <2> QED BY <2>1, Bounds
<1> QED BY <1>1, InvariantHolds, PTL

\* Calls that are all different leave the detector without a suspicion, with
\* triggers above one: a trigger of one suspects the first round of all.
THEOREM ExplorersUndisturbed ==
  ASSUME SameArgsTrigger > 1, ErrorTrigger > 1
  PROVE  Spec => []ExplorationUndisturbed
<1>1. IInv => ExplorationUndisturbed
  <2> SUFFICES ASSUME IInv, at = "steward", ~nudgeSent
               PROVE  \E c \in Calls : \E p, q \in Made(c, all) : p # q
    BY DEF ExplorationUndisturbed
  <2>1. /\ Alarmed /\ round \in Rounds /\ all \in Seq(Rounds) /\ since = 0
        /\ Len(all) \in Nat /\ consecutiveErrors \in [Calls -> Nat]
    BY DEF IInv, Asking, Types
  <2>2. Recent = all
    BY <2>1, SubSeqFull DEF Recent
  <2>3. CASE SameArgs(recentFingerprints)
    <3>1. /\ recentFingerprints \in Seq(SUBSET Calls) /\ Len(recentFingerprints) = SameArgsTrigger
          /\ Len(recentFingerprints) <= Len(all)
          /\ \A i \in 1 .. Len(recentFingerprints) :
               recentFingerprints[i] = CallsOf(all[Len(all) - i + 1])
      <4>1. Tracks(recentFingerprints, all)
        BY <2>2 DEF IInv, Detecting
      <4>2. Len(recentFingerprints) = SameArgsTrigger
        BY <2>3 DEF SameArgs
      <4>3. Len(recentFingerprints) <= Len(all)
        BY <2>1, <4>1, Bounds DEF Tracks
      <4> QED BY <4>1, <4>2, <4>3 DEF Tracks
    <3>2. 1 \in 1 .. Len(recentFingerprints) /\ 2 \in 1 .. Len(recentFingerprints)
      BY <3>1, Bounds
    <3>3. PICK c \in recentFingerprints[1] :
            \A i \in DOMAIN recentFingerprints : c \in recentFingerprints[i]
      BY <2>3 DEF SameArgs
    <3>4. c \in CallsOf(all[Len(all)]) /\ c \in CallsOf(all[Len(all) - 1])
      <4>1. recentFingerprints[1] = CallsOf(all[Len(all) - 1 + 1])
        BY <3>1, <3>2
      <4>2. recentFingerprints[2] = CallsOf(all[Len(all) - 2 + 1])
        BY <3>1, <3>2
      <4>3. Len(all) - 1 + 1 = Len(all) /\ Len(all) - 2 + 1 = Len(all) - 1
        BY <2>1
      <4>4. 2 \in DOMAIN recentFingerprints
        BY <3>1, <3>2
      <4> QED BY <3>3, <4>1, <4>2, <4>3, <4>4
    <3>5. Len(all) \in 1 .. Len(all) /\ Len(all) - 1 \in 1 .. Len(all)
      BY <2>1, <3>1, <3>2
    <3>6. PICK p \in Made(c, all) : p[1] = Len(all)
      BY <2>1, <3>4, <3>5, CallMade
    <3>7. PICK q \in Made(c, all) : q[1] = Len(all) - 1
      BY <2>1, <3>4, <3>5, CallMade
    <3>8. c \in Calls
      BY <3>1, <3>2, <3>3
    <3>9. p # q
      BY <2>1, <3>6, <3>7
    <3> QED BY <3>6, <3>7, <3>8, <3>9
  <2>4. CASE SameError(consecutiveErrors, round)
    <3>1. PICK i \in DOMAIN round : consecutiveErrors[round[i].call] >= ErrorTrigger
      BY <2>4 DEF SameError, Trigger
    <3>2. round[i].call \in Calls
      BY <2>1, RoundFacts
    <3>3. PICK c \in Calls : c = round[i].call
      BY <3>2
    <3>4. FailuresInARow(c, all) >= 2
      <4>1. consecutiveErrors[c] = FailuresInARow(c, all)
        BY <2>2 DEF IInv, Detecting
      <4>2. consecutiveErrors[c] \in Nat /\ consecutiveErrors[c] >= ErrorTrigger
        BY <2>1, <3>1, <3>3
      <4> QED BY <4>1, <4>2, Bounds
    <3>5. Streak(c, all) \subseteq Made(c, all) /\ IsFiniteSet(Streak(c, all))
          /\ Cardinality(Streak(c, all)) >= 2
      <4>1. IsFiniteSet(Made(c, all)) /\ Streak(c, all) \subseteq Made(c, all)
        BY <2>1, MadeFinite DEF Streak
      <4> QED BY <3>4, <4>1, FS_Subset DEF FailuresInARow, Streak
    <3>6. \E p, q \in Streak(c, all) : p # q
      BY <3>5, TwoOf
    <3> QED BY <3>5, <3>6
  <2> QED BY <2>1, <2>3, <2>4 DEF Alarmed
<1> QED BY <1>1, InvariantHolds, PTL
=============================================================================
