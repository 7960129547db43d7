------------------------------- MODULE Loops -------------------------------
(***************************************************************************)
(* What holds when a loop of a decoder ends. Step is a turn of the loop,   *)
(* with what the turn is for (a number, or an element of a sequence) and   *)
(* with what does not change; Holds is what every turn upholds. A fold     *)
(* takes an operator, which the provers do not quantify over, so that      *)
(* CodecProofs instantiates this module for each loop: it has no more than *)
(* the proofs need, and induction as a hypothesis, which is proved once.   *)
(***************************************************************************)
EXTENDS Integers

CONSTANTS Step(_, _, _), Holds(_, _)

\* What holds of 0, and of the next number whenever it holds of one, holds of all.
Inductive == \A S \in SUBSET Nat : 0 \in S /\ (\A n \in S : n + 1 \in S) => S = Nat

Last(s) == CHOOSE x \in s : \A y \in s : x >= y

\* FoldLeft over a sequence, and the loop of n turns.
Result(e, r, p) ==
    LET iter[s \in SUBSET DOMAIN r] ==
            IF s = {} THEN e
            ELSE LET x == Last(s) IN Step(iter[s \ {x}], r[x], p)
    IN  iter[DOMAIN r]
Counted(n) == [i \in 1..n |-> i]

\* The function a fold computes its result with: the states after each set of turns.
Folding(f, e, r, n, p) ==
    f = [s \in SUBSET (1..n) |-> IF s = {} THEN e ELSE Step(f[s \ {Last(s)}], r[Last(s)], p)]

\* The last of the turns up to one.
LEMMA LastTurn ==
    ASSUME NEW m \in Nat, NEW s \in SUBSET (1 .. m + 1), m + 1 \in s
    PROVE  Last(s) = m + 1
<1>1. \A y \in s : m + 1 >= y
  OBVIOUS
<1>2. \A x \in s : (\A y \in s : x >= y) => x = m + 1
  OBVIOUS
<1> QED BY <1>1, <1>2 DEF Last

\* The turns before the last.
LEMMA TurnsBefore ==
    ASSUME NEW m \in Nat
    PROVE  (1 .. m + 1) \ {m + 1} = 1..m
<1>1. \A k \in Int : k \in (1 .. m + 1) \ {m + 1} <=> k \in 1..m
  OBVIOUS
<1> QED BY <1>1

\* There is such a function for any number of turns.
LEMMA FoldingExists ==
    ASSUME Inductive, NEW e, NEW r, NEW p, NEW n \in Nat
    PROVE  \E f : Folding(f, e, r, n, p)
<1> DEFINE S == {m \in Nat : \E f : Folding(f, e, r, m, p)}
<1>1. 0 \in S
  <2> DEFINE f == [s \in SUBSET (1..0) |-> e]
  <2>1. \A s \in SUBSET (1..0) : s = {}
    OBVIOUS
  <2>2. f = [s \in SUBSET (1..0) |-> IF s = {} THEN e ELSE Step(f[s \ {Last(s)}], r[Last(s)], p)]
    BY <2>1
  <2>3. Folding(f, e, r, 0, p)
    BY <2>2 DEF Folding
  <2> QED BY <2>3
<1>2. ASSUME NEW m \in S PROVE m + 1 \in S
  <2>1. PICK f : Folding(f, e, r, m, p)
    OBVIOUS
  <2> DEFINE g == [s \in SUBSET (1 .. m + 1) |->
                    IF m + 1 \in s THEN Step(f[s \ {m + 1}], r[m + 1], p) ELSE f[s]]
             h == [s \in SUBSET (1 .. m + 1) |->
                    IF s = {} THEN e ELSE Step(g[s \ {Last(s)}], r[Last(s)], p)]
  <2>2. ASSUME NEW s \in SUBSET (1 .. m + 1) PROVE h[s] = g[s]
    <3>1. CASE m + 1 \in s
      <4>1. Last(s) = m + 1 /\ s # {}
        BY <3>1, LastTurn
      <4>2. s \ {m + 1} \in SUBSET (1 .. m + 1) /\ m + 1 \notin s \ {m + 1}
        OBVIOUS
      <4>3. g[s \ {m + 1}] = f[s \ {m + 1}]
        BY <4>2
      <4>4. h[s] = Step(g[s \ {m + 1}], r[m + 1], p)
        BY <4>1
      <4>5. g[s] = Step(f[s \ {m + 1}], r[m + 1], p)
        BY <3>1
      <4> QED BY <4>3, <4>4, <4>5
    <3>2. CASE m + 1 \notin s /\ s # {}
      <4>1. s \in SUBSET (1..m)
        BY <3>2
      <4>2. g[s] = f[s] /\ f[s] = Step(f[s \ {Last(s)}], r[Last(s)], p)
        BY <2>1, <3>2, <4>1 DEF Folding
      <4>3. s \ {Last(s)} \in SUBSET (1 .. m + 1) /\ m + 1 \notin s \ {Last(s)}
        BY <3>2
      <4>4. g[s \ {Last(s)}] = f[s \ {Last(s)}]
        BY <4>3
      <4>5. h[s] = Step(g[s \ {Last(s)}], r[Last(s)], p)
        BY <3>2
      <4> QED BY <4>2, <4>4, <4>5
    <3>3. CASE s = {}
      <4>1. {} \in SUBSET (1..m)
        OBVIOUS
      <4>2. f[{}] = e
        BY <2>1, <4>1 DEF Folding
      <4>3. h[s] = e /\ g[s] = f[{}]
        BY <3>3
      <4> QED BY <4>2, <4>3
    <3> QED BY <3>1, <3>2, <3>3
  <2>3. g = h
    <3> HIDE DEF Folding
    <3>1. \A s \in SUBSET (1 .. m + 1) : g[s] = h[s]
      BY <2>2
    <3> QED BY <3>1
  <2>4. Folding(g, e, r, m + 1, p)
    BY <2>3 DEF Folding
  <2> QED BY <2>4
<1>3. S = Nat
  <2> HIDE DEF S
  <2>1. S \in SUBSET Nat
    BY DEF S
  <2> QED BY <1>1, <1>2, <2>1 DEF Inductive
<1> QED BY <1>3

\* What every turn upholds holds after any number of turns.
LEMMA FoldingHolds ==
    ASSUME Inductive, NEW e, NEW r, NEW p, NEW n \in Nat, NEW f, Folding(f, e, r, n, p), Holds(e, p),
           \A u : \A i \in 1..n : Holds(u, p) => Holds(Step(u, r[i], p), p)
    PROVE  Holds(f[1..n], p)
<1> DEFINE S == {m \in Nat : m <= n => Holds(f[1..m], p)}
<1>1. 0 \in S
  <2>1. 1..0 = {} /\ {} \in SUBSET (1..n)
    OBVIOUS
  <2>2. f[{}] = e
    BY <2>1 DEF Folding
  <2> QED BY <2>1, <2>2
<1>2. ASSUME NEW m \in S PROVE m + 1 \in S
  <2> SUFFICES ASSUME m + 1 <= n PROVE Holds(f[1 .. m + 1], p)
    OBVIOUS
  <2>1. Holds(f[1..m], p)
    OBVIOUS
  <2>2. /\ 1 .. m + 1 \in SUBSET (1..n) /\ m + 1 \in 1 .. m + 1 /\ 1 .. m + 1 # {}
        /\ m + 1 \in 1..n
    <3>1. m \in Nat /\ m + 1 <= n
      OBVIOUS
    <3> HIDE DEF S
    <3>2. m + 1 \in 1 .. m + 1 /\ m + 1 \in 1..n
      BY <3>1
    <3>3. 1 .. m + 1 \subseteq 1..n
      BY <3>1
    <3> QED BY <3>2, <3>3
  <2>3. Last(1 .. m + 1) = m + 1
    <3>1. 1 .. m + 1 \in SUBSET (1 .. m + 1)
      OBVIOUS
    <3> QED BY <2>2, <3>1, LastTurn
  <2>4. (1 .. m + 1) \ {m + 1} = 1..m
    <3>1. m \in Nat
      OBVIOUS
    <3> QED BY <3>1, TurnsBefore
  <2>5. f[1 .. m + 1] = Step(f[1..m], r[m + 1], p)
    BY <2>2, <2>3, <2>4 DEF Folding
  <2> QED BY <2>1, <2>2, <2>5
<1>3. S = Nat
  <2> HIDE DEF S
  <2>1. S \in SUBSET Nat
    BY DEF S
  <2> QED BY <1>1, <1>2, <2>1 DEF Inductive
<1> QED BY <1>3

\* A loop ends with what its turns uphold.
THEOREM LoopHolds ==
    ASSUME Inductive, NEW e, NEW p, NEW r, NEW n \in Nat, DOMAIN r = 1..n, Holds(e, p),
           \A u : \A i \in 1..n : Holds(u, p) => Holds(Step(u, r[i], p), p)
    PROVE  Holds(Result(e, r, p), p)
<1> DEFINE Top(f) == f = [s \in SUBSET (DOMAIN r) |->
                            IF s = {} THEN e ELSE LET x == Last(s) IN Step(f[s \ {x}], r[x], p)]
<1>1. \A f : Top(f) <=> Folding(f, e, r, n, p)
  BY DEF Folding
<1>2. PICK g : Top(g)
  BY <1>1, FoldingExists
<1>3. PICK f : f = CHOOSE h : Top(h)
  OBVIOUS
<1>4. Top(f)
  BY <1>2, <1>3
<1>5. Result(e, r, p) = f[DOMAIN r]
  BY <1>3 DEF Result
<1>6. Holds(f[1..n], p)
  BY <1>1, <1>4, FoldingHolds
<1> QED BY <1>5, <1>6

\* A loop of a number of turns, or of none, ends with what its turns uphold.
THEOREM TurnsHold ==
    ASSUME Inductive, NEW e, NEW p, NEW n \in Int, Holds(e, p),
           \A u : \A i \in 1..n : Holds(u, p) => Holds(Step(u, i, p), p)
    PROVE  Holds(Result(e, Counted(n), p), p)
<1>1. PICK m \in Nat : m = IF n < 0 THEN 0 ELSE n
  OBVIOUS
<1>2. 1..m = 1..n
  BY <1>1
<1>3. DOMAIN Counted(n) = 1..m /\ \A i \in 1..m : Counted(n)[i] = i
  BY <1>2 DEF Counted
<1>4. \A u : \A i \in 1..m : Holds(u, p) => Holds(Step(u, Counted(n)[i], p), p)
  BY <1>2, <1>3
<1> QED BY <1>3, <1>4, LoopHolds
=============================================================================
