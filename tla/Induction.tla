------------------------------- MODULE Induction -------------------------------
(***************************************************************************)
(* Induction and recursion up to a number, from the least number principle:*)
(* what the proofs about recursive functions of the other modules use. The *)
(* induction theorems of the library cannot be used, for they take an      *)
(* operator; here a set or a function stands for it.                       *)
(***************************************************************************)
EXTENDS Integers, WellFoundedInduction, TLAPS

\* a set of numbers that is not empty has a least one
LEMMA LeastExists ==
  ASSUME NEW I, I \subseteq Nat, I # {}
  PROVE  \E i \in I : \A j \in I : i <= j
<1> DEFINE R == {ss \in Nat \X Nat : ss[1] < ss[2]}
<1>1. IsWellFoundedOn(R, Nat)
  BY NatLessThanWellFounded DEF OpToRel
<1> HIDE DEF R
<1>2. PICK x \in I : \A y \in I : ~ (<<y, x>> \in R)
  BY <1>1, WFMin
<1>3. ASSUME NEW y \in I, y < x PROVE FALSE
  <2>1. <<y, x>> \in Nat \X Nat
    OBVIOUS
  <2>2. <<y, x>> \in R
    BY <1>3, <2>1 DEF R
  <2>3. QED
    BY <1>2, <2>2
<1>4. QED
  BY <1>3

\* what holds first, and after each step if before it, holds throughout
LEMMA Stepwise ==
  ASSUME NEW n \in Nat, NEW A, 0 \in A, \A i \in 1..n : i - 1 \in A => i \in A
  PROVE  0..n \subseteq A
<1> SUFFICES ASSUME NEW k \in (0..n) \ A PROVE FALSE
  OBVIOUS
<1> DEFINE B == (0..n) \ A
<1>0. B \subseteq Nat /\ B # {}
  OBVIOUS
<1>1. PICK m \in B : \A j \in B : m <= j
  <2> HIDE DEF B
  <2>1. QED
    BY <1>0, LeastExists
<1>2. m \in 1..n /\ m - 1 \in 0..n /\ ~(m <= m - 1)
  BY <1>1
<1>3. QED
  BY <1>1, <1>2

\* f is defined by recursion: a first, and then g of the place and the value before
Recurs(f, n, a, g) ==
  /\ f = [i \in 0..n |-> f[i]]
  /\ f[0] = a
  /\ \A i \in 1..n : f[i] = g[<<i, f[i-1]>>]
Within(f, n, I) == \A i \in 0..n : f[i] \in I[i]
Leads(g, n, I)  == \A i \in 1..n : \A x \in I[i-1] : g[<<i, x>>] \in I[i]

LEMMA RecursionExists ==
  ASSUME NEW n \in Nat, NEW I, NEW a \in I[0], NEW g, Leads(g, n, I)
  PROVE  \E f : Recurs(f, n, a, g) /\ Within(f, n, I)
<1> DEFINE Is(f, m) == Recurs(f, m, a, g) /\ Within(f, m, I)
           A == {m \in 0..n : \E f : Is(f, m)}
<1>1. 0 \in A
  <2>1. Is([i \in 0..0 |-> a], 0)
    BY DEF Recurs, Within
  <2> HIDE DEF Is
  <2>2. QED
    BY <2>1
<1>2. ASSUME NEW m \in 1..n, m - 1 \in A PROVE m \in A
  <2>1. PICK f : Is(f, m - 1)
    BY <1>2
  <2> DEFINE h == [i \in 0..m |-> IF i = m THEN g[<<m, f[m-1]>>] ELSE f[i]]
  <2>2. /\ h = [i \in 0..m |-> h[i]]
        /\ h[0] = a
    BY <2>1 DEF Recurs
  <2>3. h[m] = g[<<m, f[m-1]>>] /\ \A i \in 0..(m-1) : h[i] = f[i]
    OBVIOUS
  <2>4. \A i \in 1..m : h[i] = g[<<i, h[i-1]>>]
    <3> HIDE DEF h
    <3>1. SUFFICES ASSUME NEW i \in 1..m PROVE h[i] = g[<<i, h[i-1]>>]
      OBVIOUS
    <3>2. CASE i = m
      BY <2>3, <3>2
    <3>3. CASE i # m
      <4>1. i \in 1..(m-1) /\ i - 1 \in 0..(m-1) /\ i \in 0..(m-1)
        BY <3>3
      <4>2. QED
        BY <2>1, <2>3, <4>1 DEF Recurs
    <3>4. QED
      BY <3>2, <3>3
  <2>5. \A i \in 0..m : h[i] \in I[i]
    <3> HIDE DEF h
    <3>1. /\ f[m-1] \in I[m-1]
          /\ \A i \in 0..(m-1) : f[i] \in I[i]
      BY <2>1 DEF Within
    <3>2. \A i \in 0..m : i = m \/ i \in 0..(m-1)
      OBVIOUS
    <3>3. QED
      BY <2>3, <3>1, <3>2 DEF Leads
  <2> HIDE DEF h
  <2>6. Is(h, m)
    BY <2>2, <2>4, <2>5 DEF Recurs, Within
  <2> HIDE DEF Is
  <2>7. QED
    BY <2>6
<1> HIDE DEF Is
<1>3. n \in A
  <2> HIDE DEF A
  <2>1. 0..n \subseteq A
    BY <1>1, <1>2, Stepwise
  <2>2. QED
    BY <2>1
<1>4. PICK f : Is(f, n)
  BY <1>3
<1>5. QED
  BY <1>4 DEF Is
================================================================================
