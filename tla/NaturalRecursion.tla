-------------------------- MODULE NaturalRecursion --------------------------
(***************************************************************************)
(* Induction and recursion over the natural numbers, stated over sets and  *)
(* functions: what holds is the set of the numbers for which it holds, and *)
(* a step of a recursion is a function of the number and the value so far. *)
(* The proofs about recursive functions and folds of the other modules     *)
(* rest on these facts.                                                    *)
(***************************************************************************)
EXTENDS Integers, WellFoundedInduction, TLAPS

(* A non-empty set of natural numbers has a least element. *)
LEMMA LeastElement ==
    ASSUME NEW S \in SUBSET Nat, S # {}
    PROVE  \E x \in S : \A y \in S : x <= y
<1>1. IsWellFoundedOn(OpToRel(<, Nat), Nat)
  BY NatLessThanWellFounded
<1>2. PICK x \in S : \A y \in S : ~ (<<y, x>> \in OpToRel(<, Nat))
  <2> HIDE DEF OpToRel, IsWellFoundedOn
  <2> QED BY <1>1, WFMin
<1>3. \A y \in S : ~ (y < x)
  BY <1>2 DEF OpToRel
<1> QED BY <1>3

(* A set that has 0, and n + 1 whenever it has n, has every natural number. *)
LEMMA Induction ==
    ASSUME NEW S, 0 \in S, \A n \in Nat : n \in S => n + 1 \in S
    PROVE  \A n \in Nat : n \in S
<1> SUFFICES ASSUME Nat \ S # {} PROVE FALSE
  OBVIOUS
<1>1. PICK x \in Nat \ S : \A y \in Nat \ S : x <= y
  BY LeastElement
<1>2. x # 0 /\ x - 1 \in Nat
  BY <1>1
<1>3. x - 1 \in S
  BY <1>1, <1>2
<1> QED BY <1>1, <1>2, <1>3

(* g runs from base for n steps. *)
Runs(g, n, base, step) ==
    /\ g[0] = base
    /\ \A k \in 0 .. n - 1 : g[k + 1] = step[<<k, g[k]>>]

(* Two runs of the same steps agree as far as both go. *)
LEMMA RunsAgree ==
    ASSUME NEW base, NEW step, NEW g, NEW h, NEW n \in Nat, NEW m \in Nat, n <= m,
           Runs(g, n, base, step), Runs(h, m, base, step)
    PROVE  \A k \in 0 .. n : g[k] = h[k]
<1> DEFINE S == {k \in Nat : k <= n => g[k] = h[k]}
<1>1. 0 \in S
  BY DEF Runs
<1>2. ASSUME NEW k \in Nat, k \in S PROVE k + 1 \in S
  <2> SUFFICES ASSUME k + 1 <= n PROVE g[k + 1] = h[k + 1]
    OBVIOUS
  <2>1. k \in 0 .. n - 1 /\ k \in 0 .. m - 1 /\ g[k] = h[k]
    BY <1>2
  <2> QED BY <2>1 DEF Runs
<1> HIDE DEF S
<1>3. \A k \in Nat : k \in S
  BY <1>1, <1>2, Induction
<1> QED BY <1>3 DEF S

(* A recursion whose steps stay among the values V has a run of every length. *)
LEMMA RunExists ==
    ASSUME NEW V, NEW base \in V, NEW step,
           \A n \in Nat, v \in V : step[<<n, v>>] \in V
    PROVE  \A n \in Nat : \E g \in [0 .. n -> V] : Runs(g, n, base, step)
<1> DEFINE S == {n \in Nat : \E g \in [0 .. n -> V] : Runs(g, n, base, step)}
<1>1. 0 \in S
  <2> DEFINE g == [k \in 0 .. 0 |-> base]
  <2>1. g \in [0 .. 0 -> V] /\ Runs(g, 0, base, step)
    BY DEF Runs
  <2> HIDE DEF g
  <2> QED BY <2>1
<1>2. ASSUME NEW n \in Nat, n \in S PROVE n + 1 \in S
  <2>1. PICK g \in [0 .. n -> V] : Runs(g, n, base, step)
    BY <1>2
  <2> DEFINE h == [k \in 0 .. n + 1 |-> IF k <= n THEN g[k] ELSE step[<<n, g[n]>>]]
  <2>2. h \in [0 .. n + 1 -> V]
    OBVIOUS
  <2>3. Runs(h, n + 1, base, step)
    <3>1. h[0] = base
      BY <2>1 DEF Runs
    <3>2. ASSUME NEW k \in 0 .. n PROVE h[k + 1] = step[<<k, h[k]>>]
      <4>1. h[k] = g[k] /\ h[k + 1] = (IF k + 1 <= n THEN g[k + 1] ELSE step[<<n, g[n]>>])
        OBVIOUS
      <4> HIDE DEF h
      <4>2. CASE k = n
        BY <4>1, <4>2
      <4>3. CASE k \in 0 .. n - 1
        <5>1. g[k + 1] = step[<<k, g[k]>>]
          BY <2>1, <4>3 DEF Runs
        <5> QED BY <5>1, <4>1, <4>3
      <4> QED BY <4>2, <4>3
    <3> HIDE DEF h
    <3> QED BY <3>1, <3>2 DEF Runs
  <2> HIDE DEF h
  <2> QED BY <2>2, <2>3
<1> HIDE DEF S
<1>3. \A n \in Nat : n \in S
  BY <1>1, <1>2, Induction
<1> QED BY <1>3 DEF S
=============================================================================
