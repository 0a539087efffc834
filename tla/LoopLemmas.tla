----------------------------- MODULE LoopLemmas -----------------------------
(***************************************************************************)
(* Loops over a list.  The components write such a loop as a function of   *)
(* the number of elements it has gone through; here is that there is such  *)
(* a function, and the induction over the numbers it is about.             *)
(***************************************************************************)
EXTENDS Integers, Sequences, WellFoundedInduction, TLAPS

LEMMA LeastNat ==
    ASSUME NEW S \in SUBSET Nat, S # {}
    PROVE  \E k \in S : \A j \in S : k <= j
<1> DEFINE Less == {ss \in Nat \X Nat : ss[1] < ss[2]}
<1>1. IsWellFoundedOn(Less, Nat)
  BY NatLessThanWellFounded DEF OpToRel
<1> HIDE DEF Less
<1>2. PICK k \in S : \A j \in S : <<j, k>> \notin Less
  BY <1>1, WFMin
<1>3. \A j, n \in Nat : j < n => <<j, n>> \in Less
  BY DEF Less
<1>4. ASSUME NEW j \in S PROVE k <= j
  <2>1. j \in Nat /\ k \in Nat /\ ~ j < k
    BY <1>2, <1>3
  <2> QED BY <2>1
<1> QED BY <1>4

(* Induction up to n, for a property given as the set of numbers it is     *)
(* true of.                                                                *)
LEMMA UpTo ==
    ASSUME NEW n \in Nat, NEW S, 0 \in S,
           \A k \in 0 .. n - 1 : k \in S => k + 1 \in S
    PROVE  \A k \in 0 .. n : k \in S
<1> DEFINE Out == (0 .. n) \ S
<1> SUFFICES ASSUME Out # {} PROVE FALSE
  OBVIOUS
<1>1. PICK k \in Out : \A j \in Out : k <= j
  <2>1. Out \in SUBSET Nat
    OBVIOUS
  <2> HIDE DEF Out
  <2> QED BY <2>1, LeastNat
<1>2. k # 0 /\ k - 1 \in 0 .. n - 1 /\ k - 1 \notin Out
  BY <1>1
<1>3. k - 1 \in S /\ (k - 1) + 1 = k
  BY <1>2
<1> QED BY <1>1, <1>2, <1>3

(* What a loop does: from base, step[i] is applied to what there is.       *)
Goes(f, n, base, step) ==
    /\ f[0] = base
    /\ \A i \in 1 .. n : f[i] = step[i][f[i - 1]]

LEMMA LoopExists ==
    ASSUME NEW X, NEW n \in Nat, NEW base \in X, NEW step \in [1 .. n -> [X -> X]]
    PROVE  \E f \in [0 .. n -> X] : Goes(f, n, base, step)
<1> DEFINE Can == {k \in 0 .. n : \E f \in [0 .. k -> X] : Goes(f, k, base, step)}
<1>1. 0 \in Can
  <2>1. Goes([i \in 0 .. 0 |-> base], 0, base, step)
    BY DEF Goes
  <2> QED BY <2>1
<1>2. ASSUME NEW k \in 0 .. n - 1, k \in Can PROVE k + 1 \in Can
  <2>1. PICK f \in [0 .. k -> X] : Goes(f, k, base, step)
    BY <1>2
  <2> DEFINE g == [i \in 0 .. k + 1 |-> IF i = k + 1 THEN step[k + 1][f[k]] ELSE f[i]]
  <2>2. step[k + 1][f[k]] \in X
    <3>1. k + 1 \in 1 .. n /\ k \in 0 .. k
      OBVIOUS
    <3> QED BY <3>1
  <2>3. g \in [0 .. k + 1 -> X]
    BY <2>2
  <2>4. Goes(g, k + 1, base, step)
    <3>1. g[0] = base
      BY <2>1 DEF Goes
    <3>2. ASSUME NEW i \in 1 .. k + 1 PROVE g[i] = step[i][g[i - 1]]
      <4>1. g[i - 1] = f[i - 1]
        OBVIOUS
      <4>2. CASE i = k + 1  BY <4>1, <4>2
      <4>3. CASE i # k + 1
        <5>1. i \in 1 .. k /\ g[i] = f[i]
          BY <4>3
        <5> QED BY <5>1, <4>1, <2>1 DEF Goes
      <4> QED BY <4>2, <4>3
    <3> QED BY <3>1, <3>2 DEF Goes
  <2> QED BY <2>3, <2>4
<1> HIDE DEF Can
<1>3. \A k \in 0 .. n : k \in Can
  BY <1>1, <1>2, UpTo
<1>4. n \in Can
  BY <1>3
<1> QED BY <1>4 DEF Can
=============================================================================
