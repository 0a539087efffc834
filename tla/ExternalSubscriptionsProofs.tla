-------------------- MODULE ExternalSubscriptionsProofs --------------------
(***************************************************************************)
(* What holds of the external subscriptions for every set of feeds, urls,  *)
(* labels and bodies.                                                      *)
(*                                                                         *)
(* The slugs: a list of entries has one order by link and label, for two   *)
(* lists in order with the same entries are nowhere apart (OneOrder); the  *)
(* loop over it gives every entry a slug that was free (Given), so a slug  *)
(* refers to one entry, and the entries decide on the slugs.               *)
(*                                                                         *)
(* The file: a process that was not misled has the file as it is now as    *)
(* its copy (Copies), because a save by the other process and a failed     *)
(* read both make it misled, and time passes for file and copy alike.      *)
(***************************************************************************)
EXTENDS ExternalSubscriptions, LoopLemmas, FiniteSetTheorems

-----------------------------------------------------------------------------
LEMMA FirstNumbers ==
    ASSUME NEW k \in Nat
    PROVE  IsFiniteSet(1 .. k) /\ Cardinality(1 .. k) = k
<1>1. /\ IsFiniteSet(1 .. k)
      /\ Cardinality(1 .. k) = IF 1 > k THEN 0 ELSE k - 1 + 1
  BY FS_Interval
<1> QED BY <1>1

(* Of more numbers than places two share one.                              *)
LEMMA Crowded ==
    ASSUME NEW k \in Nat, NEW T, IsFiniteSet(T), Cardinality(T) < k,
           NEW f \in [1 .. k -> T]
    PROVE  \E i, j \in 1 .. k : i # j /\ f[i] = f[j]
<1>1. IsFiniteSet(1 .. k) /\ Cardinality(T) < Cardinality(1 .. k)
  BY FirstNumbers
<1> QED BY <1>1, FS_PigeonHole

-----------------------------------------------------------------------------
(* Order among entries *)

LEMMA BeforeOrders ==
    \A e, f, g \in Entry :
        /\ ~ Before(e, e)
        /\ Before(e, f) /\ Before(f, g) => Before(e, g)
        /\ Before(e, f) \/ Before(f, e) \/ e = f
<1>1. \A e \in Entry : e.uri \in Nat /\ e.label \in Nat
  BY FeedsAssumption DEF Entry
<1>2. \A e, f \in Entry : e.uri = f.uri /\ e.label = f.label => e = f
  BY DEF Entry
<1> QED BY <1>1, <1>2 DEF Before

(* Where an entry goes: before the first that it is before.                *)
LEMMA PlaceFor ==
    ASSUME NEW k \in Nat, NEW a \in [1 .. k -> Entry], NEW x \in Entry
    PROVE  \E p \in 1 .. k + 1 :
              /\ p # k + 1 => Before(x, a[p])
              /\ \A i \in 1 .. k : i < p => ~ Before(x, a[i])
<1> DEFINE P == {p \in 1 .. k + 1 : p = k + 1 \/ Before(x, a[p])}
<1>1. PICK p \in P : \A j \in P : p <= j
  <2>1. P \in SUBSET Nat /\ k + 1 \in P
    OBVIOUS
  <2> HIDE DEF P
  <2> QED BY <2>1, LeastNat
<1>2. ASSUME NEW i \in 1 .. k, i < p PROVE ~ Before(x, a[i])
  <2>1. i \notin P
    BY <1>1, <1>2
  <2> QED BY <2>1
<1>3. p \in 1 .. k + 1 /\ (p # k + 1 => Before(x, a[p]))
  OBVIOUS
<1> QED BY <1>2, <1>3

Inserted(a, k, p, x) ==
    [i \in 1 .. k + 1 |-> IF i < p THEN a[i] ELSE IF i = p THEN x ELSE a[i - 1]]

LEMMA InsertedInOrder ==
    ASSUME NEW k \in Nat, NEW a \in [1 .. k -> Entry], InOrder(a),
           NEW x \in Entry, NEW p \in 1 .. k + 1,
           p # k + 1 => Before(x, a[p]),
           \A i \in 1 .. k : i < p => ~ Before(x, a[i])
    PROVE  InOrder(Inserted(a, k, p, x))
<1> DEFINE b == Inserted(a, k, p, x)
<1>1. \A i, j \in 1 .. k : i < j => ~ Before(a[j], a[i])
  BY DEF InOrder
<1>2. ASSUME NEW i \in 1 .. k + 1, NEW j \in 1 .. k + 1, i < j
      PROVE  ~ Before(b[j], b[i])
  <2>1. CASE j < p
    <3>1. i \in 1 .. k /\ j \in 1 .. k /\ b[j] = a[j] /\ b[i] = a[i]
      BY <1>2, <2>1 DEF Inserted
    <3> QED BY <1>1, <1>2, <3>1
  <2>2. CASE j = p
    <3>1. i \in 1 .. k /\ i < p /\ b[j] = x /\ b[i] = a[i]
      BY <1>2, <2>2 DEF Inserted
    <3> QED BY <3>1
  <2>3. CASE j > p /\ i < p
    <3>1. i \in 1 .. k /\ j - 1 \in 1 .. k /\ i < j - 1 /\ b[j] = a[j - 1] /\ b[i] = a[i]
      BY <1>2, <2>3 DEF Inserted
    <3> QED BY <1>1, <3>1
  <2>4. CASE j > p /\ i = p
    <3>1. /\ j - 1 \in 1 .. k /\ p \in 1 .. k /\ p # k + 1 /\ p <= j - 1
          /\ b[j] = a[j - 1] /\ b[i] = x
      BY <1>2, <2>4 DEF Inserted
    <3>2. a[j - 1] \in Entry /\ a[p] \in Entry /\ Before(x, a[p])
      BY <3>1
    <3>3. Before(a[j - 1], x) => Before(a[j - 1], a[p])
      BY <3>2, BeforeOrders
    <3>4. ~ Before(a[j - 1], a[p])
      <4>1. CASE p = j - 1  BY <3>2, <4>1, BeforeOrders
      <4>2. CASE p < j - 1  BY <1>1, <3>1, <4>2
      <4> QED BY <3>1, <4>1, <4>2
    <3> QED BY <3>1, <3>3, <3>4
  <2>5. CASE i > p
    <3>1. /\ i - 1 \in 1 .. k /\ j - 1 \in 1 .. k /\ i - 1 < j - 1
          /\ b[j] = a[j - 1] /\ b[i] = a[i - 1]
      BY <1>2, <2>5 DEF Inserted
    <3> QED BY <1>1, <3>1
  <2>6. i \in Nat /\ j \in Nat /\ p \in Nat
    OBVIOUS
  <2> QED BY <1>2, <2>1, <2>2, <2>3, <2>4, <2>5, <2>6
<1>3. DOMAIN b = 1 .. k + 1
  BY DEF Inserted
<1> HIDE DEF b
<1>4. InOrder(b)
  BY <1>2, <1>3 DEF InOrder
<1> QED BY <1>4 DEF b

LEMMA InsertedInjective ==
    ASSUME NEW k \in Nat, NEW o \in [1 .. k -> 1 .. k], IsInjective(o),
           NEW p \in 1 .. k + 1
    PROVE  LET q == Inserted(o, k, p, k + 1)
           IN  q \in [1 .. k + 1 -> 1 .. k + 1] /\ IsInjective(q)
<1> DEFINE q == Inserted(o, k, p, k + 1)
<1>1. \A i, j \in 1 .. k : o[i] = o[j] => i = j
  BY DEF IsInjective
<1>2. ASSUME NEW i \in 1 .. k + 1
      PROVE  /\ i < p => i \in 1 .. k /\ q[i] = o[i] /\ q[i] \in 1 .. k
             /\ i = p => q[i] = k + 1
             /\ i > p => i - 1 \in 1 .. k /\ q[i] = o[i - 1] /\ q[i] \in 1 .. k
  BY DEF Inserted
<1>3. q \in [1 .. k + 1 -> 1 .. k + 1]
  BY <1>2 DEF Inserted
<1> HIDE DEF q
<1>4. ASSUME NEW i \in 1 .. k + 1, NEW j \in 1 .. k + 1, q[i] = q[j] PROVE i = j
  <2>1. i < p \/ i = p \/ i > p
    OBVIOUS
  <2>2. j < p \/ j = p \/ j > p
    OBVIOUS
  <2>3. CASE i < p  BY <1>1, <1>2, <1>4, <2>2, <2>3
  <2>4. CASE i = p  BY <1>1, <1>2, <1>4, <2>2, <2>4
  <2>5. CASE i > p  BY <1>1, <1>2, <1>4, <2>2, <2>5
  <2> QED BY <2>1, <2>3, <2>4, <2>5
<1>5. IsInjective(q)
  BY <1>3, <1>4 DEF IsInjective
<1> QED BY <1>3, <1>5 DEF q

(* A list can be put in order, an entry after the other.                   *)
LEMMA CanBeSorted ==
    ASSUME NEW s \in Seq(Entry)
    PROVE  \E order \in Orders(s) : InOrder(Reordered(s, order))
<1> DEFINE n == Len(s)
           Part(k, o) == [i \in 1 .. k |-> s[o[i]]]
           Sorts(k, o) == /\ o \in [1 .. k -> 1 .. k] /\ IsInjective(o)
                          /\ InOrder(Part(k, o))
           Can == {k \in 0 .. n : \E o : Sorts(k, o)}
<1>1. 0 \in Can
  <2> DEFINE o == [i \in 1 .. 0 |-> i]
  <2>1. o \in [1 .. 0 -> 1 .. 0] /\ DOMAIN Part(0, o) = {} /\ DOMAIN o = {}
    OBVIOUS
  <2>2. IsInjective(o) /\ InOrder(Part(0, o))
    BY <2>1 DEF IsInjective, InOrder
  <2>3. Sorts(0, o)
    BY <2>1, <2>2
  <2> HIDE DEF o, Sorts
  <2> QED BY <2>3
<1>2. ASSUME NEW k \in 0 .. n - 1, k \in Can PROVE k + 1 \in Can
  <2>1. PICK o : Sorts(k, o)
    BY <1>2
  <2> DEFINE a == Part(k, o)
             x == s[k + 1]
  <2>2. k \in Nat /\ x \in Entry /\ a \in [1 .. k -> Entry] /\ InOrder(a)
    BY <2>1
  <2> HIDE DEF a, x
  <2>3. PICK p \in 1 .. k + 1 :
              /\ p # k + 1 => Before(x, a[p])
              /\ \A i \in 1 .. k : i < p => ~ Before(x, a[i])
    BY <2>2, PlaceFor
  <2> DEFINE q == Inserted(o, k, p, k + 1)
  <2>4. q \in [1 .. k + 1 -> 1 .. k + 1] /\ IsInjective(q)
    BY <2>1, <2>2, InsertedInjective
  <2>5. InOrder(Inserted(a, k, p, x))
    BY <2>2, <2>3, InsertedInOrder
  <2>6. Part(k + 1, q) = Inserted(a, k, p, x)
    <3>1. ASSUME NEW i \in 1 .. k + 1 PROVE s[q[i]] = Inserted(a, k, p, x)[i]
      <4>1. CASE i < p  BY <2>2, <4>1 DEF Inserted, a
      <4>2. CASE i = p  BY <2>2, <4>2 DEF Inserted, x
      <4>3. CASE i > p  BY <2>2, <4>3 DEF Inserted, a
      <4> QED BY <4>1, <4>2, <4>3
    <3>2. Part(k + 1, q) = [i \in 1 .. k + 1 |-> s[q[i]]]
      OBVIOUS
    <3> HIDE DEF q, Part
    <3>3. Inserted(a, k, p, x) = [i \in 1 .. k + 1 |-> Inserted(a, k, p, x)[i]]
      BY DEF Inserted
    <3> QED BY <3>1, <3>2, <3>3
  <2>7. Sorts(k + 1, q)
    BY <2>4, <2>5, <2>6
  <2> HIDE DEF q, Sorts
  <2>8. k + 1 \in 0 .. n
    OBVIOUS
  <2> QED BY <2>7, <2>8
<1> HIDE DEF Can
<1>3. \A k \in 0 .. n : k \in Can
  BY <1>1, <1>2, UpTo
<1>4. n \in Can
  BY <1>3
<1>5. PICK o : Sorts(n, o)
  BY <1>4 DEF Can
<1>6. DOMAIN s = 1 .. n /\ Part(n, o) = Reordered(s, o)
  BY DEF Reordered
<1> QED BY <1>5, <1>6 DEF Orders

LEMMA SortedIs ==
    ASSUME NEW s \in Seq(Entry)
    PROVE  /\ Sorted(s) \in Seq(Entry) /\ Len(Sorted(s)) = Len(s)
           /\ InOrder(Sorted(s))
           /\ \E order \in Orders(s) : Sorted(s) = Reordered(s, order)
<1>1. Sorted(s) \in {Reordered(s, order) : order \in Orders(s)} /\ InOrder(Sorted(s))
  BY CanBeSorted DEF Sorted
<1>2. PICK order \in Orders(s) : Sorted(s) = Reordered(s, order)
  BY <1>1
<1>3. order \in [1 .. Len(s) -> 1 .. Len(s)]
  BY DEF Orders
<1>4. Sorted(s) \in [1 .. Len(s) -> Entry]
  BY <1>2, <1>3 DEF Reordered
<1> QED BY <1>1, <1>2, <1>4

(* Of two lists in order, with the entries of the first all in the second, *)
(* the first is nowhere ahead.                                             *)
LEMMA NowhereAhead ==
    ASSUME NEW n \in Nat, NEW s \in [1 .. n -> Entry], NEW t \in [1 .. n -> Entry],
           InOrder(s), InOrder(t),
           NEW g \in [1 .. n -> 1 .. n], IsInjective(g), \A i \in 1 .. n : s[i] = t[g[i]],
           NEW k \in 1 .. n
    PROVE  ~ Before(s[k], t[k])
<1> SUFFICES ASSUME Before(s[k], t[k]) PROVE FALSE
  OBVIOUS
<1>1. PICK m \in Nat : m = k - 1
  OBVIOUS
<1>2. ASSUME NEW i \in 1 .. k PROVE g[i] \in 1 .. m
  <2>1. s[i] \in Entry /\ s[k] \in Entry /\ t[k] \in Entry /\ g[i] \in 1 .. n /\ i \in 1 .. n
    OBVIOUS
  <2>2. i = k \/ ~ Before(s[k], s[i])
    BY <2>1 DEF InOrder
  <2>3. Before(t[g[i]], t[k])
    BY <2>1, <2>2, BeforeOrders
  <2>4. g[i] # k /\ ~ k < g[i]
    BY <2>1, <2>3, BeforeOrders DEF InOrder
  <2> QED BY <1>1, <2>1, <2>4
<1> DEFINE h == [i \in 1 .. k |-> g[i]]
<1>3. h \in [1 .. k -> 1 .. m]
  BY <1>2
<1>4. \A i, j \in 1 .. k : i # j => h[i] # h[j]
  <2>1. \A i, j \in 1 .. n : g[i] = g[j] => i = j
    BY DEF IsInjective
  <2> QED BY <2>1
<1> HIDE DEF h
<1>5. IsFiniteSet(1 .. m) /\ Cardinality(1 .. m) = m /\ m < k /\ k \in Nat
  BY <1>1, FirstNumbers
<1>6. Cardinality(1 .. m) < k
  BY <1>1, <1>5
<1>7. \E i, j \in 1 .. k : i # j /\ h[i] = h[j]
  <2> DEFINE S == 1 .. k
             T == 1 .. m
  <2>1. h \in [S -> T] /\ IsFiniteSet(S) /\ IsFiniteSet(T) /\ Cardinality(T) < Cardinality(S)
    BY <1>3, <1>5, <1>6, FirstNumbers
  <2> HIDE DEF S, T
  <2>2. \E i, j \in S : i # j /\ h[i] = h[j]
    BY <2>1, FS_PigeonHole
  <2> QED BY <2>2 DEF S
<1> QED BY <1>4, <1>7

(* A list in order is the only order of its entries.                       *)
LEMMA OneOrder ==
    ASSUME NEW s \in Seq(Entry), InOrder(s),
           NEW order \in Orders(s), InOrder(Reordered(s, order))
    PROVE  Reordered(s, order) = s
<1> DEFINE n == Len(s)
           t == Reordered(s, order)
           g == [i \in 1 .. n |-> CHOOSE j \in 1 .. n : order[j] = i]
<1>1. /\ s \in [1 .. n -> Entry] /\ n \in Nat
      /\ order \in [1 .. n -> 1 .. n] /\ IsInjective(order)
  BY DEF Orders
<1>2. t \in [1 .. n -> Entry] /\ \A i \in 1 .. n : t[i] = s[order[i]]
  BY <1>1 DEF Reordered
<1>3. \A i \in 1 .. n : \E j \in 1 .. n : order[j] = i
  <2>1. order \in Injection(1 .. n, 1 .. n)
    BY <1>1 DEF Injection
  <2>2. IsFiniteSet(1 .. n)
    BY <1>1, FS_Interval
  <2>3. order \in Surjection(1 .. n, 1 .. n)
    BY <2>1, <2>2, FS_Injection
  <2> QED BY <2>3 DEF Surjection
<1>4. /\ g \in [1 .. n -> 1 .. n]
      /\ \A i \in 1 .. n : order[g[i]] = i
  BY <1>3
<1>5. IsInjective(g) /\ \A i \in 1 .. n : s[i] = t[g[i]]
  BY <1>2, <1>4 DEF IsInjective
<1> HIDE DEF t, g
<1>6. ASSUME NEW k \in 1 .. n PROVE t[k] = s[k]
  <2>1. InOrder(t)
    BY DEF t
  <2>2. ~ Before(s[k], t[k])
    BY <1>1, <1>2, <1>4, <1>5, <2>1, NowhereAhead
  <2>3. ~ Before(t[k], s[k])
    BY <1>1, <1>2, <2>1, NowhereAhead
  <2> QED BY <1>1, <1>2, <2>2, <2>3, BeforeOrders
<1> QED BY <1>1, <1>2, <1>6 DEF t
-----------------------------------------------------------------------------
(* Slugs *)

Slug == Seq(Word \cup Nat)
Inbound == [slug : Slug, label : Label, uri : Uri]

LEMMA FreeSlugIs ==
    ASSUME NEW base \in Slug, NEW used, IsFiniteSet(used)
    PROVE  LET s == FreeSlug(base, used)
           IN  /\ s \in Slug /\ s \notin used
               /\ s = base \/ \E k \in Nat : s = Append(base, k)
               /\ base \notin used => s = base
<1> DEFINE numbered(k) == IF k = 1 THEN base ELSE Append(base, k)
           N == Cardinality(used) + 1
           Free == {k \in 1 .. N : numbered(k) \notin used}
<1>1. N \in Nat /\ N >= 1 /\ Cardinality(used) < N
  BY FS_CardinalityType
<1>2. \A i, j \in 1 .. N : i # j => numbered(i) # numbered(j)
  <2>1. \A k \in Nat : Append(base, k)[Len(base) + 1] = k /\ Append(base, k) # base
    BY DEF Slug
  <2> SUFFICES ASSUME NEW i \in 1 .. N, NEW j \in 1 .. N, i # j, numbered(i) = numbered(j)
               PROVE  FALSE
    OBVIOUS
  <2> HIDE DEF N
  <2>2. i \in Nat /\ j \in Nat
    BY <1>1
  <2>3. CASE i = 1  BY <2>1, <2>2, <2>3
  <2>4. CASE j = 1  BY <2>1, <2>2, <2>4
  <2>5. CASE i # 1 /\ j # 1
    BY <2>1, <2>2, <2>5
  <2> QED BY <2>3, <2>4, <2>5
<1>3. Free # {}
  <2> SUFFICES ASSUME Free = {} PROVE FALSE
    OBVIOUS
  <2> DEFINE f == [k \in 1 .. N |-> numbered(k)]
  <2>1. f \in [1 .. N -> used]
    OBVIOUS
  <2>2. \A i, j \in 1 .. N : i # j => f[i] # f[j]
    BY <1>2
  <2> HIDE DEF f, N
  <2> QED BY <1>1, <2>1, <2>2, Crowded
<1>4. PICK k \in Free : \A j \in Free : k <= j
  <2>1. Free \in SUBSET Nat
    OBVIOUS
  <2> HIDE DEF Free
  <2> QED BY <1>3, <2>1, LeastNat
<1> DEFINE first == CHOOSE i \in 1 .. N : /\ numbered(i) \notin used
                                          /\ \A j \in 1 .. i - 1 : numbered(j) \in used
<1>5. /\ k \in 1 .. N /\ numbered(k) \notin used
      /\ \A j \in 1 .. k - 1 : numbered(j) \in used
  <2>1. ASSUME NEW j \in 1 .. k - 1 PROVE numbered(j) \in used
    <3>1. j \notin Free /\ j \in 1 .. N
      BY <1>1, <1>4
    <3> QED BY <3>1
  <2> QED BY <2>1
<1>6. /\ first \in 1 .. N /\ numbered(first) \notin used
      /\ \A j \in 1 .. first - 1 : numbered(j) \in used
  <2> HIDE DEF numbered, N
  <2> QED BY <1>5
<1>7. base \notin used => first = 1
  <2> SUFFICES ASSUME base \notin used, first # 1 PROVE FALSE
    OBVIOUS
  <2>1. 1 \in 1 .. first - 1
    BY <1>1, <1>6
  <2>2. numbered(1) \in used
    BY <1>6, <2>1
  <2> QED BY <2>2
<1>8. FreeSlug(base, used) = numbered(first)
  BY DEF FreeSlug
<1>9. numbered(first) \in Slug /\ (first = 1 \/ numbered(first) = Append(base, first))
  <2>1. first \in Nat
    BY <1>6
  <2> HIDE DEF first
  <2> QED BY <2>1 DEF Slug
<1>10. first \in Nat
  BY <1>6
<1> HIDE DEF first
<1> QED BY <1>6, <1>7, <1>8, <1>9, <1>10

InboundFor(known, e) ==
    [slug |-> FreeSlug(Words[e.label], SlugsOf(known)), label |-> e.label, uri |-> e.uri]

LEMMA SlugsFinite ==
    ASSUME NEW known \in Seq(Inbound)
    PROVE  IsFiniteSet(SlugsOf(known))
<1> DEFINE f == [i \in 1 .. Len(known) |-> known[i].slug]
<1>1. f \in Surjection(1 .. Len(known), SlugsOf(known))
  BY DEF Surjection, SlugsOf
<1>2. IsFiniteSet(1 .. Len(known))
  BY FS_Interval
<1> QED BY <1>1, <1>2, FS_Surjection

LEMMA InboundForType ==
    ASSUME NEW known \in Seq(Inbound), NEW e \in Entry
    PROVE  /\ InboundFor(known, e) \in Inbound
           /\ Words[e.label] \in Slug
<1>1. e.label \in Label /\ e.uri \in Uri /\ Words[e.label] \in Slug
  BY WordsAssumption DEF Entry, Slug
<1> QED BY <1>1, SlugsFinite, FreeSlugIs DEF InboundFor, Inbound

(* The loop of assign_slugs, entry by entry.                               *)
LEMMA SluggedLoop ==
    ASSUME NEW es \in Seq(Entry)
    PROVE  \E f :
              /\ Slugged(es) = f[Len(es)] /\ f[0] = <<>>
              /\ \A i \in 1 .. Len(es) :
                    f[i] = Append(f[i - 1], InboundFor(f[i - 1], es[i]))
<1> DEFINE n == Len(es)
           X == Seq(Inbound)
           step == [i \in 1 .. n |-> [known \in X |->
                      Append(known, InboundFor(known, es[i]))]]
           G(h) == [i \in 0 .. n |->
                      IF i = 0 THEN <<>>
                      ELSE Append(h[i - 1], InboundFor(h[i - 1], es[i]))]
           u == CHOOSE h : h = G(h)
<1>1. n \in Nat /\ <<>> \in X /\ step \in [1 .. n -> [X -> X]]
  BY InboundForType
<1>2. PICK f \in [0 .. n -> X] : Goes(f, n, <<>>, step)
  <2> HIDE DEF step, X, n
  <2> QED BY <1>1, LoopExists
<1>3. /\ f[0] = <<>>
      /\ \A i \in 1 .. n : f[i] = Append(f[i - 1], InboundFor(f[i - 1], es[i]))
  <2>1. ASSUME NEW i \in 1 .. n
        PROVE  f[i] = Append(f[i - 1], InboundFor(f[i - 1], es[i]))
    <3>1. f[i] = step[i][f[i - 1]] /\ f[i - 1] \in X
      <4> HIDE DEF step, X
      <4>1. i - 1 \in 0 .. n
        OBVIOUS
      <4> QED BY <1>2, <4>1 DEF Goes
    <3> QED BY <3>1
  <2> QED BY <1>2, <2>1 DEF Goes
<1>4. f = G(f)
  BY <1>3
<1>5. u = G(u)
  <2> HIDE DEF G
  <2> QED BY <1>4
<1>6. Slugged(es) = u[n]
  BY DEF Slugged, InboundFor
<1> HIDE DEF u
<1>7. ASSUME NEW i \in 1 .. n
      PROVE  u[i] = Append(u[i - 1], InboundFor(u[i - 1], es[i]))
  <2>1. u[i] = G(u)[i]
    BY <1>5
  <2> QED BY <2>1
<1>8. u[0] = <<>>
  BY <1>1, <1>5
<1> QED BY <1>6, <1>7, <1>8

(* What the loop has made of the first k entries.                          *)
Given(es, k, known) ==
    /\ known \in Seq(Inbound) /\ Len(known) = k
    /\ \A i \in 1 .. k :
          /\ known[i].label = es[i].label /\ known[i].uri = es[i].uri
          /\ \/ known[i].slug = Words[es[i].label]
             \/ \E m \in Nat : known[i].slug = Append(Words[es[i].label], m)
          /\ \/ known[i].slug = Words[es[i].label]
             \/ \E j \in 1 .. i - 1 : known[j].slug = Words[es[i].label]
          /\ \A j \in 1 .. i - 1 : known[j].slug # known[i].slug

LEMMA GivenOneMore ==
    ASSUME NEW es \in Seq(Entry), NEW k \in 0 .. Len(es) - 1, NEW known,
           Given(es, k, known)
    PROVE  Given(es, k + 1, Append(known, InboundFor(known, es[k + 1])))
<1> DEFINE e == es[k + 1]
           is == InboundFor(known, e)
           next == Append(known, is)
<1>1. known \in Seq(Inbound) /\ Len(known) = k /\ k \in Nat /\ e \in Entry
  BY DEF Given
<1>2. /\ is \in Inbound /\ Words[e.label] \in Slug
      /\ is.label = e.label /\ is.uri = e.uri
      /\ is.slug = FreeSlug(Words[e.label], SlugsOf(known))
  BY <1>1, InboundForType DEF InboundFor
<1>3. /\ is.slug \notin SlugsOf(known)
      /\ is.slug = Words[e.label] \/ \E m \in Nat : is.slug = Append(Words[e.label], m)
      /\ Words[e.label] \notin SlugsOf(known) => is.slug = Words[e.label]
  BY <1>1, <1>2, SlugsFinite, FreeSlugIs
<1>4. SlugsOf(known) = {known[j].slug : j \in 1 .. k}
  BY <1>1 DEF SlugsOf
<1> HIDE DEF is
<1>5. /\ next \in Seq(Inbound) /\ Len(next) = k + 1 /\ next[k + 1] = is
      /\ \A j \in 1 .. k : next[j] = known[j]
  BY <1>1, <1>2
<1> HIDE DEF next
<1>6. ASSUME NEW i \in 1 .. k + 1
      PROVE  /\ next[i].label = es[i].label /\ next[i].uri = es[i].uri
             /\ \/ next[i].slug = Words[es[i].label]
                \/ \E m \in Nat : next[i].slug = Append(Words[es[i].label], m)
             /\ \/ next[i].slug = Words[es[i].label]
                \/ \E j \in 1 .. i - 1 : next[j].slug = Words[es[i].label]
             /\ \A j \in 1 .. i - 1 : next[j].slug # next[i].slug
  <2>1. CASE i = k + 1
    <3>1. \/ is.slug = Words[e.label]
          \/ \E j \in 1 .. k : known[j].slug = Words[e.label]
      BY <1>3, <1>4
    <3>2. \A j \in 1 .. k : known[j].slug # is.slug
      BY <1>3, <1>4
    <3>3. i - 1 = k
      BY <1>1, <2>1
    <3> QED BY <1>2, <1>3, <1>5, <2>1, <3>1, <3>2, <3>3
  <2>2. CASE i \in 1 .. k
    <3>1. /\ next[i] = known[i]
          /\ \A j \in 1 .. i - 1 : next[j] = known[j]
      BY <1>1, <1>5, <2>2
    <3>2. /\ known[i].label = es[i].label /\ known[i].uri = es[i].uri
          /\ \/ known[i].slug = Words[es[i].label]
             \/ \E m \in Nat : known[i].slug = Append(Words[es[i].label], m)
          /\ \/ known[i].slug = Words[es[i].label]
             \/ \E j \in 1 .. i - 1 : known[j].slug = Words[es[i].label]
          /\ \A j \in 1 .. i - 1 : known[j].slug # known[i].slug
      BY <2>2 DEF Given
    <3> HIDE DEF Given
    <3> QED BY <3>1, <3>2
  <2> QED BY <1>1, <2>1, <2>2
<1> QED BY <1>5, <1>6 DEF Given, next, is

LEMMA SluggedIs ==
    ASSUME NEW es \in Seq(Entry)
    PROVE  Given(es, Len(es), Slugged(es))
<1> DEFINE n == Len(es)
<1>1. PICK f :
              /\ Slugged(es) = f[n] /\ f[0] = <<>>
              /\ \A i \in 1 .. n : f[i] = Append(f[i - 1], InboundFor(f[i - 1], es[i]))
  BY SluggedLoop
<1> DEFINE Done == {k \in 0 .. n : Given(es, k, f[k])}
<1>2. n \in Nat /\ 0 \in Done
  <2>1. 1 .. 0 = {} /\ f[0] \in Seq(Inbound) /\ Len(f[0]) = 0 /\ n \in Nat
    BY <1>1
  <2> QED BY <2>1 DEF Given
<1>3. ASSUME NEW k \in 0 .. n - 1, k \in Done PROVE k + 1 \in Done
  <2>1. k + 1 \in 1 .. n /\ k + 1 \in 0 .. n /\ (k + 1) - 1 = k
    OBVIOUS
  <2>2. f[k + 1] = Append(f[k], InboundFor(f[k], es[k + 1]))
    BY <1>1, <2>1
  <2>3. Given(es, k + 1, f[k + 1])
    BY <1>3, <2>2, GivenOneMore
  <2> QED BY <2>1, <2>3
<1> HIDE DEF Done
<1>4. \A k \in 0 .. n : k \in Done
  BY <1>2, <1>3, UpTo
<1>5. n \in 0 .. n
  OBVIOUS
<1> QED BY <1>1, <1>4, <1>5 DEF Done

LEMMA Beginning ==
    ASSUME NEW a \in Slug, NEW b \in Slug,
           b = a \/ \E m \in Nat : b = Append(a, m)
    PROVE  IsPrefix(a, b)
<1>1. Len(a) <= Len(b) /\ \A i \in 1 .. Len(a) : b[i] = a[i]
  BY DEF Slug
<1>2. Len(a) \in Nat
  BY DEF Slug
<1>3. SubSeq(a, 1, Len(a)) = [i \in 1 .. Len(a) |-> a[i]]
  BY <1>2 DEF Slug
<1>4. SubSeq(b, 1, Len(a)) = [i \in 1 .. Len(a) |-> b[i]]
  BY <1>1, <1>2 DEF Slug
<1> QED BY <1>1, <1>3, <1>4 DEF IsPrefix

(* The slugs of a feed refer: each to its entry, and by the words of its   *)
(* label if nothing else begins those.                                     *)
LEMMA SluggedRefers ==
    ASSUME NEW es \in Seq(Entry), NEW i \in DOMAIN Slugged(es)
    PROVE  LET known == Slugged(es)
           IN  /\ Resolve({known[i].slug}, known) = known[i].uri
               /\ (\A j \in DOMAIN known \ {i} :
                      ~ IsPrefix(Words[known[j].label], Words[known[i].label]))
                     => known[i].slug = Words[known[i].label]
<1> DEFINE known == Slugged(es)
           n == Len(es)
<1>1. Given(es, n, known) /\ DOMAIN known = 1 .. n /\ i \in 1 .. n
  BY SluggedIs DEF Given
<1> HIDE DEF known
<1>2. \A j \in 1 .. n : known[j].slug = known[i].slug => j = i
  <2> SUFFICES ASSUME NEW j \in 1 .. n, j # i PROVE known[j].slug # known[i].slug
    OBVIOUS
  <2>1. CASE j < i
    <3>1. j \in 1 .. i - 1
      BY <1>1, <2>1
    <3> QED BY <1>1, <3>1 DEF Given
  <2>2. CASE i < j
    <3>1. i \in 1 .. j - 1
      BY <1>1, <2>2
    <3> QED BY <1>1, <3>1 DEF Given
  <2> QED BY <1>1, <2>1, <2>2
<1>3. {j \in DOMAIN known : known[j].slug \in {known[i].slug}} = {i}
  BY <1>1, <1>2
<1>4. (CHOOSE j \in {i} : \A l \in {i} : j <= l) = i
  BY <1>1
<1>5. Resolve({known[i].slug}, known) = known[i].uri
  BY <1>3, <1>4 DEF Resolve
<1>6. ASSUME known[i].slug # Words[known[i].label]
      PROVE  \E j \in DOMAIN known \ {i} :
                IsPrefix(Words[known[j].label], Words[known[i].label])
  <2>1. /\ \A j \in 1 .. n : known[j].label = es[j].label /\ es[j].label \in Label
        /\ known[i].slug # Words[es[i].label]
    <3>1. \A j \in 1 .. n : known[j].label = es[j].label
      BY <1>1 DEF Given
    <3>2. \A j \in 1 .. n : es[j].label \in Label
      <4>1. \A j \in 1 .. n : es[j] \in Entry
        OBVIOUS
      <4> QED BY <4>1 DEF Entry
    <3> QED BY <1>1, <1>6, <3>1, <3>2
  <2>2. PICK j \in 1 .. i - 1 : known[j].slug = Words[es[i].label]
    BY <1>1, <2>1 DEF Given
  <2>3. j \in 1 .. n /\ j # i
    BY <1>1
  <2>4. \/ known[j].slug = Words[es[j].label]
        \/ \E m \in Nat : known[j].slug = Append(Words[es[j].label], m)
    BY <1>1, <2>3 DEF Given
  <2>5. Words[es[i].label] \in Slug /\ Words[es[j].label] \in Slug
    BY <1>1, <2>1, <2>3, WordsAssumption DEF Slug
  <2>6. IsPrefix(Words[es[j].label], Words[es[i].label])
    BY <2>2, <2>4, <2>5, Beginning
  <2> QED BY <1>1, <2>1, <2>3, <2>6
<1> QED BY <1>5, <1>6 DEF known

(* The filter keeps entries.                                               *)
LEMMA PassingType ==
    ASSUME NEW n \in Name, NEW body \in Seq(Entry)
    PROVE  Passing(n, body) \in Seq(Entry)
<1> DEFINE X == Seq(Entry)
           l == Len(body)
           next(i, kept) == IF body[i].label \in Passes[n] THEN Append(kept, body[i]) ELSE kept
           step == [i \in 1 .. l |-> [kept \in X |-> next(i, kept)]]
           G(h) == [i \in 0 .. l |->
                      IF i = 0 THEN <<>>
                      ELSE IF body[i].label \in Passes[n] THEN Append(h[i - 1], body[i])
                      ELSE h[i - 1]]
           u == CHOOSE h : h = G(h)
<1>1. l \in Nat /\ <<>> \in X /\ step \in [1 .. l -> [X -> X]]
  OBVIOUS
<1>2. PICK f \in [0 .. l -> X] : Goes(f, l, <<>>, step)
  <2> HIDE DEF step, X, l
  <2> QED BY <1>1, LoopExists
<1>3. ASSUME NEW i \in 1 .. l PROVE f[i] = next(i, f[i - 1])
  <2>1. f[i] = step[i][f[i - 1]] /\ f[i - 1] \in X
    <3> HIDE DEF step, X
    <3>1. i - 1 \in 0 .. l
      OBVIOUS
    <3> QED BY <1>2, <3>1 DEF Goes
  <2> QED BY <2>1
<1>4. f[0] = <<>>
  BY <1>2 DEF Goes
<1>5. f = G(f)
  <2>1. f \in [0 .. l -> X] /\ \A i \in 0 .. l : i # 0 => i \in 1 .. l
    BY <1>1, <1>2
  <2>2. \A i \in 0 .. l : f[i] = IF i = 0 THEN <<>> ELSE next(i, f[i - 1])
    BY <1>3, <1>4, <2>1
  <2> HIDE DEF X
  <2> QED BY <2>1, <2>2
<1>6. u = G(u)
  <2> HIDE DEF G
  <2> QED BY <1>5
<1>7. Passing(n, body) = u[l]
  BY DEF Passing
<1> HIDE DEF u
<1> DEFINE Typed == {k \in 0 .. l : u[k] \in X}
<1>8. 0 \in Typed
  BY <1>1, <1>6
<1>9. ASSUME NEW k \in 0 .. l - 1, k \in Typed PROVE k + 1 \in Typed
  <2>1. k + 1 \in 0 .. l /\ k + 1 \in 1 .. l /\ k + 1 # 0 /\ (k + 1) - 1 = k
    BY <1>1
  <2>2. u[k + 1] = G(u)[k + 1]
    BY <1>6
  <2>3. u[k + 1] = next(k + 1, u[k])
    BY <2>1, <2>2
  <2>4. u[k] \in X /\ body[k + 1] \in Entry
    BY <1>9, <2>1
  <2>5. u[k + 1] \in X
    BY <2>3, <2>4
  <2> QED BY <2>1, <2>5
<1> HIDE DEF Typed
<1>10. \A k \in 0 .. l : k \in Typed
  BY <1>1, <1>8, <1>9, UpTo
<1> QED BY <1>1, <1>7, <1>10 DEF Typed

-----------------------------------------------------------------------------
(* The file *)


Contents == {<<>>} \cup UNION {{Built[n][body] : body \in Bodies[UrlOf[n]]} : n \in Name}
File == [Name -> [inbounds : Contents, age : Nat]]
Answers == (UNION {Bodies[u] : u \in Url}) \cup {Nothing}

Refresh == [at : {"idle", "fetching"}, names : SUBSET Name, todo : SUBSET Name,
            loaded : File, left : SUBSET Url, bodies : [Url -> Answers], age : Nat]

Types ==
    /\ subscribed \subseteq Name
    /\ served \in [Url -> Answers]
    /\ \A u \in Url : served[u] \in Bodies[u] \cup {Nothing}
    /\ resolved \in File
    /\ run \in [Process -> Refresh]
    /\ \A p \in Process, u \in Url : run[p].bodies[u] \in Bodies[u] \cup {Nothing}

Copies ==
    \A p \in Process :
        run[p].at = "fetching" /\ p \notin misled => run[p].loaded = resolved

Inv == Types /\ Copies

LEMMA NoFileType == NoFile \in File
  BY DEF NoFile, Empty, File, Contents

(* Time leaves what is known alone.                                        *)
LEMMA OlderType ==
  ASSUME NEW f \in File
  PROVE  /\ OlderFile(f) \in File
         /\ \A n \in Name : OlderFile(f)[n].inbounds = f[n].inbounds
<1>1. \A n \in Name : Older(f[n].age) \in Nat
  BY DEF Older, File
<1> QED BY <1>1 DEF File, OlderFile

LEMMA IdleType == Idle \in Refresh /\ \A u \in Url : Idle.bodies[u] = Nothing
  BY NoFileType DEF Idle, Refresh, Answers

LEMMA InitInv == Init => Inv
<1> SUFFICES ASSUME Init PROVE Inv
  OBVIOUS
<1>1. served \in [Url -> Answers] /\ \A u \in Url : served[u] \in Bodies[u]
  BY DEF Init, Answers
<1> QED
  BY <1>1, NoFileType, IdleType DEF Init, Inv, Types, Copies, Idle

LEMMA BeginInv ==
  ASSUME Inv, NEW p \in Process, NEW todo \in SUBSET Name,
         NEW file \in {resolved, NoFile}, Begin(p, todo, file)
  PROVE  Inv'
<1> DEFINE new == [Idle EXCEPT !.at = "fetching", !.names = subscribed,
                               !.todo = todo, !.loaded = file,
                               !.left = {UrlOf[n] : n \in todo}]
<1>1. file \in File /\ {UrlOf[n] : n \in todo} \in SUBSET Url
  BY NoFileType, FeedsAssumption DEF Inv, Types
<1>2. /\ new \in Refresh /\ new.bodies = Idle.bodies
      /\ new.at = "fetching" /\ new.loaded = file
  BY <1>1, IdleType DEF Refresh, Inv, Types, Idle
<1>3. run' = [run EXCEPT ![p] = new]
  BY DEF Begin
<1> HIDE DEF new
<1>4. run'[p] = new /\ \A q \in Process \ {p} : run'[q] = run[q]
  BY <1>3 DEF Inv, Types
<1>5. Types'
  BY <1>2, <1>3, <1>4, IdleType DEF Begin, Inv, Types
<1>6. Copies'
  BY <1>2, <1>4 DEF Begin, Inv, Copies
<1> QED BY <1>5, <1>6 DEF Inv

LEMMA UpdatedType ==
  ASSUME Types, NEW p \in Process
  PROVE  Updated(p) \in File
<1>1. \A n \in Answered(p) \cap Name :
         /\ Built[n][run[p].bodies[UrlOf[n]]] \in Contents
         /\ run[p].age \in Nat
  BY FeedsAssumption DEF Answered, Types, Contents, Refresh
<1>2. \A n \in Name : run[p].loaded[n] \in [inbounds : Contents, age : Nat]
  BY DEF Types, Refresh, File
<1>3. Empty \in [inbounds : Contents, age : Nat]
  BY DEF Empty, Contents
<1> QED BY <1>1, <1>2, <1>3 DEF Updated, File

LEMMA FinishType ==
  ASSUME Types, resolved' \in File, NEW p \in Process, Finish(p),
         UNCHANGED <<subscribed, served>>
  PROVE  Types' /\ run'[p].at = "idle"
                /\ \A q \in Process \ {p} : run'[q] = run[q]
<1>1. run' = [run EXCEPT ![p] = Idle]
  BY DEF Finish
<1>2. run'[p] = Idle /\ \A q \in Process \ {p} : run'[q] = run[q]
  BY <1>1 DEF Types
<1>3. Idle.at = "idle"
  BY DEF Idle
<1> QED BY <1>1, <1>2, <1>3, IdleType DEF Types

LEMMA SaveInv ==
  ASSUME Inv, NEW p \in Process, Save(p)
  PROVE  Inv'
<1>1. Types' /\ run'[p].at = "idle" /\ \A q \in Process \ {p} : run'[q] = run[q]
  BY UpdatedType, FinishType DEF Save, Inv
<1>2. Copies'
  BY <1>1 DEF Save, Copies, Inv
<1> QED BY <1>1, <1>2 DEF Inv

LEMMA LeaveInv ==
  ASSUME Inv, NEW p \in Process, Finish(p),
         UNCHANGED <<subscribed, served, resolved, misled>>
  PROVE  Inv'
<1>1. Types' /\ run'[p].at = "idle" /\ \A q \in Process \ {p} : run'[q] = run[q]
  BY FinishType DEF Inv, Types
<1>2. Copies'
  BY <1>1 DEF Copies, Inv
<1> QED BY <1>1, <1>2 DEF Inv

LEMMA FetchedInv ==
  ASSUME Inv, NEW p \in Process, NEW u \in Url, NEW body \in Bodies[u] \cup {Nothing},
         Fetched(p, u, body)
  PROVE  Inv'
<1> DEFINE new == [run[p] EXCEPT !.left = @ \ {u}, !.bodies[u] = body]
<1>1. run' = [run EXCEPT ![p] = new]
  BY DEF Fetched, Inv, Types
<1>2. body \in Answers
  BY DEF Answers
<1>3. run[p] \in Refresh
  BY DEF Inv, Types
<1>4. /\ new \in Refresh /\ new.at = run[p].at /\ new.loaded = run[p].loaded
      /\ new.bodies[u] = body
      /\ \A v \in Url \ {u} : new.bodies[v] = run[p].bodies[v]
  BY <1>2, <1>3 DEF Refresh
<1> HIDE DEF new
<1>5. run'[p] = new /\ \A q \in Process \ {p} : run'[q] = run[q]
  BY <1>1 DEF Inv, Types
<1>6. Types'
  BY <1>1, <1>4, <1>5 DEF Fetched, Inv, Types
<1>7. Copies'
  BY <1>4, <1>5 DEF Fetched, Inv, Copies
<1> QED BY <1>6, <1>7 DEF Inv

LEMMA TickInv ==
  ASSUME Inv, Tick
  PROVE  Inv'
<1> DEFINE new(p) == [run[p] EXCEPT !.age = Older(@), !.loaded = OlderFile(@)]
<1>1. ASSUME NEW p \in Process
      PROVE  /\ run[p] \in Refresh
             /\ new(p) \in Refresh /\ new(p).at = run[p].at
             /\ new(p).loaded = OlderFile(run[p].loaded)
             /\ new(p).bodies = run[p].bodies
  <2>1. run[p] \in Refresh
    BY DEF Inv, Types
  <2>2. Older(run[p].age) \in Nat /\ OlderFile(run[p].loaded) \in File
    BY <2>1, OlderType DEF Refresh, Older
  <2> QED BY <2>1, <2>2 DEF Refresh
<1>2. run' = [p \in Process |-> IF run[p].at = "idle" THEN run[p] ELSE new(p)]
  BY DEF Tick
<1> HIDE DEF new
<1>3. Types'
  BY <1>1, <1>2, OlderType DEF Tick, Inv, Types
<1>4. Copies'
  <2> SUFFICES ASSUME NEW p \in Process, run'[p].at = "fetching", p \notin misled'
               PROVE  run'[p].loaded = resolved'
    BY DEF Copies
  <2>1. run[p].at = "fetching" /\ run'[p] = new(p) /\ p \notin misled
    BY <1>1, <1>2 DEF Tick
  <2>2. run[p].loaded = resolved
    BY <2>1 DEF Inv, Copies
  <2> QED BY <1>1, <2>1, <2>2 DEF Tick
<1> QED BY <1>3, <1>4 DEF Inv

LEMMA NextInv == Inv /\ [Next]_vars => Inv'
<1> SUFFICES ASSUME Inv, [Next]_vars PROVE Inv'
  OBVIOUS
<1>1. ASSUME NEW file \in {resolved, NoFile}, RefreshDue(file) \/ RefreshAll(file)
      PROVE Inv'
  <2>1. /\ {n \in subscribed : IsDue(n, file)} \in SUBSET Name
        /\ subscribed \in SUBSET Name
    BY DEF Inv, Types
  <2> QED BY <1>1, <2>1, BeginInv DEF RefreshDue, RefreshAll, Process
<1>2. ASSUME NEW p \in Process, NEW u \in Url, FetchAnswers(p, u) \/ FetchFails(p, u)
      PROVE Inv'
  BY <1>2, FetchedInv DEF FetchAnswers, FetchFails, Inv, Types
<1>3. ASSUME NEW p \in Process, Save(p) PROVE Inv'
  BY <1>3, SaveInv
<1>4. ASSUME NEW p \in Process, NothingChanged(p) \/ Stop(p) PROVE Inv'
  BY <1>4, LeaveInv DEF NothingChanged, Stop
<1>5. CASE Tick
  BY <1>5, TickInv
<1>6. ASSUME NEW u \in Url, FeedChanges(u) PROVE Inv'
  BY <1>6 DEF FeedChanges, Inv, Types, Copies, Answers
<1>7. ASSUME NEW n \in Name, OperatorDeclares(n) PROVE Inv'
  BY <1>7 DEF OperatorDeclares, Inv, Types, Copies
<1>8. CASE UNCHANGED vars
  BY <1>8 DEF vars, Inv, Types, Copies
<1> QED
  BY <1>1, <1>2, <1>3, <1>4, <1>5, <1>6, <1>7, <1>8
  DEF Next

(* A feed that fails keeps its entries, and a save puts nothing in the     *)
(* file but what was fetched: KnownUntilAnswered, for any feeds and any    *)
(* number of runs, failures, changes and stops (_refresh).  Not covered:   *)
(* the refreshes that could not read the file or were overlapped by a save *)
(* of the other process, and feeds no longer declared.                     *)
THEOREM FailedFeedsKeepEntries == Spec => KnownUntilAnswered
<1> DEFINE Step(n) ==
       resolved[n].inbounds' # resolved[n].inbounds =>
          \E p \in Process :
             /\ run[p].at = "fetching" /\ run[p].left = {}
             /\ \/ p \in misled
                \/ n \notin run[p].names
                \/ \E body \in {run[p].bodies[UrlOf[n]]} \ {Nothing} :
                      resolved[n].inbounds' = Built[n][body]
<1>1. ASSUME Inv, [Next]_vars, NEW n \in Name PROVE Step(n)
  <2>1. ASSUME NEW p \in Process, Save(p) PROVE Step(n)
    <3>1. resolved'[n] = Updated(p)[n]
      BY <2>1 DEF Save
    <3>2. CASE n \in Answered(p)
      <4>1. resolved'[n].inbounds = Built[n][run[p].bodies[UrlOf[n]]]
        BY <3>1, <3>2 DEF Updated
      <4>2. run[p].bodies[UrlOf[n]] # Nothing
        BY <3>2 DEF Answered
      <4> QED BY <4>1, <4>2, <2>1 DEF Save
    <3>3. CASE n \notin Answered(p) /\ n \in run[p].names /\ p \notin misled
      <4>1. run[p].loaded = resolved
        BY <1>1, <2>1, <3>3 DEF Inv, Copies, Save
      <4> QED BY <3>1, <3>3, <4>1 DEF Updated
    <3> QED BY <3>2, <3>3, <2>1 DEF Save
  <2>2. CASE Tick
    BY <1>1, <2>2, OlderType DEF Tick, Inv, Types
  <2>3. CASE UNCHANGED resolved
    BY <2>3
  <2> QED
    BY <1>1, <2>1, <2>2, <2>3
    DEF Next, vars, RefreshDue, RefreshAll, Begin, FetchAnswers, FetchFails,
        Fetched, NothingChanged, Stop, FeedChanges, OperatorDeclares
<1>2. Inv /\ [Next]_vars => [\A n \in Name : Step(n)]_vars
  BY <1>1
<1> QED BY <1>2, InitInv, NextInv, PTL DEF Spec, KnownUntilAnswered

-----------------------------------------------------------------------------
(* Types *)

(* What a refresh does is about feeds declared when it began.              *)
Tasks ==
    /\ \A p \in Process : /\ run[p].todo \subseteq run[p].names
                          /\ run[p].left \subseteq {UrlOf[n] : n \in run[p].todo}
    /\ events \in 0 .. MaxEvents /\ misled \subseteq Process

LEMMA NextTasks == Inv /\ Tasks /\ [Next]_vars => Tasks'
<1> SUFFICES ASSUME Inv, Tasks, [Next]_vars PROVE Tasks'
  OBVIOUS
<1> USE DEF Tasks
<1>1. run \in [Process -> Refresh]
  BY DEF Inv, Types
<1>2. ASSUME Event \/ UNCHANGED events PROVE events' \in 0 .. MaxEvents
  BY <1>2, BoundsAssumption DEF Event
<1>3. ASSUME NEW p \in Process, Finish(p), misled' \subseteq Process,
             Event \/ UNCHANGED events
      PROVE  Tasks'
  BY <1>1, <1>2, <1>3 DEF Finish, Idle
<1>4. ASSUME NEW file \in {resolved, NoFile}, RefreshDue(file) \/ RefreshAll(file)
      PROVE  Tasks'
  <2>1. PICK p \in Process, todo \in SUBSET subscribed : Begin(p, todo, file)
    BY <1>4 DEF RefreshDue, RefreshAll, Process
  <2>2. Event \/ UNCHANGED events
    BY <1>4 DEF RefreshDue, RefreshAll
  <2>3. /\ run'[p].todo = todo /\ run'[p].names = subscribed
        /\ run'[p].left = {UrlOf[n] : n \in todo}
        /\ \A q \in Process \ {p} : run'[q] = run[q]
        /\ misled' \subseteq Process
    BY <1>1, <2>1 DEF Begin, Idle
  <2> QED BY <1>2, <2>2, <2>3
<1>5. ASSUME NEW p \in Process, NEW u \in Url, FetchAnswers(p, u) \/ FetchFails(p, u)
      PROVE  Tasks'
  <2>1. /\ run'[p].todo = run[p].todo /\ run'[p].names = run[p].names
        /\ run'[p].left = run[p].left \ {u}
        /\ \A q \in Process \ {p} : run'[q] = run[q]
        /\ UNCHANGED <<events, misled>>
    BY <1>1, <1>5 DEF FetchAnswers, FetchFails, Fetched, Refresh
  <2> QED BY <2>1
<1>6. ASSUME NEW p \in Process, Save(p) \/ NothingChanged(p) \/ Stop(p) PROVE Tasks'
  BY <1>3, <1>6 DEF Save, NothingChanged, Stop
<1>7. CASE Tick
  <2>1. \A p \in Process : /\ run'[p].todo = run[p].todo /\ run'[p].names = run[p].names
                           /\ run'[p].left = run[p].left
    BY <1>1, <1>7 DEF Tick, Refresh
  <2> QED BY <1>7, <2>1 DEF Tick
<1>8. ASSUME NEW u \in Url, FeedChanges(u) PROVE Tasks'
  BY <1>2, <1>8 DEF FeedChanges
<1>9. ASSUME NEW n \in Name, OperatorDeclares(n) PROVE Tasks'
  BY <1>2, <1>9 DEF OperatorDeclares
<1>10. CASE UNCHANGED vars
  BY <1>10 DEF vars
<1> QED BY <1>4, <1>5, <1>6, <1>7, <1>8, <1>9, <1>10 DEF Next

LEMMA SpecInv == Spec => [](Inv /\ Tasks)
<1>1. Init => Tasks
  BY BoundsAssumption DEF Init, Tasks, Idle
<1> QED BY <1>1, InitInv, NextInv, NextTasks, PTL DEF Spec

(* Whatever the file has of a feed came out of the loop over its entries,  *)
(* and of a list of nothing comes nothing.                                 *)
LEMMA ContentsIs ==
    ASSUME NEW known \in Contents
    PROVE  \E es \in Seq(Entry) : InOrder(es) /\ known = Slugged(es)
<1>1. CASE known = <<>>
  <2>1. <<>> \in Seq(Entry) /\ InOrder(<<>>) /\ Len(<<>>) = 0
    BY DEF InOrder
  <2>2. Slugged(<<>>) = <<>>
    <3>1. Slugged(<<>>) \in Seq(Inbound) /\ Len(Slugged(<<>>)) = 0
      BY <2>1, SluggedIs DEF Given
    <3> QED BY <3>1
  <2> QED BY <1>1, <2>1, <2>2
<1>2. ASSUME NEW n \in Name, NEW body \in Bodies[UrlOf[n]], known = Built[n][body]
      PROVE  \E es \in Seq(Entry) : InOrder(es) /\ known = Slugged(es)
  <2>1. known = Slugged(Sorted(Passing(n, body)))
    BY <1>2 DEF Built, AssignSlugs
  <2>2. body \in Seq(Entry)
    BY FeedsAssumption
  <2> QED BY <2>1, <2>2, PassingType, SortedIs
<1> QED BY <1>1, <1>2 DEF Contents

IsKnown(n, es) ==
    InOrder(es) /\ resolved[n].inbounds = Slugged(es) /\ EntriesOf(n) = es
Known == \A n \in Name : \E es \in Seq(Entry) : IsKnown(n, es)

LEMMA KnownIs == Inv => Known
<1> SUFFICES ASSUME Inv, NEW n \in Name PROVE \E es \in Seq(Entry) : IsKnown(n, es)
  BY DEF Known
<1> USE DEF IsKnown
<1>1. resolved[n].inbounds \in Contents
  BY DEF Inv, Types, File
<1>2. PICK es \in Seq(Entry) : InOrder(es) /\ resolved[n].inbounds = Slugged(es)
  BY <1>1, ContentsIs
<1> DEFINE known == resolved[n].inbounds
<1>3. /\ known \in Seq(Inbound) /\ Len(known) = Len(es)
      /\ \A i \in 1 .. Len(es) : known[i].label = es[i].label /\ known[i].uri = es[i].uri
  BY <1>2, SluggedIs DEF Given
<1>4. DOMAIN known = 1 .. Len(es)
  BY <1>3
<1> HIDE DEF known
<1>5. \A i \in 1 .. Len(es) : [uri |-> known[i].uri, label |-> known[i].label] = es[i]
  <2>1. \A i \in 1 .. Len(es) : es[i] \in Entry
    OBVIOUS
  <2> QED BY <1>3, <2>1 DEF Entry
<1>6. EntriesOf(n) = [i \in 1 .. Len(es) |-> es[i]]
  BY <1>4, <1>5 DEF EntriesOf, known
<1>7. EntriesOf(n) = es
  BY <1>6
<1> QED BY <1>2, <1>7

(* The variables keep to their types, and a refresh to the feeds that were *)
(* declared when it began (refresh_due).                                   *)
THEOREM TypeCorrect == Spec => []TypeOK
<1>1. Inv /\ Tasks => TypeOK
  <2> SUFFICES ASSUME Inv, Tasks PROVE TypeOK
    OBVIOUS
  <2>1. \A n \in Name : EntriesOf(n) \in Seq(Entry) /\ resolved[n].age \in Nat
    BY KnownIs DEF Known, IsKnown, Inv, Types, File
  <2>2. \A p \in Process : run[p].at \in {"idle", "fetching"} /\ run[p].names \subseteq Name
    BY DEF Inv, Types, Refresh
  <2> QED BY <2>1, <2>2 DEF TypeOK, Inv, Types, Tasks
<1> QED BY <1>1, SpecInv, PTL

(* Every entry of a feed can be referred to by its slug, however many      *)
(* labels are equal or look like numbered slugs, and unless another label  *)
(* begins its own the slug is that of its label (assign_slugs).            *)
THEOREM SlugsFindTheirEntries == Spec => []SlugsRefer
<1>1. Inv => SlugsRefer
  <2> SUFFICES ASSUME Inv, NEW n \in Name, NEW i \in DOMAIN resolved[n].inbounds
               PROVE  LET known == resolved[n].inbounds IN
                      /\ Resolve({known[i].slug}, known) = known[i].uri
                      /\ (\A j \in DOMAIN known \ {i} :
                             ~ IsPrefix(Words[known[j].label], Words[known[i].label]))
                            => known[i].slug = Words[known[i].label]
    BY DEF SlugsRefer
  <2> QED BY KnownIs, SluggedRefers DEF Known, IsKnown
<1> QED BY <1>1, SpecInv, PTL

(* The entries of a feed decide on its slugs, in whatever order the feed   *)
(* lists them: a reference survives a refresh that brings the same ones    *)
(* (assign_slugs).                                                         *)
THEOREM SlugsSurviveRefreshes == Spec => SlugsStable
<1> DEFINE Same(n) ==
      (\E order \in Orders(EntriesOf(n)) : EntriesOf(n)' = Reordered(EntriesOf(n), order))
          => resolved[n].inbounds' = resolved[n].inbounds
<1>1. ASSUME Known, Known', NEW n \in Name PROVE Same(n)
  <2> SUFFICES ASSUME NEW order \in Orders(EntriesOf(n)),
                      EntriesOf(n)' = Reordered(EntriesOf(n), order)
               PROVE  resolved'[n].inbounds = resolved[n].inbounds
    OBVIOUS
  <2>1. PICK es \in Seq(Entry) :
          InOrder(es) /\ resolved[n].inbounds = Slugged(es) /\ EntriesOf(n) = es
    BY <1>1 DEF Known, IsKnown
  <2>2. PICK fs \in Seq(Entry) :
          InOrder(fs) /\ resolved'[n].inbounds = Slugged(fs) /\ EntriesOf(n)' = fs
    BY <1>1 DEF Known, IsKnown
  <2>3. fs = es
    BY <2>1, <2>2, OneOrder
  <2> QED BY <2>1, <2>2, <2>3
<1>2. Known /\ Known' /\ [Next]_vars => [\A n \in Name : Same(n)]_vars
  BY <1>1
<1> QED BY <1>2, KnownIs, SpecInv, PTL DEF Spec, SlugsStable
=============================================================================
