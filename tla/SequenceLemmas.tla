--------------------------- MODULE SequenceLemmas ---------------------------
(***************************************************************************)
(* Induction over numbers and over the length of a sequence, for sets: of  *)
(* the numbers for which a fact fails there is a least one.  And what a    *)
(* filtered sequence contains.                                             *)
(***************************************************************************)
EXTENDS Filtering, WellFoundedInduction, TLAPS

(* A set of numbers has a least one. *)
LEMMA LeastNumber ==
  ASSUME NEW T \in SUBSET Nat, T # {}
  PROVE  \E n \in T : \A m \in T : n <= m
<1> DEFINE R == {ss \in Nat \X Nat : ss[1] < ss[2]}
<1>1. IsWellFoundedOn(R, Nat)
  <2>1. OpToRel(<, Nat) = R
    BY DEF OpToRel
  <2> QED
    BY <2>1, NatLessThanWellFounded
<1>2. \A x \in Nat, y \in Nat : x < y => <<x, y>> \in R
  OBVIOUS
<1> HIDE DEF R
<1>3. PICK x \in T : \A y \in T : ~ (<<y, x>> \in R)
  BY <1>1, WFMin
<1>4. ASSUME NEW m \in T
      PROVE  x <= m
  <2>1. ~ (m < x)
    BY <1>2, <1>3
  <2> QED
    BY <2>1
<1> QED
  BY <1>4

(* Induction up to a number: what holds of 0 and is handed on holds of all.  *)
LEMMA UpTo ==
  ASSUME NEW N \in Nat, NEW T, 0 \in T,
         \A n \in Nat : (n < N /\ n \in T) => n + 1 \in T
  PROVE  \A n \in 0..N : n \in T
<1> SUFFICES ASSUME NEW n \in 0..N, n \notin T
             PROVE  FALSE
  OBVIOUS
<1> DEFINE F == {m \in 0..N : m \notin T}
<1>1. F \in SUBSET Nat /\ F # {}
  OBVIOUS
<1>2. \A k \in F : k \in 0..N /\ k \notin T
  OBVIOUS
<1>3. \A k \in 0..N : k \notin T => k \in F
  OBVIOUS
<1> HIDE DEF F
<1>4. PICK m \in F : \A k \in F : m <= k
  BY <1>1, LeastNumber
<1>5. m \in 0..N /\ m \notin T /\ m # 0
  BY <1>2, <1>4
<1>6. m - 1 \in Nat /\ m - 1 < N /\ m - 1 \in 0..N /\ (m - 1) + 1 = m /\ ~ (m <= m - 1)
  BY <1>5
<1>7. m - 1 \notin F
  BY <1>4, <1>6
<1>8. m - 1 \in T
  BY <1>3, <1>6, <1>7
<1> QED
  BY <1>5, <1>6, <1>8

-----------------------------------------------------------------------------
(* One step of the filter, and the filter of the first N elements.           *)
KeptNext(s, S, n, t) ==
  IF s[n] \in S THEN t ELSE Append(t, s[n])

IsKept(s, S, N, g) ==
  g = [n \in 0..N |-> IF n = 0 THEN <<>> ELSE KeptNext(s, S, n, g[n - 1])]

(* The filter's recursive function exists. *)
LEMMA KeptExists ==
  ASSUME NEW s, NEW S, NEW N \in Nat
  PROVE  \E g : IsKept(s, S, N, g)
<1> DEFINE T == {n \in Nat : \E g : IsKept(s, S, n, g)}
<1>1. 0 \in T
  <2> DEFINE g == [n \in 0..0 |-> <<>>]
  <2>1. IsKept(s, S, 0, g)
    BY DEF IsKept
  <2> QED
    BY <2>1
<1>2. ASSUME NEW n \in Nat, n \in T
      PROVE  n + 1 \in T
  <2>1. PICK g : IsKept(s, S, n, g)
    BY <1>2
  <2> DEFINE h == [i \in 0..(n + 1) |-> IF i = n + 1 THEN KeptNext(s, S, n + 1, g[n]) ELSE g[i]]
  <2>2. DOMAIN h = 0..(n + 1) /\ \A i \in 0..(n + 1) :
          h[i] = IF i = n + 1 THEN KeptNext(s, S, n + 1, g[n]) ELSE g[i]
    OBVIOUS
  <2>3. \A i \in 0..n : g[i] = IF i = 0 THEN <<>> ELSE KeptNext(s, S, i, g[i - 1])
    BY <2>1 DEF IsKept
  <2>4. ASSUME NEW i \in 0..(n + 1)
        PROVE  h[i] = IF i = 0 THEN <<>> ELSE KeptNext(s, S, i, h[i - 1])
    <3>1. CASE i = n + 1
      <4>1. i # 0 /\ i - 1 = n /\ n \in 0..(n + 1) /\ n # n + 1
        BY <3>1
      <4>2. h[n] = g[n] /\ h[i] = KeptNext(s, S, n + 1, g[n])
        BY <2>2, <3>1, <4>1
      <4> HIDE DEF h
      <4> QED
        BY <3>1, <4>1, <4>2
    <3>2. CASE i # n + 1
      <4>1. i \in 0..n
        BY <3>2
      <4>2. h[i] = g[i]
        BY <2>2, <3>2
      <4>3. i # 0 => i - 1 \in 0..(n + 1) /\ i - 1 # n + 1
        BY <4>1
      <4>4. i # 0 => h[i - 1] = g[i - 1]
        BY <2>2, <4>3
      <4> HIDE DEF h
      <4> QED
        BY <2>3, <4>1, <4>2, <4>4
    <3> QED
      BY <3>1, <3>2
  <2>5. IsKept(s, S, n + 1, h)
    <3>1. h = [i \in 0..(n + 1) |-> h[i]]
      BY <2>2
    <3> HIDE DEF h
    <3> QED
      BY <2>4, <3>1 DEF IsKept
  <2> QED
    BY <2>5
<1> HIDE DEF T
<1>3. \A n \in 0..N : n \in T
  BY <1>1, <1>2, UpTo
<1>4. N \in 0..N
  OBVIOUS
<1> QED
  BY <1>3, <1>4 DEF T

(* Dropping is the value of that function for the whole sequence. *)
LEMMA DroppingIsKept ==
  ASSUME NEW s, NEW S, Len(s) \in Nat
  PROVE  \E g : IsKept(s, S, Len(s), g) /\ Dropping(s, S) = g[Len(s)]
<1> DEFINE f == CHOOSE g : IsKept(s, S, Len(s), g)
<1>1. IsKept(s, S, Len(s), f)
  BY KeptExists
<1>2. Dropping(s, S) = f[Len(s)]
  BY DEF Dropping, IsKept, KeptNext
<1> QED
  BY <1>1, <1>2

(* t is what is left of the first n elements of s without those in S: each   *)
(* of its elements stood somewhere in s, further on than the one before it,  *)
(* and each that is not in S is there.                                       *)
Places(s, n, t, pos) ==
  /\ pos \in [1..Len(t) -> 1..n]
  /\ \A i \in 1..Len(t) : t[i] = s[pos[i]]
  /\ \A i \in 1..Len(t), j \in 1..Len(t) : i < j => pos[i] < pos[j]

Leaves(A, s, S, n, t) ==
  /\ t \in Seq(A)
  /\ \A i \in 1..Len(t) : t[i] \notin S
  /\ \E pos : Places(s, n, t, pos)
  /\ \A k \in 1..n : s[k] \notin S => \E i \in 1..Len(t) : t[i] = s[k]

(* One more element keeps what Leaves says ... *)
LEMMA LeavesNext ==
  ASSUME NEW A, NEW s \in Seq(A), NEW S, NEW n \in Nat, n < Len(s), NEW t, Leaves(A, s, S, n, t)
  PROVE  Leaves(A, s, S, n + 1, KeptNext(s, S, n + 1, t))
<1>1. Len(s) \in Nat /\ n + 1 \in 1..Len(s) /\ s[n + 1] \in A /\ t \in Seq(A) /\ Len(t) \in Nat
  <2>1. Len(s) \in Nat /\ t \in Seq(A) /\ n + 1 \in 1..Len(s)
    BY DEF Leaves
  <2> QED
    BY <2>1
<1>2. PICK pos : Places(s, n, t, pos)
  BY DEF Leaves
<1>3. \A k \in 1..(n + 1) : k \in 1..n \/ k = n + 1
  OBVIOUS
<1>4. CASE s[n + 1] \in S
  <2>1. Places(s, n + 1, t, pos)
    <3>1. pos \in [1..Len(t) -> 1..(n + 1)]
      BY <1>2 DEF Places
    <3> QED
      BY <1>2, <3>1 DEF Places
  <2>2. \A k \in 1..(n + 1) : s[k] \notin S => \E i \in 1..Len(t) : t[i] = s[k]
    BY <1>3, <1>4 DEF Leaves
  <2>3. KeptNext(s, S, n + 1, t) = t
    BY <1>4 DEF KeptNext
  <2> QED
    BY <2>1, <2>2, <2>3 DEF Leaves
<1>5. CASE s[n + 1] \notin S
  <2>1. PICK u : u = Append(t, s[n + 1])
    OBVIOUS
  <2>2. /\ u \in Seq(A) /\ Len(u) = Len(t) + 1
        /\ \A i \in 1..Len(t) : u[i] = t[i]
        /\ u[Len(t) + 1] = s[n + 1]
    BY <1>1, <2>1
  <2>3. \A i \in 1..Len(u) : i \in 1..Len(t) \/ i = Len(t) + 1
    BY <1>1, <2>2
  <2>4. \A i \in 1..Len(u) : u[i] \notin S
    BY <1>5, <2>2, <2>3 DEF Leaves
  <2>5. \E q : Places(s, n + 1, u, q)
    <3> DEFINE q == [i \in 1..Len(u) |-> IF i = Len(t) + 1 THEN n + 1 ELSE pos[i]]
    <3>1. /\ \A i \in 1..Len(t) : i \in 1..Len(u) /\ q[i] = pos[i] /\ pos[i] \in 1..n
          /\ Len(t) + 1 \in 1..Len(u) /\ q[Len(t) + 1] = n + 1
      <4>1. \A i \in 1..Len(t) : i \in 1..Len(u) /\ i # Len(t) + 1 /\ pos[i] \in 1..n
        BY <1>1, <1>2, <2>2 DEF Places
      <4>2. Len(t) + 1 \in 1..Len(u)
        BY <1>1, <2>2
      <4> QED
        BY <4>1, <4>2
    <3>2. DOMAIN q = 1..Len(u) /\ q = [i \in 1..Len(u) |-> q[i]]
      OBVIOUS
    <3> HIDE DEF q
    <3>3. \A i \in 1..Len(u) : q[i] \in 1..(n + 1)
      BY <2>3, <3>1
    <3>4. q \in [1..Len(u) -> 1..(n + 1)]
      BY <3>2, <3>3
    <3>5. \A i \in 1..Len(u) : u[i] = s[q[i]]
      BY <1>2, <2>2, <2>3, <3>1 DEF Places
    <3>6. ASSUME NEW i \in 1..Len(u), NEW j \in 1..Len(u), i < j
          PROVE  q[i] < q[j]
      <4>1. i \in 1..Len(t)
        BY <1>1, <2>2, <3>6
      <4>2. CASE j \in 1..Len(t)
        BY <1>2, <3>1, <3>6, <4>1, <4>2 DEF Places
      <4>3. CASE j = Len(t) + 1
        BY <3>1, <4>1, <4>3
      <4> QED
        BY <2>3, <4>2, <4>3
    <3> QED
      BY <3>4, <3>5, <3>6 DEF Places
  <2>6. ASSUME NEW k \in 1..(n + 1), s[k] \notin S
        PROVE  \E i \in 1..Len(u) : u[i] = s[k]
    <3>1. CASE k \in 1..n
      <4>1. PICK i \in 1..Len(t) : t[i] = s[k]
        BY <2>6, <3>1 DEF Leaves
      <4>2. i \in 1..Len(u) /\ u[i] = t[i]
        BY <1>1, <2>2
      <4> QED
        BY <4>1, <4>2
    <3>2. CASE k = n + 1
      <4>1. Len(t) + 1 \in 1..Len(u)
        BY <1>1, <2>2
      <4> QED
        BY <2>2, <3>2, <4>1
    <3> QED
      BY <1>3, <3>1, <3>2
  <2>7. KeptNext(s, S, n + 1, t) = u
    BY <1>5, <2>1 DEF KeptNext
  <2> QED
    BY <2>2, <2>4, <2>5, <2>6, <2>7 DEF Leaves
<1> QED
  BY <1>4, <1>5

(* ... so that it holds of the whole sequence. *)
LEMMA DroppingLeaves ==
  ASSUME NEW A, NEW s \in Seq(A), NEW S
  PROVE  Leaves(A, s, S, Len(s), Dropping(s, S))
<1>1. Len(s) \in Nat
  OBVIOUS
<1>2. PICK g : IsKept(s, S, Len(s), g) /\ Dropping(s, S) = g[Len(s)]
  BY <1>1, DroppingIsKept
<1>3. \A n \in 0..Len(s) : g[n] = IF n = 0 THEN <<>> ELSE KeptNext(s, S, n, g[n - 1])
  BY <1>2 DEF IsKept
<1> DEFINE T == {n \in Nat : Leaves(A, s, S, n, g[n])}
<1>4. 0 \in T
  <2>1. g[0] = <<>>
    BY <1>1, <1>3
  <2>2. Places(s, 0, <<>>, <<>>)
    BY DEF Places
  <2>3. Leaves(A, s, S, 0, <<>>)
    BY <2>2 DEF Leaves
  <2> QED
    BY <2>1, <2>3
<1>5. ASSUME NEW n \in Nat, n < Len(s), n \in T
      PROVE  n + 1 \in T
  <2>1. n + 1 \in 0..Len(s) /\ n + 1 # 0 /\ (n + 1) - 1 = n
    BY <1>1, <1>5
  <2>2. g[n + 1] = KeptNext(s, S, n + 1, g[n])
    BY <1>3, <2>1
  <2>3. Leaves(A, s, S, n, g[n])
    BY <1>5
  <2> QED
    BY <1>5, <2>2, <2>3, LeavesNext
<1> HIDE DEF T
<1>6. \A n \in 0..Len(s) : n \in T
  BY <1>1, <1>4, <1>5, UpTo
<1>7. Len(s) \in T
  BY <1>1, <1>6
<1> QED
  BY <1>2, <1>7 DEF T

(* t is a selection of s: its elements are some of those of s, in their order. *)
Selects(A, s, t) ==
  /\ t \in Seq(A)
  /\ \A i \in 1..Len(t) : \E k \in 1..Len(s) : t[i] = s[k]
  /\ \A i \in 1..Len(t), j \in 1..Len(t) :
       i < j => \E k \in 1..Len(s), l \in 1..Len(s) : k < l /\ t[i] = s[k] /\ t[j] = s[l]

(* What a filtered sequence contains, and in which order. *)
LEMMA DroppingFacts ==
  ASSUME NEW A, NEW s \in Seq(A), NEW S
  PROVE  /\ Selects(A, s, Dropping(s, S))
         /\ \A i \in 1..Len(Dropping(s, S)) : Dropping(s, S)[i] \notin S
         /\ \A k \in 1..Len(s) :
              s[k] \notin S => \E i \in 1..Len(Dropping(s, S)) : Dropping(s, S)[i] = s[k]
<1>1. PICK t : t = Dropping(s, S)
  OBVIOUS
<1>2. Leaves(A, s, S, Len(s), t)
  BY <1>1, DroppingLeaves
<1>3. PICK pos : Places(s, Len(s), t, pos)
  BY <1>2 DEF Leaves
<1>4. \A i \in 1..Len(t) : pos[i] \in 1..Len(s) /\ t[i] = s[pos[i]]
  BY <1>3 DEF Places
<1>5. \A i \in 1..Len(t), j \in 1..Len(t) : i < j => pos[i] < pos[j]
  BY <1>3 DEF Places
<1>6. \A i \in 1..Len(t) : t[i] \notin S /\ \E k \in 1..Len(s) : t[i] = s[k]
  BY <1>2, <1>4 DEF Leaves
<1>7. \A i \in 1..Len(t), j \in 1..Len(t) :
        i < j => \E k \in 1..Len(s), l \in 1..Len(s) : k < l /\ t[i] = s[k] /\ t[j] = s[l]
  BY <1>4, <1>5
<1>8. t \in Seq(A) /\ \A k \in 1..Len(s) : s[k] \notin S => \E i \in 1..Len(t) : t[i] = s[k]
  BY <1>2 DEF Leaves
<1>9. Selects(A, s, t)
  BY <1>6, <1>7, <1>8 DEF Selects
<1> QED
  BY <1>1, <1>6, <1>8, <1>9

=============================================================================
