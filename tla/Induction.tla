----------------------------- MODULE Induction -----------------------------
(***************************************************************************)
(* Induction for the proofs about loops over sequences.  The library's     *)
(* induction theorems are about a predicate; stated about the set of the   *)
(* numbers a predicate holds for they can be used by every backend.        *)
(* Then what the sequences such loops build hold, and hold once.           *)
(***************************************************************************)
EXTENDS Naturals, Sequences, SequenceTheorems, WellFoundedInduction, TLAPS

LEMMA LeastNat ==
  ASSUME NEW T, T \subseteq Nat, T # {}
  PROVE  \E x \in T : \A y \in T : x <= y
  <1>1. PICK x \in T : \A y \in T : ~(<<y, x>> \in OpToRel(<, Nat))
    BY WFMin, NatLessThanWellFounded, Zenon
  <1>2. \A y \in T : ~(y < x)
    BY <1>1 DEF OpToRel
  <1> QED
    BY <1>2

LEMMA GreatestBelow ==
  ASSUME NEW T, NEW n \in Nat, T \subseteq 0..n, T # {}
  PROVE  \E x \in T : \A y \in T : y <= x
  <1> DEFINE U == {n - y : y \in T}
  <1>1. U \subseteq Nat
    OBVIOUS
  <1>2. U # {}
    <2>1. PICK y \in T : TRUE
      OBVIOUS
    <2>2. n - y \in U
      OBVIOUS
    <2> QED
      BY <2>2
  <1>3. PICK u \in U : \A w \in U : u <= w
    <2> HIDE DEF U
    <2> QED
      BY <1>1, <1>2, LeastNat
  <1>4. PICK x \in T : u = n - x
    BY <1>3
  <1>5. \A y \in T : n - x <= n - y
    BY <1>3, <1>4
  <1> QED
    BY <1>5

\* Induction up to n, for the set of the numbers that are as they should be.
LEMMA UpTo ==
  ASSUME NEW n \in Nat, NEW Good,
         0 \in Good,
         \A k \in 1..n : k - 1 \in Good => k \in Good
  PROVE  \A k \in 0..n : k \in Good
  <1> DEFINE Bad == (0..n) \ Good
  <1>1. SUFFICES ASSUME Bad # {} PROVE FALSE
    OBVIOUS
  <1>2. PICK b \in Bad : \A y \in Bad : b <= y
    <2>1. Bad \subseteq Nat
      OBVIOUS
    <2> HIDE DEF Bad
    <2> QED
      BY <1>1, <2>1, LeastNat
  <1>3. b \in 1..n
    BY <1>2
  <1>4. b - 1 \in Good
    BY <1>2, <1>3
  <1> QED
    BY <1>2, <1>3, <1>4

\* f holds the values a loop over 1..n goes through.
IsLoop(f, n, S, first, round) ==
    /\ f \in [0..n -> S]
    /\ f[0] = first
    /\ \A k \in 1..n : f[k] = round[k][f[k - 1]]

\* A loop is well defined: it starts with a value of S and each round takes
\* one value of S to another.
LEMMA LoopExists ==
  ASSUME NEW S, NEW n \in Nat, NEW first \in S, NEW round \in [1..n -> [S -> S]]
  PROVE  \E f : IsLoop(f, n, S, first, round)
  <1> USE DEF IsLoop
  <1> DEFINE Runs(f, k) ==
                 /\ f \in [0..k -> S]
                 /\ f[0] = first
                 /\ \A j \in 1..k : f[j] = round[j][f[j - 1]]
             Good == {k \in 0..n : \E f : Runs(f, k)}
  <1>1. 0 \in Good
    <2> DEFINE f == [k \in 0..0 |-> first]
    <2>1. f \in [0..0 -> S] /\ f[0] = first /\ 1..0 = {}
      OBVIOUS
    <2> HIDE DEF f
    <2>2. Runs(f, 0)
      BY <2>1
    <2> QED
      BY <2>2
  <1>2. ASSUME NEW k \in 1..n, k - 1 \in Good PROVE k \in Good
    <2> DEFINE m == k - 1
    <2>1. PICK f : Runs(f, m)
      BY <1>2
    <2>2. /\ m \in Nat /\ k = m + 1 /\ k # m /\ 0..k = (0..m) \cup {k}
          /\ 1..k = (1..m) \cup {k} /\ k \notin 0..m
          /\ \A j \in 1..k : j - 1 \in 0..m
      OBVIOUS
    <2> HIDE DEF m
    <2> DEFINE g == [j \in 0..k |-> IF j = k THEN round[k][f[m]] ELSE f[j]]
    <2>3. f[m] \in S /\ round[k][f[m]] \in S
      BY <2>1, <2>2
    <2>4. \A j \in 0..m : g[j] = f[j] /\ f[j] \in S
      BY <2>1, <2>2
    <2>5. g[k] = round[k][f[m]] /\ k - 1 = m
      BY <2>2
    <2>6. g \in [0..k -> S]
      BY <2>2, <2>3, <2>4
    <2>7. g[0] = first
      BY <2>1, <2>2, <2>4
    <2>8. \A j \in 1..k : g[j] = round[j][g[j - 1]]
      <3> HIDE DEF g
      <3>1. \A j \in 1..m : g[j] = round[j][g[j - 1]]
        <4>1. \A j \in 1..m : j \in 0..m /\ j - 1 \in 0..m
          BY <2>2
        <4> QED
          BY <2>1, <2>4, <4>1
      <3>2. g[k] = round[k][g[k - 1]]
        BY <2>2, <2>4, <2>5
      <3> QED
        BY <2>2, <3>1, <3>2
    <2> HIDE DEF g
    <2>9. Runs(g, k)
      BY <2>6, <2>7, <2>8
    <2> QED
      BY <2>9
  <1>3. n \in Good
    <2>1. \A k \in 1..n : k - 1 \in Good => k \in Good
      BY <1>2
    <2> HIDE DEF Good
    <2>2. \A k \in 0..n : k \in Good
      BY <1>1, <2>1, UpTo
    <2> QED
      BY <2>2
  <1> QED
    BY <1>3

-----------------------------------------------------------------------------
(* The elements of a sequence *)

Elems(s) == {s[a] : a \in 1..Len(s)}

Distinct(s) == \A a, b \in 1..Len(s) : s[a] = s[b] => a = b

LEMMA NoElems == Elems(<<>>) = {} /\ Distinct(<<>>)
  BY DEF Elems, Distinct

LEMMA OneElem == \A x : Elems(<<x>>) = {x} /\ Distinct(<<x>>)
  BY DEF Elems, Distinct

LEMMA ElemsTyped ==
  ASSUME NEW S, NEW s \in Seq(S)
  PROVE  Elems(s) \subseteq S
  BY ElementOfSeq DEF Elems

LEMMA ConcatElems ==
  ASSUME NEW S, NEW s \in Seq(S), NEW t \in Seq(S)
  PROVE  /\ s \o t \in Seq(S)
         /\ Elems(s \o t) = Elems(s) \cup Elems(t)
         /\ Distinct(s) /\ Distinct(t) /\ Elems(s) \cap Elems(t) = {}
               => Distinct(s \o t)
  <1> DEFINE u == s \o t
  <1>1. /\ u \in Seq(S) /\ Len(u) = Len(s) + Len(t)
        /\ Len(s) \in Nat /\ Len(t) \in Nat
        /\ \A a \in 1..Len(u) : u[a] = IF a <= Len(s) THEN s[a] ELSE t[a - Len(s)]
    <2>1. Len(s) \in Nat /\ Len(t) \in Nat
      BY LenProperties
    <2>2. /\ u \in Seq(S) /\ Len(u) = Len(s) + Len(t)
          /\ \A a \in 1..(Len(s) + Len(t)) :
                u[a] = IF a <= Len(s) THEN s[a] ELSE t[a - Len(s)]
      BY ConcatProperties
    <2> QED
      BY <2>1, <2>2
  <1> HIDE DEF u
  <1>2. \A a \in 1..Len(s) : a \in 1..Len(u) /\ u[a] = s[a]
    BY <1>1
  <1>3. \A b \in 1..Len(t) : Len(s) + b \in 1..Len(u) /\ u[Len(s) + b] = t[b]
    <2>1. \A b \in 1..Len(t) : /\ Len(s) + b \in 1..Len(u)
                                /\ ~(Len(s) + b <= Len(s))
                                /\ Len(s) + b - Len(s) = b
      BY <1>1
    <2> QED
      BY <1>1, <2>1
  <1>4. \A a \in 1..Len(u) : \/ a \in 1..Len(s) /\ u[a] = s[a]
                             \/ /\ a \notin 1..Len(s) /\ a - Len(s) \in 1..Len(t)
                                /\ u[a] = t[a - Len(s)]
    BY <1>1
  <1>5. Elems(u) = Elems(s) \cup Elems(t)
    <2>1. Elems(u) \subseteq Elems(s) \cup Elems(t)
      BY <1>4 DEF Elems
    <2>2. Elems(s) \subseteq Elems(u)
      BY <1>2 DEF Elems
    <2>3. Elems(t) \subseteq Elems(u)
      BY <1>3 DEF Elems
    <2> QED
      BY <2>1, <2>2, <2>3
  <1>6. ASSUME Distinct(s), Distinct(t), Elems(s) \cap Elems(t) = {}
        PROVE  Distinct(u)
    <2> SUFFICES ASSUME NEW a \in 1..Len(u), NEW b \in 1..Len(u), u[a] = u[b]
                 PROVE  a = b
      BY DEF Distinct
    <2>1. \A k \in 1..Len(s), l \in 1..Len(t) : s[k] # t[l]
      BY <1>6 DEF Elems
    <2>2. CASE a \in 1..Len(s) /\ b \in 1..Len(s)
      BY <1>2, <1>6, <2>2 DEF Distinct
    <2>3. CASE a \notin 1..Len(s) /\ b \notin 1..Len(s)
      <3>1. t[a - Len(s)] = t[b - Len(s)]
        BY <1>4, <2>3
      <3>2. a - Len(s) = b - Len(s)
        BY <1>4, <1>6, <2>3, <3>1 DEF Distinct
      <3> QED
        BY <1>1, <3>2
    <2> QED
      BY <1>4, <2>1, <2>2, <2>3
  <1> QED
    BY <1>1, <1>5, <1>6 DEF u

LEMMA TailElems ==
  ASSUME NEW S, NEW s \in Seq(S), s # <<>>
  PROVE  /\ Tail(s) \in Seq(S) /\ Head(s) \in S
         /\ Elems(s) = {Head(s)} \cup Elems(Tail(s))
         /\ Distinct(s) => Distinct(Tail(s)) /\ Head(s) \notin Elems(Tail(s))
  <1> DEFINE t == Tail(s)
  <1>1. /\ Head(s) = s[1] /\ Head(s) \in S /\ t \in Seq(S)
        /\ Len(t) = Len(s) - 1 /\ Len(s) \in Nat /\ Len(s) # 0
        /\ \A k \in 1..Len(t) : t[k] = s[k + 1]
    BY HeadTailProperties, LenProperties, EmptySeq
  <1> HIDE DEF t
  <1>2. \A k \in 1..Len(t) : k + 1 \in 1..Len(s) /\ t[k] = s[k + 1]
    BY <1>1
  <1>3. \A a \in 1..Len(s) : \/ a = 1
                             \/ a - 1 \in 1..Len(t) /\ t[a - 1] = s[a]
    BY <1>1, <1>2
  <1>4. 1 \in 1..Len(s)
    BY <1>1
  <1>5. Elems(s) = {Head(s)} \cup Elems(t)
    <2>1. Elems(s) \subseteq {Head(s)} \cup Elems(t)
      BY <1>1, <1>3 DEF Elems
    <2>2. Head(s) \in Elems(s)
      BY <1>1, <1>4 DEF Elems
    <2>3. Elems(t) \subseteq Elems(s)
      BY <1>2 DEF Elems
    <2> QED
      BY <2>1, <2>2, <2>3
  <1>6. ASSUME Distinct(s) PROVE Distinct(t) /\ Head(s) \notin Elems(t)
    <2>1. \A a, b \in 1..Len(t) : t[a] = t[b] => a + 1 = b + 1
      BY <1>2, <1>6 DEF Distinct
    <2>2. \A a, b \in 1..Len(t) : t[a] = t[b] => a = b
      BY <1>1, <2>1
    <2>3. \A a \in 1..Len(t) : t[a] = s[1] => a + 1 = 1
      BY <1>2, <1>4, <1>6 DEF Distinct
    <2>4. \A a \in 1..Len(t) : t[a] # s[1]
      BY <1>1, <2>3
    <2> QED
      BY <1>1, <2>2, <2>4 DEF Distinct, Elems
  <1> QED
    BY <1>1, <1>5, <1>6 DEF t

=============================================================================
