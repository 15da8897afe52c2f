-------------------------- MODULE VcdTogglesProofs --------------------------
(***************************************************************************)
(* Proofs that the replays count what the nets did, for every set of nets  *)
(* of any widths, every header and every series of values.  Two inductive  *)
(* invariants, one for each way of reading: VInv of the decoder and        *)
(* prefetch replays, which keep a value as it was written, gives           *)
(* NetsCountedOnce; CInv of the others, which keep a value while it is     *)
(* known and note each name of the designs once, gives AluCountsExact and  *)
(* RfCountsExact.  The sums those state come first.                        *)
(***************************************************************************)
EXTENDS VcdToggles, FiniteSetTheorems, SequenceTheorems, TLAPS

Digits == {"0", "1", "x"}

-----------------------------------------------------------------------------
(* Sets of numbers have a least and, below a bound, a greatest member.     *)

LEMMA LeastNumber ==
    ASSUME NEW N \in SUBSET Nat, N # {}
    PROVE  \E n \in N : \A k \in N : n =< k
<1> DEFINE T == {0..n : n \in N}
<1>1. IsWellFoundedOn(StrictSubsetOrdering(Nat), FiniteSubsetsOf(Nat))
  BY FS_StrictSubsetOrderingWellFounded
<1>2. T \subseteq FiniteSubsetsOf(Nat)
  <2> SUFFICES ASSUME NEW n \in N PROVE 0..n \in FiniteSubsetsOf(Nat)
    OBVIOUS
  <2>1. IsFiniteSet(0..n)
    BY FS_Interval
  <2> QED
    BY <2>1 DEF FiniteSubsetsOf
<1>3. T # {}
  OBVIOUS
<1> HIDE DEF T
<1>4. \E x \in T : \A y \in T : ~(<<y, x>> \in StrictSubsetOrdering(Nat))
  BY <1>1, <1>2, <1>3, WFMin
<1> USE DEF T
<1>5. PICK n \in N : \A k \in N : ~(<<0..k, 0..n>> \in StrictSubsetOrdering(Nat))
  BY <1>4
<1>6. ASSUME NEW k \in N, k < n
      PROVE  FALSE
  <2>1. 0..k \subseteq 0..n /\ n \in 0..n /\ n \notin 0..k
    BY <1>6
  <2>2. 0..k # 0..n /\ 0..k \in SUBSET Nat /\ 0..n \in SUBSET Nat
    BY <2>1
  <2> DEFINE kk == 0..k
             nn == 0..n
  <2>3. <<kk, nn>> \notin StrictSubsetOrdering(Nat)
    BY <1>5
  <2>4. kk \subseteq nn /\ kk # nn /\ kk \in SUBSET Nat /\ nn \in SUBSET Nat
    BY <2>1, <2>2
  <2> HIDE DEF kk, nn
  <2> QED
    BY <2>3, <2>4 DEF StrictSubsetOrdering
<1> QED
  BY <1>6

LEMMA GreatestNumber ==
    ASSUME NEW w \in Nat, NEW N \in SUBSET (1..w), N # {}
    PROVE  \E n \in N : \A k \in N : k =< n
<1> DEFINE M == {w - n : n \in N}
<1>1. M \in SUBSET Nat /\ M # {}
  <2>1. \A n \in N : w - n \in Nat
    OBVIOUS
  <2> QED
    BY <2>1
<1> HIDE DEF M
<1>2. PICK m \in M : \A k \in M : m =< k
  BY <1>1, LeastNumber
<1> USE DEF M
<1>3. PICK n \in N : m = w - n
  OBVIOUS
<1>4. \A k \in N : w - n =< w - k
  BY <1>2, <1>3
<1>5. w - n \in Nat /\ n \in Nat /\ \A k \in N : k \in Nat
  OBVIOUS
<1>6. \A k \in N : k =< n
  BY <1>4, <1>5
<1> QED
  BY <1>6

-----------------------------------------------------------------------------
(* Sums.  The equation of the fold behind SumFunctionOnSet has a solution,  *)
(* and every solution has the same value, so that the sum is what one      *)
(* expects.  Each induction is over the subsets of a finite set: among     *)
(* those that fail there would be a smallest one.                          *)

LEMMA Smallest ==
    ASSUME NEW S, IsFiniteSet(S), NEW B \in SUBSET SUBSET S, B # {}
    PROVE  \E t \in B : \A u \in B : u \subseteq t => u = t
<1>1. IsWellFoundedOn(StrictSubsetOrdering(S), FiniteSubsetsOf(S))
  BY FS_StrictSubsetOrderingWellFounded
<1>2. B \subseteq FiniteSubsetsOf(S)
  BY FS_Subset DEF FiniteSubsetsOf
<1>3. PICK t \in B : \A u \in B : ~(<<u, t>> \in StrictSubsetOrdering(S))
  BY <1>1, <1>2, WFMin
<1> QED
  BY <1>3 DEF StrictSubsetOrdering

\* The member a fold takes first.
First(s) == CHOOSE x \in s : TRUE
Rest(s) == s \ {First(s)}

LEMMA FirstIn == ASSUME NEW s, s # {} PROVE First(s) \in s /\ Rest(s) \subseteq s /\ Rest(s) # s
BY DEF First, Rest

\* g has the partial sums of f.
Partial(g, f, S) ==
    g = [s \in SUBSET S |-> IF s = {} THEN 0 ELSE f[First(s)] + g[Rest(s)]]

LEMMA PartialIs ==
    ASSUME NEW S, NEW f, NEW g, Partial(g, f, S), NEW s \in SUBSET S
    PROVE  g[s] = IF s = {} THEN 0 ELSE f[First(s)] + g[Rest(s)]
BY DEF Partial

LEMMA PartialUnique ==
    ASSUME NEW S, IsFiniteSet(S), NEW f, NEW g, NEW h, NEW T,
           Partial(g, f, S), Partial(h, f, T), S \subseteq T
    PROVE  g[S] = h[S]
<1> DEFINE B == {s \in SUBSET S : g[s] # h[s]}
<1> SUFFICES ASSUME g[S] # h[S] PROVE FALSE
  OBVIOUS
<1>1. B # {} /\ B \in SUBSET SUBSET S
  OBVIOUS
<1> HIDE DEF B
<1>2. PICK s \in B : \A u \in B : u \subseteq s => u = s
  BY <1>1, Smallest
<1> USE DEF B
<1>3. s \in SUBSET S /\ s \in SUBSET T /\ g[s] # h[s]
  BY <1>2
<1>4. CASE s = {}
  BY <1>3, <1>4, PartialIs
<1>5. CASE s # {}
  <2>1. Rest(s) \subseteq s /\ Rest(s) # s
    BY <1>5, FirstIn
  <2>2. g[Rest(s)] = h[Rest(s)]
    BY <1>2, <1>3, <2>1
  <2>3. g[s] = f[First(s)] + g[Rest(s)]
    BY <1>3, <1>5, PartialIs
  <2>4. h[s] = f[First(s)] + h[Rest(s)]
    BY <1>3, <1>5, PartialIs
  <2> QED
    BY <1>3, <2>2, <2>3, <2>4
<1> QED
  BY <1>4, <1>5

LEMMA PartialExists ==
    ASSUME NEW S, IsFiniteSet(S), NEW f
    PROVE  \E g : Partial(g, f, S)
<1> DEFINE B == {s \in SUBSET S : ~\E g : Partial(g, f, s)}
<1> SUFFICES ASSUME ~\E g : Partial(g, f, S) PROVE FALSE
  OBVIOUS
<1>1. B # {} /\ B \in SUBSET SUBSET S
  OBVIOUS
<1> HIDE DEF B
<1>2. PICK t \in B : \A u \in B : u \subseteq t => u = t
  BY <1>1, Smallest
<1> USE DEF B
<1>3. t \in SUBSET S /\ ~\E g : Partial(g, f, t)
  BY <1>2
<1>4. \A u \in SUBSET t : u # t => \E g : Partial(g, f, u)
  BY <1>2, <1>3
<1> DEFINE G(u) == CHOOSE g : Partial(g, f, u)
           h == [s \in SUBSET t |-> IF s = {} THEN 0 ELSE f[First(s)] + G(Rest(s))[Rest(s)]]
<1>5. \A u \in SUBSET t : u # t => Partial(G(u), f, u)
  BY <1>4
<1> HIDE DEF G
<1>6. ASSUME NEW s \in SUBSET t, s # {}
      PROVE  G(Rest(s))[Rest(s)] = h[Rest(s)]
  <2> DEFINE r == Rest(s)
  <2>1. r \in SUBSET t /\ r # t
    BY <1>6, FirstIn
  <2>2. Partial(G(r), f, r)
    BY <1>5, <2>1
  <2> HIDE DEF r
  <2>3. CASE r = {}
    <3>1. G(r)[r] = 0
      BY <2>2, <2>3, PartialIs
    <3> QED
      BY <2>1, <2>3, <3>1 DEF r
  <2>4. CASE r # {}
    <3>1. G(r)[r] = f[First(r)] + G(r)[Rest(r)]
      BY <2>2, <2>4, PartialIs
    <3>2. Rest(r) \subseteq r /\ Rest(r) # t /\ Rest(r) \in SUBSET t
      BY <2>1, <2>4, FirstIn
    <3>3. Partial(G(Rest(r)), f, Rest(r)) /\ IsFiniteSet(Rest(r))
      BY <1>3, <1>5, <3>2, FS_Subset
    <3>4. G(r)[Rest(r)] = G(Rest(r))[Rest(r)]
      BY <2>2, <3>2, <3>3, PartialUnique
    <3>5. h[r] = f[First(r)] + G(Rest(r))[Rest(r)]
      BY <2>1, <2>4
    <3> QED
      BY <3>1, <3>4, <3>5 DEF r
  <2> QED
    BY <2>3, <2>4
<1>7. Partial(h, f, t)
  <2>1. h = [s \in SUBSET t |-> IF s = {} THEN 0 ELSE f[First(s)] + h[Rest(s)]]
    BY <1>6
  <2> HIDE DEF h
  <2> QED
    BY <2>1 DEF Partial
<1> QED
  BY <1>3, <1>7

LEMMA SumIsPartial ==
    ASSUME NEW S, IsFiniteSet(S), NEW f
    PROVE  \E g : Partial(g, f, S) /\ SumFunctionOnSet(f, S) = g[S]
<1> DEFINE g == CHOOSE g : Partial(g, f, S)
<1>1. Partial(g, f, S)
  BY PartialExists
<1>2. SumFunctionOnSet(f, S) = g[S]
  BY DEF SumFunctionOnSet, FoldFunctionOnSet, MapThenFoldSet, Partial, First, Rest
<1> QED
  BY <1>1, <1>2

LEMMA SumOfNone == ASSUME NEW f PROVE SumFunctionOnSet(f, {}) = 0
<1>1. IsFiniteSet({})
  BY FS_EmptySet
<1>2. PICK g : Partial(g, f, {}) /\ SumFunctionOnSet(f, {}) = g[{}]
  BY <1>1, SumIsPartial
<1>3. g[{}] = 0
  BY <1>2, PartialIs
<1> QED
  BY <1>2, <1>3

LEMMA SumFirst ==
    ASSUME NEW S, IsFiniteSet(S), S # {}, NEW f
    PROVE  SumFunctionOnSet(f, S) = f[First(S)] + SumFunctionOnSet(f, Rest(S))
<1>1. PICK g : Partial(g, f, S) /\ SumFunctionOnSet(f, S) = g[S]
  BY SumIsPartial
<1>2. g[S] = f[First(S)] + g[Rest(S)]
  BY <1>1, PartialIs
<1>3. Rest(S) \subseteq S /\ IsFiniteSet(Rest(S))
  BY FirstIn, FS_Subset
<1>4. PICK h : Partial(h, f, Rest(S)) /\ SumFunctionOnSet(f, Rest(S)) = h[Rest(S)]
  BY <1>3, SumIsPartial
<1>5. h[Rest(S)] = g[Rest(S)]
  BY <1>1, <1>3, <1>4, PartialUnique
<1> QED
  BY <1>1, <1>2, <1>4, <1>5

LEMMA SumIsNat ==
    ASSUME NEW S, IsFiniteSet(S), NEW f, \A x \in S : f[x] \in Nat
    PROVE  SumFunctionOnSet(f, S) \in Nat
<1> DEFINE B == {s \in SUBSET S : SumFunctionOnSet(f, s) \notin Nat}
<1> SUFFICES ASSUME SumFunctionOnSet(f, S) \notin Nat PROVE FALSE
  OBVIOUS
<1>1. B # {} /\ B \in SUBSET SUBSET S
  OBVIOUS
<1> HIDE DEF B
<1>2. PICK s \in B : \A u \in B : u \subseteq s => u = s
  BY <1>1, Smallest
<1> USE DEF B
<1>3. s \in SUBSET S /\ SumFunctionOnSet(f, s) \notin Nat /\ IsFiniteSet(s)
  BY <1>2, FS_Subset
<1>4. s # {}
  BY <1>3, SumOfNone
<1>5. First(s) \in S /\ Rest(s) \in SUBSET S /\ Rest(s) \subseteq s /\ Rest(s) # s
  BY <1>3, <1>4, FirstIn
<1>6. SumFunctionOnSet(f, Rest(s)) \in Nat
  BY <1>2, <1>5
<1>7. SumFunctionOnSet(f, s) = f[First(s)] + SumFunctionOnSet(f, Rest(s))
  BY <1>3, <1>4, SumFirst
<1> QED
  BY <1>3, <1>5, <1>6, <1>7

\* Any member can be taken out first.
LEMMA SumWithout ==
    ASSUME NEW S, IsFiniteSet(S), NEW f, \A x \in S : f[x] \in Nat, NEW y \in S
    PROVE  SumFunctionOnSet(f, S) = f[y] + SumFunctionOnSet(f, S \ {y})
<1> DEFINE B == {s \in SUBSET S : \E z \in s :
                    SumFunctionOnSet(f, s) # f[z] + SumFunctionOnSet(f, s \ {z})}
<1> SUFFICES ASSUME SumFunctionOnSet(f, S) # f[y] + SumFunctionOnSet(f, S \ {y}) PROVE FALSE
  OBVIOUS
<1>1. S \in B /\ B \in SUBSET SUBSET S
  OBVIOUS
<1> HIDE DEF B
<1>2. PICK s \in B : \A u \in B : u \subseteq s => u = s
  BY <1>1, Smallest
<1> USE DEF B
<1>3. PICK z \in s : SumFunctionOnSet(f, s) # f[z] + SumFunctionOnSet(f, s \ {z})
  BY <1>2
<1> DEFINE c == First(s)
<1>4. s \in SUBSET S /\ IsFiniteSet(s) /\ c \in s /\ Rest(s) = s \ {c}
  BY <1>2, <1>3, FS_Subset, FirstIn DEF Rest
<1>5. SumFunctionOnSet(f, s) = f[c] + SumFunctionOnSet(f, s \ {c})
  BY <1>3, <1>4, SumFirst
<1> HIDE DEF c
<1>6. z # c
  BY <1>3, <1>5
<1>7. s \ {c} \in SUBSET S /\ s \ {z} \in SUBSET S /\ s \ {c} # s /\ s \ {z} # s
  BY <1>3, <1>4
<1>8. SumFunctionOnSet(f, s \ {c}) = f[z] + SumFunctionOnSet(f, (s \ {c}) \ {z})
  <2>1. s \ {c} \notin B
    BY <1>2, <1>7
  <2>2. z \in s \ {c}
    BY <1>3, <1>6
  <2> QED
    BY <1>7, <2>1, <2>2
<1>9. SumFunctionOnSet(f, s \ {z}) = f[c] + SumFunctionOnSet(f, (s \ {z}) \ {c})
  <2>1. s \ {z} \notin B
    BY <1>2, <1>7
  <2>2. c \in s \ {z}
    BY <1>4, <1>6
  <2> QED
    BY <1>7, <2>1, <2>2
<1>10. (s \ {c}) \ {z} = (s \ {z}) \ {c}
  OBVIOUS
<1>11. IsFiniteSet((s \ {c}) \ {z}) /\ (s \ {c}) \ {z} \in SUBSET S /\ z \in S /\ c \in S
  BY <1>3, <1>4, FS_Subset
<1>12. SumFunctionOnSet(f, (s \ {c}) \ {z}) \in Nat
  BY <1>11, SumIsNat
<1> QED
  BY <1>3, <1>5, <1>8, <1>9, <1>10, <1>11, <1>12

\* When the members of T gain n each, the sum gains n times their number.
LEMMA SumGains ==
    ASSUME NEW S, IsFiniteSet(S), NEW T \in SUBSET S, NEW n \in Nat,
           NEW f, \A x \in S : f[x] \in Nat,
           NEW g, \A x \in S : g[x] = IF x \in T THEN f[x] + n ELSE f[x]
    PROVE  /\ SumFunctionOnSet(g, S) = SumFunctionOnSet(f, S) + n * Cardinality(T)
           /\ SumFunctionOnSet(f, S) \in Nat /\ Cardinality(T) \in Nat
<1> DEFINE Gains(s) == SumFunctionOnSet(g, s) =
                          SumFunctionOnSet(f, s) + n * Cardinality(s \cap T)
           B == {s \in SUBSET S : ~Gains(s)}
<1>1. S \cap T = T
  OBVIOUS
<1>2. SumFunctionOnSet(f, S) \in Nat
  BY SumIsNat
<1>3. Cardinality(T) \in Nat
  BY FS_Subset, FS_CardinalityType
<1>4. ASSUME ~Gains(S) PROVE FALSE
  <2>1. B # {} /\ B \in SUBSET SUBSET S
    BY <1>4
  <2> HIDE DEF B
  <2>2. PICK s \in B : \A u \in B : u \subseteq s => u = s
    BY <2>1, Smallest
  <2> USE DEF B
  <2>3. s \in SUBSET S /\ IsFiniteSet(s) /\ ~Gains(s)
    BY <2>2, FS_Subset
  <2>4. CASE s = {}
    <3>1. s \cap T = {}
      BY <2>4
    <3>2. Cardinality(s \cap T) = 0
      BY <3>1, FS_EmptySet
    <3>3. SumFunctionOnSet(g, s) = 0 /\ SumFunctionOnSet(f, s) = 0
      BY <2>4, SumOfNone
    <3> QED
      BY <2>3, <3>2, <3>3
  <2>5. CASE s # {}
    <3> DEFINE c == First(s)
    <3>1. c \in s /\ c \in S /\ Rest(s) \in SUBSET S /\ Rest(s) \subseteq s /\ Rest(s) # s
          /\ Rest(s) = s \ {c}
      BY <2>3, <2>5, FirstIn DEF Rest
    <3>2. Gains(Rest(s))
      BY <2>2, <3>1
    <3>3. SumFunctionOnSet(g, s) = g[c] + SumFunctionOnSet(g, Rest(s))
      BY <2>3, <2>5, SumFirst
    <3>4. SumFunctionOnSet(f, s) = f[c] + SumFunctionOnSet(f, Rest(s))
      BY <2>3, <2>5, SumFirst
    <3>5. IsFiniteSet(Rest(s)) /\ IsFiniteSet(Rest(s) \cap T)
      BY <2>3, <3>1, FS_Subset
    <3>6. SumFunctionOnSet(f, Rest(s)) \in Nat /\ Cardinality(Rest(s) \cap T) \in Nat
      BY <3>1, <3>5, SumIsNat, FS_CardinalityType
    <3> HIDE DEF c
    <3>7. CASE c \in T
      <4>1. s \cap T = (Rest(s) \cap T) \cup {c} /\ c \notin Rest(s) \cap T
        BY <3>1, <3>7
      <4>2. Cardinality(s \cap T) = Cardinality(Rest(s) \cap T) + 1
        BY <3>5, <4>1, FS_AddElement
      <4>3. g[c] = f[c] + n /\ f[c] \in Nat
        BY <3>1, <3>7
      <4>4. n * (Cardinality(Rest(s) \cap T) + 1) = n * Cardinality(Rest(s) \cap T) + n
            /\ n * Cardinality(Rest(s) \cap T) \in Nat
        BY <3>6
      <4> QED
        BY <2>3, <3>2, <3>3, <3>4, <3>6, <4>2, <4>3, <4>4
    <3>8. CASE c \notin T
      <4>1. s \cap T = Rest(s) \cap T
        BY <3>1, <3>8
      <4>2. g[c] = f[c] /\ f[c] \in Nat
        BY <3>1, <3>8
      <4>3. n * Cardinality(Rest(s) \cap T) \in Nat
        BY <3>6
      <4>4. SumFunctionOnSet(g, s) =
              f[c] + (SumFunctionOnSet(f, Rest(s)) + n * Cardinality(Rest(s) \cap T))
        BY <3>2, <3>3, <4>2
      <4>5. SumFunctionOnSet(g, s) =
              (f[c] + SumFunctionOnSet(f, Rest(s))) + n * Cardinality(Rest(s) \cap T)
        BY <3>6, <4>2, <4>3, <4>4
      <4> QED
        BY <2>3, <3>4, <4>1, <4>5
    <3> QED
      BY <3>7, <3>8
  <2> QED
    BY <2>4, <2>5
<1> QED
  BY <1>1, <1>2, <1>3, <1>4

LEMMA SumOfZeros ==
    ASSUME NEW S, IsFiniteSet(S), NEW f, \A x \in S : f[x] = 0
    PROVE  SumFunctionOnSet(f, S) = 0
<1> DEFINE B == {s \in SUBSET S : SumFunctionOnSet(f, s) # 0}
<1> SUFFICES ASSUME SumFunctionOnSet(f, S) # 0 PROVE FALSE
  OBVIOUS
<1>1. B # {} /\ B \in SUBSET SUBSET S
  OBVIOUS
<1> HIDE DEF B
<1>2. PICK s \in B : \A u \in B : u \subseteq s => u = s
  BY <1>1, Smallest
<1> USE DEF B
<1>3. s \in SUBSET S /\ SumFunctionOnSet(f, s) # 0 /\ IsFiniteSet(s)
  BY <1>2, FS_Subset
<1>4. s # {}
  BY <1>3, SumOfNone
<1>5. First(s) \in S /\ Rest(s) \in SUBSET S /\ Rest(s) \subseteq s /\ Rest(s) # s
  BY <1>3, <1>4, FirstIn
<1>6. SumFunctionOnSet(f, Rest(s)) = 0
  BY <1>2, <1>5
<1>7. SumFunctionOnSet(f, s) = f[First(s)] + SumFunctionOnSet(f, Rest(s))
  BY <1>3, <1>4, SumFirst
<1> QED
  BY <1>3, <1>5, <1>6, <1>7

\* A sum of equal terms.
LEMMA SumOfEquals ==
    ASSUME NEW S, IsFiniteSet(S), NEW n \in Nat, NEW f, \A x \in S : f[x] = n
    PROVE  SumFunctionOnSet(f, S) = n * Cardinality(S)
<1> DEFINE zero == [x \in S |-> 0]
<1>1. SumFunctionOnSet(zero, S) = 0
  BY SumOfZeros
<1>2. \A x \in S : zero[x] \in Nat /\ f[x] = IF x \in S THEN zero[x] + n ELSE zero[x]
  OBVIOUS
<1> HIDE DEF zero
<1>3. /\ SumFunctionOnSet(f, S) = SumFunctionOnSet(zero, S) + n * Cardinality(S)
      /\ Cardinality(S) \in Nat
  BY <1>2, SumGains
<1>4. n * Cardinality(S) \in Nat
  BY <1>3
<1> QED
  BY <1>1, <1>3, <1>4

-----------------------------------------------------------------------------
(* The digits a dump leaves out.                                           *)

\* Zeros before a known digit, or copies of an unknown one.
LEMMA ShortenedIs ==
    ASSUME NEW w \in Nat \ {0}, NEW v \in Values(w)
    PROVE  \E m \in 1..w :
             /\ Shortened(v) \in Seq(Digits) /\ Len(Shortened(v)) = w - m + 1
             /\ \A i \in 1..w - m + 1 : Shortened(v)[i] = v[m + i - 1]
             /\ \/ v[m] # "x" /\ \A i \in 1..m - 1 : v[i] = "0"
                \/ \A i \in 1..m : v[i] = "x"
<1> DEFINE cut == {k \in 1..Len(v) : \A i \in 1..(k - 1) :
                      \/ v[i] = "0" /\ v[i + 1] # "x"
                      \/ v[i] = "x" /\ v[i + 1] = "x"}
<1>1. v \in Seq(Digits) /\ Len(v) = w /\ \A i \in 1..w : v[i] \in Digits
  BY DEF Values, Digits
<1>2. cut \in SUBSET (1..w) /\ 1 \in cut
  BY <1>1
<1> HIDE DEF cut
<1>3. \E m \in cut : \A k \in cut : m >= k
  <2>1. PICK m \in cut : \A k \in cut : k =< m
    BY <1>2, GreatestNumber
  <2>2. \A k \in cut : m >= k
    BY <1>2, <2>1
  <2> QED
    BY <2>2
<1> DEFINE m == Max(cut)
<1>4. m \in cut
  BY <1>3 DEF Max
<1>5. m \in 1..w
  BY <1>2, <1>4
<1>6. Shortened(v) = SubSeq(v, m, w)
  BY <1>1 DEF Shortened, cut
<1> HIDE DEF m
<1>7. \A i \in 1..m - 1 : \/ v[i] = "0" /\ v[i + 1] # "x"
                          \/ v[i] = "x" /\ v[i + 1] = "x"
  BY <1>4 DEF cut
\* Unknown digits are never next to known ones in front of the m-th.
<1>8. \A i \in 1..m : v[i] = "x" <=> v[m] = "x"
  <2> DEFINE N == {i \in 1..m : ~(v[i] = "x" <=> v[m] = "x")}
  <2> SUFFICES ASSUME N # {} PROVE FALSE
    OBVIOUS
  <2>1. N \in SUBSET (1..m) /\ m \in Nat
    BY <1>5
  <2> HIDE DEF N
  <2>2. PICK i \in N : \A k \in N : k =< i
    BY <2>1, GreatestNumber
  <2> USE DEF N
  <2>3. i \in 1..m - 1 /\ i + 1 \in 1..m
    BY <1>5
  <2>4. i + 1 \notin N
    BY <2>2, <2>3
  <2> QED
    BY <1>7, <2>3, <2>4
<1>9. /\ Shortened(v) \in Seq(Digits) /\ Len(Shortened(v)) = w - m + 1
      /\ \A i \in 1..w - m + 1 : Shortened(v)[i] = v[m + i - 1]
  BY <1>1, <1>5, <1>6
<1>10. CASE v[m] = "x"
  BY <1>5, <1>8, <1>9, <1>10
<1>11. CASE v[m] # "x"
  BY <1>5, <1>7, <1>8, <1>9, <1>11
<1> QED
  BY <1>10, <1>11

\* No two values of a net are written alike.
LEMMA ShortenedTells ==
    ASSUME NEW w \in Nat \ {0}, NEW u \in Values(w), NEW v \in Values(w),
           Shortened(u) = Shortened(v)
    PROVE  u = v
<1>1. PICK m \in 1..w :
             /\ Shortened(u) \in Seq(Digits) /\ Len(Shortened(u)) = w - m + 1
             /\ \A i \in 1..w - m + 1 : Shortened(u)[i] = u[m + i - 1]
             /\ \/ u[m] # "x" /\ \A i \in 1..m - 1 : u[i] = "0"
                \/ \A i \in 1..m : u[i] = "x"
  BY ShortenedIs
<1>2. PICK n \in 1..w :
             /\ Shortened(v) \in Seq(Digits) /\ Len(Shortened(v)) = w - n + 1
             /\ \A i \in 1..w - n + 1 : Shortened(v)[i] = v[n + i - 1]
             /\ \/ v[n] # "x" /\ \A i \in 1..n - 1 : v[i] = "0"
                \/ \A i \in 1..n : v[i] = "x"
  BY ShortenedIs
<1>3. m = n
  BY <1>1, <1>2
<1>4. ASSUME NEW i \in m..w
      PROVE  u[i] = v[i]
  <2>1. i - m + 1 \in 1..w - m + 1 /\ m + (i - m + 1) - 1 = i
    OBVIOUS
  <2> QED
    BY <1>1, <1>2, <1>3, <2>1
<1>5. ASSUME NEW i \in 1..m - 1
      PROVE  u[i] = v[i]
  <2>1. u[m] = v[m] /\ m \in 1..m /\ i \in 1..m
    BY <1>4
  <2> QED
    BY <1>1, <1>2, <1>3, <2>1
<1>6. \A i \in 1..w : u[i] = v[i]
  BY <1>4, <1>5
<1> QED
  BY <1>6 DEF Values

-----------------------------------------------------------------------------
(* What a reader compares.                                                 *)

LEMMA FilledIs ==
    ASSUME NEW s \in Seq(Digits), NEW n \in Nat
    PROVE  LET gap == IF n > Len(s) THEN n - Len(s) ELSE 0
           IN  /\ zfill(s, n) \in Seq(Digits) /\ Len(zfill(s, n)) = gap + Len(s)
               /\ \A i \in 1..gap + Len(s) :
                    zfill(s, n)[i] = IF i =< gap THEN "0" ELSE s[i - gap]
<1> DEFINE k == IF n > Len(s) THEN n - Len(s) ELSE 0
           zs == [i \in 1..k |-> "0"]
<1>1. k \in Nat
  OBVIOUS
<1> HIDE DEF k
<1>2. zs \in Seq(Digits) /\ Len(zs) = k /\ \A i \in 1..k : zs[i] = "0"
  BY <1>1 DEF Digits
<1>3. zfill(s, n) = zs \o s
  BY DEF zfill, k
<1> HIDE DEF zs
<1>4. /\ zs \o s \in Seq(Digits) /\ Len(zs \o s) = k + Len(s)
      /\ \A i \in 1..k + Len(s) : (zs \o s)[i] = IF i =< k THEN zs[i] ELSE s[i - k]
  BY <1>1, <1>2
<1> QED
  <2>1. k = IF n > Len(s) THEN n - Len(s) ELSE 0
    BY DEF k
  <2>2. Len(s) \in Nat
    OBVIOUS
  <2>3. /\ zfill(s, n) \in Seq(Digits) /\ Len(zfill(s, n)) = k + Len(s)
        /\ \A i \in 1..k + Len(s) : zfill(s, n)[i] = IF i =< k THEN "0" ELSE s[i - k]
    BY <1>1, <1>2, <1>3, <1>4, <2>2
  <2> QED
    BY <2>1, <2>3

\* A value with all its digits known is read whole, any other as unknown.
LEMMA NormalIs ==
    ASSUME NEW w \in Nat \ {0}, NEW v \in Values(w)
    PROVE  normalize(Shortened(v), w) = IF Known(v) THEN v ELSE None
<1>1. PICK m \in 1..w :
             /\ Shortened(v) \in Seq(Digits) /\ Len(Shortened(v)) = w - m + 1
             /\ \A i \in 1..w - m + 1 : Shortened(v)[i] = v[m + i - 1]
             /\ \/ v[m] # "x" /\ \A i \in 1..m - 1 : v[i] = "0"
                \/ \A i \in 1..m : v[i] = "x"
  BY ShortenedIs
<1> DEFINE s == Shortened(v)
           full == zfill(s, w)
<1>2. /\ s \in Seq(Digits) /\ Len(s) = w - m + 1
      /\ \A i \in 1..w - m + 1 : s[i] = v[m + i - 1]
  BY <1>1
<1>3. DOMAIN s = 1..w - m + 1 /\ DOMAIN v = 1..w /\ v = [i \in 1..w |-> v[i]]
  BY <1>2 DEF Values
<1>4. Known(s) <=> Known(v)
  <2>1. ASSUME Known(v) PROVE Known(s)
    <3>1. ASSUME NEW i \in 1..w - m + 1 PROVE s[i] # "x"
      <4>1. m + i - 1 \in 1..w
        OBVIOUS
      <4> QED
        BY <1>2, <1>3, <2>1, <4>1 DEF Known
    <3> QED
      BY <1>3, <3>1 DEF Known
  <2>2. ASSUME Known(s) PROVE Known(v)
    <3>1. v[m] # "x"
      <4>1. 1 \in 1..w - m + 1 /\ m + 1 - 1 = m
        OBVIOUS
      <4>2. s[1] = v[m] /\ s[1] # "x"
        BY <1>2, <1>3, <2>2, <4>1 DEF Known
      <4> QED
        BY <4>2
    <3>2. \A i \in 1..m - 1 : v[i] = "0"
      <4>1. m \in 1..m
        OBVIOUS
      <4> QED
        BY <1>1, <3>1, <4>1
    <3>3. ASSUME NEW i \in m..w PROVE v[i] # "x"
      <4>1. i - m + 1 \in 1..w - m + 1 /\ m + (i - m + 1) - 1 = i
        OBVIOUS
      <4> QED
        BY <1>2, <1>3, <2>2, <4>1 DEF Known
    <3>4. \A i \in 1..w : v[i] # "x"
      BY <3>2, <3>3
    <3> QED
      BY <1>3, <3>4 DEF Known
  <2> QED
    BY <2>1, <2>2
<1> HIDE DEF s
<1>5. ASSUME Known(v)
      PROVE  SubSeq(full, Len(full) - w + 1, Len(full)) = v
  <2>1. v[m] # "x" /\ \A i \in 1..m - 1 : v[i] = "0"
    <3>1. m \in 1..m
      OBVIOUS
    <3>2. v[m] # "x"
      BY <1>3, <1>5 DEF Known
    <3> QED
      BY <1>1, <3>1, <3>2
  <2> DEFINE gap == IF w > Len(s) THEN w - Len(s) ELSE 0
  <2>2. gap = m - 1
    BY <1>2
  <2>10. /\ full \in Seq(Digits) /\ Len(full) = gap + Len(s)
         /\ \A i \in 1..gap + Len(s) : full[i] = IF i =< gap THEN "0" ELSE s[i - gap]
    BY <1>2, FilledIs
  <2> HIDE DEF gap, full
  <2>3. /\ full \in Seq(Digits) /\ Len(full) = (m - 1) + Len(s)
        /\ \A i \in 1..(m - 1) + Len(s) : full[i] = IF i =< m - 1 THEN "0" ELSE s[i - (m - 1)]
    BY <2>2, <2>10
  <2>4. Len(full) = w
    BY <1>2, <2>3
  <2>5. ASSUME NEW i \in 1..w PROVE full[i] = v[i]
    <3>1. CASE i =< m - 1
      BY <2>1, <1>2, <2>3, <3>1
    <3>2. CASE i > m - 1
      <4>1. i - (m - 1) \in 1..w - m + 1 /\ m + (i - (m - 1)) - 1 = i
        BY <3>2
      <4> QED
        BY <1>2, <2>3, <3>2, <4>1
    <3> QED
      BY <3>1, <3>2
  <2>6. full = [i \in 1..w |-> full[i]]
    BY <2>3, <2>4
  <2>7. full = v
    BY <1>3, <2>5, <2>6
  <2>8. SubSeq(full, 1, w) = full
    BY <2>3, <2>4
  <2>9. Len(full) - w + 1 = 1
    BY <2>4
  <2> QED
    BY <2>4, <2>7, <2>8, <2>9
<1>6. normalize(s, w) = IF Known(s) THEN SubSeq(full, Len(full) - w + 1, Len(full)) ELSE None
  BY DEF normalize
<1> QED
  BY <1>4, <1>5, <1>6 DEF s

Differ(s, t) == {i \in DOMAIN s \cap DOMAIN t : s[i] # t[i]}

LEMMA FlipsAre ==
    ASSUME NEW s \in Seq(Digits), NEW t \in Seq(Digits)
    PROVE  /\ Flips(s, t) = Cardinality(Differ(s, t)) /\ IsFiniteSet(Differ(s, t))
           /\ Flips(s, t) \in Nat /\ Flips(s, t) =< Len(s)
           /\ Flips(s, t) = 0 <=> Differ(s, t) = {}
<1>1. Flips(s, t) = Cardinality(Differ(s, t))
  BY DEF Flips, Differ
<1>2. Differ(s, t) \in SUBSET (1..Len(s)) /\ Len(s) \in Nat
  BY DEF Differ
<1>3. IsFiniteSet(1..Len(s)) /\ Cardinality(1..Len(s)) = Len(s)
  <2>1. Len(s) \in Int /\ 1 \in Int
    BY <1>2
  <2>2. IsFiniteSet(1..Len(s)) /\ Cardinality(1..Len(s)) = IF 1 > Len(s) THEN 0 ELSE Len(s) - 1 + 1
    BY <2>1, FS_Interval
  <2> QED
    BY <1>2, <2>2
<1>4. IsFiniteSet(Differ(s, t)) /\ Cardinality(Differ(s, t)) =< Len(s)
  BY <1>2, <1>3, FS_Subset
<1>5. Cardinality(Differ(s, t)) \in Nat
  BY <1>4, FS_CardinalityType
<1>6. Cardinality(Differ(s, t)) = 0 <=> Differ(s, t) = {}
  BY <1>4, FS_EmptySet
<1> QED
  BY <1>1, <1>4, <1>5, <1>6

\* As a change reads: what is compared of two values of a net.
Old(u, v) == zfill(Shortened(u), Len(Shortened(v)))

LEMMA OldIs ==
    ASSUME NEW w \in Nat \ {0}, NEW u \in Values(w), NEW v \in Values(w)
    PROVE  /\ Old(u, v) \in Seq(Digits) /\ Old(v, u) \in Seq(Digits)
           /\ Len(Old(u, v)) = Len(Old(v, u)) /\ Len(Old(u, v)) \in 1..w
           /\ Known(u) /\ Known(v) =>
                /\ \A i \in 1..Len(Old(u, v)) :
                      /\ Old(u, v)[i] = u[w - Len(Old(u, v)) + i]
                      /\ Old(v, u)[i] = v[w - Len(Old(u, v)) + i]
                /\ \A i \in 1..w - Len(Old(u, v)) : u[i] = v[i]
<1>1. PICK m \in 1..w :
             /\ Shortened(u) \in Seq(Digits) /\ Len(Shortened(u)) = w - m + 1
             /\ \A i \in 1..w - m + 1 : Shortened(u)[i] = u[m + i - 1]
             /\ \/ u[m] # "x" /\ \A i \in 1..m - 1 : u[i] = "0"
                \/ \A i \in 1..m : u[i] = "x"
  BY ShortenedIs
<1>2. PICK n \in 1..w :
             /\ Shortened(v) \in Seq(Digits) /\ Len(Shortened(v)) = w - n + 1
             /\ \A i \in 1..w - n + 1 : Shortened(v)[i] = v[n + i - 1]
             /\ \/ v[n] # "x" /\ \A i \in 1..n - 1 : v[i] = "0"
                \/ \A i \in 1..n : v[i] = "x"
  BY ShortenedIs
<1> DEFINE l == IF m < n THEN m ELSE n
<1>3. l \in 1..w /\ l =< m /\ l =< n /\ (l = m \/ l = n)
  OBVIOUS
<1> HIDE DEF l
<1>4. /\ Old(u, v) \in Seq(Digits) /\ Len(Old(u, v)) = w - l + 1
      /\ \A i \in 1..w - l + 1 :
           Old(u, v)[i] = IF i =< m - l THEN "0" ELSE Shortened(u)[i - (m - l)]
  <2> DEFINE gap == IF Len(Shortened(v)) > Len(Shortened(u))
                    THEN Len(Shortened(v)) - Len(Shortened(u)) ELSE 0
  <2>1. gap = m - l /\ gap + Len(Shortened(u)) = w - l + 1 /\ Len(Shortened(v)) \in Nat
    BY <1>1, <1>2 DEF l
  <2>2. /\ Old(u, v) \in Seq(Digits) /\ Len(Old(u, v)) = gap + Len(Shortened(u))
        /\ \A i \in 1..gap + Len(Shortened(u)) :
             Old(u, v)[i] = IF i =< gap THEN "0" ELSE Shortened(u)[i - gap]
    BY <1>1, <2>1, FilledIs DEF Old
  <2> HIDE DEF gap
  <2> QED
    BY <2>1, <2>2
<1>5. /\ Old(v, u) \in Seq(Digits) /\ Len(Old(v, u)) = w - l + 1
      /\ \A i \in 1..w - l + 1 :
           Old(v, u)[i] = IF i =< n - l THEN "0" ELSE Shortened(v)[i - (n - l)]
  <2> DEFINE gap == IF Len(Shortened(u)) > Len(Shortened(v))
                    THEN Len(Shortened(u)) - Len(Shortened(v)) ELSE 0
  <2>1. gap = n - l /\ gap + Len(Shortened(v)) = w - l + 1 /\ Len(Shortened(u)) \in Nat
    BY <1>1, <1>2 DEF l
  <2>2. /\ Old(v, u) \in Seq(Digits) /\ Len(Old(v, u)) = gap + Len(Shortened(v))
        /\ \A i \in 1..gap + Len(Shortened(v)) :
             Old(v, u)[i] = IF i =< gap THEN "0" ELSE Shortened(v)[i - gap]
    BY <1>2, <2>1, FilledIs DEF Old
  <2> HIDE DEF gap
  <2> QED
    BY <2>1, <2>2
<1>6. ASSUME Known(u), Known(v)
      PROVE  /\ \A i \in 1..w - l + 1 : Old(u, v)[i] = u[l - 1 + i] /\ Old(v, u)[i] = v[l - 1 + i]
             /\ \A i \in 1..l - 1 : u[i] = v[i]
  <2>1. \A i \in 1..w : u[i] # "x" /\ v[i] # "x"
    BY <1>6 DEF Known, Values
  <2>2. (\A i \in 1..m - 1 : u[i] = "0") /\ (\A i \in 1..n - 1 : v[i] = "0")
    BY <1>1, <1>2, <2>1
  <2>3. ASSUME NEW i \in 1..w - l + 1
        PROVE  Old(u, v)[i] = u[l - 1 + i]
    <3>1. CASE i =< m - l
      <4>1. l - 1 + i \in 1..m - 1
        BY <1>3, <3>1
      <4> QED
        BY <1>4, <2>2, <3>1, <4>1
    <3>2. CASE i > m - l
      <4>1. i - (m - l) \in 1..w - m + 1 /\ m + (i - (m - l)) - 1 = l - 1 + i
        BY <1>3, <3>2
      <4>2. Shortened(u)[i - (m - l)] = u[l - 1 + i]
        BY <1>1, <4>1
      <4> QED
        BY <1>3, <1>4, <3>2, <4>2
    <3> QED
      BY <1>3, <3>1, <3>2
  <2>4. ASSUME NEW i \in 1..w - l + 1
        PROVE  Old(v, u)[i] = v[l - 1 + i]
    <3>1. CASE i =< n - l
      <4>1. l - 1 + i \in 1..n - 1
        BY <1>3, <3>1
      <4> QED
        BY <1>5, <2>2, <3>1, <4>1
    <3>2. CASE i > n - l
      <4>1. i - (n - l) \in 1..w - n + 1 /\ n + (i - (n - l)) - 1 = l - 1 + i
        BY <1>3, <3>2
      <4>2. Shortened(v)[i - (n - l)] = v[l - 1 + i]
        BY <1>2, <4>1
      <4> QED
        BY <1>3, <1>5, <3>2, <4>2
    <3> QED
      BY <1>3, <3>1, <3>2
  <2>5. \A i \in 1..l - 1 : i \in 1..m - 1 /\ i \in 1..n - 1
    BY <1>3
  <2> QED
    BY <2>2, <2>3, <2>4, <2>5
<1>7. Len(Old(u, v)) \in 1..w /\ w - Len(Old(u, v)) = l - 1
  BY <1>3, <1>4
<1> QED
  BY <1>4, <1>5, <1>6, <1>7

\* Between known values the flips of the net, though digits were left out.
LEMMA KnownToggles ==
    ASSUME NEW w \in Nat \ {0}, NEW u \in Values(w), NEW v \in Values(w), Known(u), Known(v)
    PROVE  Toggled(Shortened(u), Shortened(v)) = Flips(u, v) /\ Flips(u, v) \in Nat
<1> DEFINE o == Old(u, v)
           n == Old(v, u)
           d == w - Len(o)
           D == Differ(o, n)
           E == Differ(u, v)
<1>1. u \in Seq(Digits) /\ v \in Seq(Digits) /\ DOMAIN u = 1..w /\ DOMAIN v = 1..w
  BY DEF Values, Digits
<1>2. /\ o \in Seq(Digits) /\ n \in Seq(Digits) /\ Len(o) = Len(n) /\ Len(o) \in 1..w
      /\ \A i \in 1..Len(o) : o[i] = u[d + i] /\ n[i] = v[d + i]
      /\ \A i \in 1..d : u[i] = v[i]
  BY OldIs
<1>3. Flips(o, n) = Cardinality(D) /\ Flips(u, v) = Cardinality(E) /\ Flips(u, v) \in Nat
      /\ (Flips(o, n) = 0 <=> D = {}) /\ IsFiniteSet(D)
  BY <1>1, <1>2, FlipsAre
<1>4. Cardinality(D) = Cardinality(E)
  <2> DEFINE f == [i \in D |-> d + i]
  <2>1. D = {i \in 1..Len(o) : o[i] # n[i]} /\ E = {i \in 1..w : u[i] # v[i]}
    BY <1>1, <1>2 DEF Differ
  <2>2. f \in [D -> E] /\ \A i, j \in D : f[i] = f[j] => i = j
    BY <1>2, <2>1
  <2>3. \A t \in E : \E i \in D : f[i] = t
    <3> SUFFICES ASSUME NEW t \in E PROVE \E i \in D : f[i] = t
      OBVIOUS
    <3>1. t \in 1..w /\ t \notin 1..d /\ u[t] # v[t]
      BY <1>2, <2>1
    <3>2. t - d \in 1..Len(o) /\ d + (t - d) = t
      BY <1>2, <3>1
    <3>3. t - d \in D
      BY <1>2, <2>1, <3>1, <3>2
    <3> QED
      BY <3>2, <3>3
  <2> HIDE DEF f, D, E
  <2>4. f \in Bijection(D, E)
    <3>1. f \in Injection(D, E)
      BY <2>2 DEF Injection, IsInjective
    <3>2. f \in Surjection(D, E)
      BY <2>2, <2>3 DEF Surjection
    <3> QED
      BY <3>1, <3>2 DEF Bijection
  <2>5. ExistsBijection(D, E)
    BY <2>4 DEF ExistsBijection
  <2> QED
    BY <1>3, <2>5, FS_Bijection
<1>5. Toggled(Shortened(u), Shortened(v)) =
        IF Shortened(u) = Shortened(v) THEN 0 ELSE IF Flips(o, n) = 0 THEN 1 ELSE Flips(o, n)
  BY DEF Toggled, Old
<1>6. CASE Shortened(u) = Shortened(v)
  <2>1. u = v
    BY <1>6, ShortenedTells
  <2>2. E = {}
    BY <2>1 DEF Differ
  <2>3. Cardinality(E) = 0
    BY <2>2, FS_EmptySet
  <2> QED
    BY <1>3, <1>5, <1>6, <2>3
<1>7. CASE Shortened(u) # Shortened(v)
  <2>1. PICK i \in 1..w : u[i] # v[i]
    BY <1>1, <1>7
  <2>2. Flips(u, v) # 0
    <3>1. E # {}
      BY <1>1, <2>1 DEF Differ
    <3> QED
      BY <1>1, <3>1, FlipsAre
  <2>3. Flips(o, n) = Flips(u, v)
    BY <1>3, <1>4
  <2> QED
    BY <1>3, <1>5, <1>7, <2>2, <2>3
<1> QED
  BY <1>6, <1>7

\* Any other change counts, and at most once a digit.
LEMMA UnknownToggles ==
    ASSUME NEW w \in Nat \ {0}, NEW u \in Values(w), NEW v \in Values(w)
    PROVE  /\ u = v => Toggled(Shortened(u), Shortened(v)) = 0
           /\ u # v => Toggled(Shortened(u), Shortened(v)) \in 1..w
<1>1. /\ Old(u, v) \in Seq(Digits) /\ Old(v, u) \in Seq(Digits) /\ Len(Old(u, v)) \in 1..w
  BY OldIs
<1>2. Flips(Old(u, v), Old(v, u)) \in Nat /\ Flips(Old(u, v), Old(v, u)) =< Len(Old(u, v))
  BY <1>1, FlipsAre
<1>3. u # v => Shortened(u) # Shortened(v)
  BY ShortenedTells
<1> QED
  BY <1>1, <1>2, <1>3 DEF Toggled, Old

-----------------------------------------------------------------------------
(* The invariant, of the packets whose replays use parse_vcd.              *)

\* The fields of the reader of parse_vcd after one, or two, of them changed.
Fields(s, d, i, v, t) ==
    [scopes |-> s, in_defs |-> d, id_to_scope |-> i, values |-> v, toggles |-> t]

Declared == {d.ident : d \in decls}

\* Each path is declared once.
DeclsOK ==
    /\ IsFiniteSet(decls)
    /\ \A d \in decls : d = [path |-> d.path, ident |-> d.ident] /\ d.ident \in Idents
    /\ \A d, e \in decls : d.path = e.path => d = e

\* The reader is in the scope the dump is in, and knows each net under one of its names.
ReaderOK ==
    /\ reader = Fields(stack, reader.in_defs, reader.id_to_scope, reader.values, reader.toggles)
    /\ reader.in_defs \in BOOLEAN
    /\ reader.id_to_scope = [i \in Declared |-> reader.id_to_scope[i]]
    /\ \A i \in Declared : [path |-> reader.id_to_scope[i], ident |-> i] \in decls

\* Only what is declared is dumped.
DumpOK ==
    /\ nets = [i \in Idents |-> nets[i]]
    /\ \A i \in Idents : nets[i] \in [bits : Values(Width[i]) \cup {None}, flips : Nat, blurs : Nat]
    /\ reader.in_defs => \A i \in Idents : nets[i] = [bits |-> None, flips |-> 0, blurs |-> 0]
    /\ \A i \in Idents : nets[i].bits # None => i \in Declared

\* The reader remembers a net as it was written.
NetsOK ==
    /\ DumpOK
    /\ DOMAIN reader.values = {i \in Idents : nets[i].bits # None}
    /\ reader.values = [i \in DOMAIN reader.values |-> Shortened(nets[i].bits)]

\* The counts of the paths are those of the nets.
Bounds(n, i) == n \in nets[i].flips + nets[i].blurs .. nets[i].flips + Width[i] * nets[i].blurs
CountsOK ==
    ~reader.in_defs =>
        /\ DOMAIN reader.toggles = {reader.id_to_scope[i] : i \in Declared}
        /\ reader.toggles = [p \in DOMAIN reader.toggles |-> reader.toggles[p]]
        /\ \A i \in Declared : Bounds(reader.toggles[reader.id_to_scope[i]], i)

VInv ==
    /\ packet \in AluPackets \cup RfPackets \cup ParsePackets
    /\ packet \in ParsePackets => DeclsOK /\ ReaderOK /\ NetsOK /\ CountsOK

LEMMA Widths == \A i \in Idents : Width[i] \in Nat \ {0} /\ None \notin Values(Width[i])
BY DumpAssumption DEF DumpAssumption, Values

LEMMA PacketsAre ==
    /\ packet \in ParsePackets => packet \notin AluPackets \cup RfPackets
    /\ ParsePackets = {"l71", "l244", "demorgan", "plus_next"}
BY DEF AluPackets, RfPackets, ParsePackets

LEMMA ReadsAlike ==
    ASSUME NEW line, Read(line), packet \in ParsePackets
    PROVE  reader' = ParseVcd(reader, line) /\ packet' = packet
BY DEF Read, ParsePackets, l71_parse_vcd, l244_parse_vcd, demorgan_parse_vcd, plus_next_parse_vcd

\* What the step of a header line leaves of the invariant.
LEMMA Parts ==
    ASSUME VInv, packet \in ParsePackets
    PROVE  DeclsOK /\ ReaderOK /\ NetsOK /\ CountsOK
BY DEF VInv

LEMMA ReaderIs ==
    ASSUME VInv, packet \in ParsePackets
    PROVE  /\ reader = Fields(stack, reader.in_defs, reader.id_to_scope, reader.values,
                              reader.toggles)
           /\ reader.scopes = stack /\ DOMAIN reader.id_to_scope = Declared
           /\ \A x, y : /\ [reader EXCEPT !.scopes = x] = Fields(x, reader.in_defs,
                               reader.id_to_scope, reader.values, reader.toggles)
                        /\ [reader EXCEPT !.id_to_scope = x] = Fields(stack, reader.in_defs, x,
                               reader.values, reader.toggles)
                        /\ [reader EXCEPT !.in_defs = x, !.toggles = y] = Fields(stack, x,
                               reader.id_to_scope, reader.values, y)
                        /\ [reader EXCEPT !.values = x, !.toggles = y] = Fields(stack,
                               reader.in_defs, reader.id_to_scope, x, y)
<1>1. DeclsOK /\ ReaderOK /\ NetsOK /\ CountsOK
  BY Parts
<1>2. reader = Fields(stack, reader.in_defs, reader.id_to_scope, reader.values, reader.toggles)
  BY <1>1 DEF ReaderOK
<1>3. reader.scopes = stack
  BY <1>2 DEF Fields
<1>4. DOMAIN reader.id_to_scope = Declared
  BY <1>1 DEF ReaderOK
<1>5. ASSUME NEW x, NEW y
      PROVE  /\ [reader EXCEPT !.scopes = x] = Fields(x, reader.in_defs,
                    reader.id_to_scope, reader.values, reader.toggles)
             /\ [reader EXCEPT !.id_to_scope = x] = Fields(stack, reader.in_defs, x,
                    reader.values, reader.toggles)
             /\ [reader EXCEPT !.in_defs = x, !.toggles = y] = Fields(stack, x,
                    reader.id_to_scope, reader.values, y)
             /\ [reader EXCEPT !.values = x, !.toggles = y] = Fields(stack,
                    reader.in_defs, reader.id_to_scope, x, y)
  <2>1. PICK s, d, i, v, t : /\ reader = Fields(s, d, i, v, t) /\ s = stack
                             /\ d = reader.in_defs /\ i = reader.id_to_scope
                             /\ v = reader.values /\ t = reader.toggles
    BY <1>2
  <2>2. [reader EXCEPT !.scopes = x] = Fields(x, d, i, v, t)
    BY <2>1 DEF Fields
  <2>3. [reader EXCEPT !.id_to_scope = x] = Fields(s, d, x, v, t)
    BY <2>1 DEF Fields
  <2> DEFINE p == [reader EXCEPT !.in_defs = x]
             q == [reader EXCEPT !.values = x]
  <2>4. p = Fields(s, x, i, v, t)
    BY <2>1 DEF Fields
  <2>5. q = Fields(s, d, i, x, t)
    BY <2>1 DEF Fields
  <2>6. /\ [reader EXCEPT !.in_defs = x, !.toggles = y] = [p EXCEPT !.toggles = y]
        /\ [reader EXCEPT !.values = x, !.toggles = y] = [q EXCEPT !.toggles = y]
    OBVIOUS
  <2> HIDE DEF p, q
  <2>7. [p EXCEPT !.toggles = y] = Fields(s, x, i, v, y)
    BY <2>4 DEF Fields
  <2>8. [q EXCEPT !.toggles = y] = Fields(s, d, i, x, y)
    BY <2>5 DEF Fields
  <2> QED
    BY <2>1, <2>2, <2>3, <2>6, <2>7, <2>8
<1> QED
  BY <1>1, <1>2, <1>3, <1>4, <1>5

\* Nothing but the scopes changes.
LEMMA ScopesKeep ==
    ASSUME VInv, packet \in ParsePackets, reader.in_defs = TRUE, NEW x,
           stack' = x, reader' = [reader EXCEPT !.scopes = x], UNCHANGED <<decls, nets>>
    PROVE  DeclsOK' /\ ReaderOK' /\ NetsOK' /\ CountsOK'
<1>1. reader' = Fields(x, reader.in_defs, reader.id_to_scope, reader.values, reader.toggles)
  BY ReaderIs
<1>2. /\ reader'.in_defs = TRUE /\ reader'.id_to_scope = reader.id_to_scope
      /\ reader'.values = reader.values /\ reader'.toggles = reader.toggles
  BY <1>1 DEF Fields
<1>3. Declared' = Declared
  BY DEF Declared
<1>4. reader' = Fields(stack, reader.in_defs, reader.id_to_scope, reader.values, reader.toggles)'
  BY <1>1, <1>2
<1>5. DeclsOK'
  BY Parts DEF DeclsOK
<1>6. ReaderOK'
  BY <1>2, <1>3, <1>4, Parts DEF ReaderOK
<1>7. NetsOK'
  BY <1>2, <1>3, Parts DEF NetsOK, DumpOK
<1> QED
  BY <1>2, <1>5, <1>6, <1>7 DEF CountsOK

LEMMA VInvInit == Init => VInv
<1> SUFFICES ASSUME Init PROVE VInv
  OBVIOUS
<1>1. packet \in AluPackets \cup RfPackets \cup ParsePackets
  BY DEF Init
<1> SUFFICES ASSUME packet \in ParsePackets PROVE DeclsOK /\ ReaderOK /\ NetsOK /\ CountsOK
  BY <1>1 DEF VInv
<1>2. reader = Fields(<<>>, TRUE, <<>>, <<>>, <<>>) /\ decls = {} /\ stack = <<>>
  BY DEF Init, ParseStart, Fields
<1>3. DeclsOK
  BY <1>2, FS_EmptySet DEF DeclsOK
<1>4. /\ reader.in_defs = TRUE /\ reader.id_to_scope = <<>> /\ reader.values = <<>>
      /\ reader.toggles = <<>>
  BY <1>2 DEF Fields
<1>5. ReaderOK
  <2>1. Declared = {}
    BY <1>2 DEF Declared
  <2>2. reader = Fields(stack, reader.in_defs, reader.id_to_scope, reader.values, reader.toggles)
    BY <1>2, <1>4
  <2>3. DOMAIN reader.id_to_scope = {}
    BY <1>4
  <2>4. reader.id_to_scope = [i \in Declared |-> reader.id_to_scope[i]]
    BY <1>4, <2>1, <2>3
  <2>5. reader.in_defs \in BOOLEAN
    BY <1>4
  <2> HIDE DEF Declared
  <2> QED
    BY <2>1, <2>2, <2>4, <2>5 DEF ReaderOK
<1>6. NetsOK
  <2>1. \A i \in Idents : nets[i] = [bits |-> None, flips |-> 0, blurs |-> 0]
    BY DEF Init
  <2>2. nets = [i \in Idents |-> nets[i]]
    BY DEF Init
  <2>3. DOMAIN reader.values = {} /\ {i \in Idents : nets[i].bits # None} = {}
    BY <1>4, <2>1
  <2>4. reader.values = [i \in DOMAIN reader.values |-> Shortened(nets[i].bits)]
    BY <1>4, <2>3
  <2> QED
    BY <1>4, <2>1, <2>2, <2>3, <2>4 DEF NetsOK, DumpOK
<1> QED
  BY <1>3, <1>4, <1>5, <1>6 DEF CountsOK

LEMMA OpenScopeKeeps ==
    ASSUME VInv, packet \in ParsePackets, OpenScope
    PROVE  DeclsOK' /\ ReaderOK' /\ NetsOK' /\ CountsOK'
<1>1. PICK s : stack' = Append(stack, s) /\ Read([kind |-> "scope", name |-> s])
  BY DEF OpenScope
<1> DEFINE line == [kind |-> "scope", name |-> s]
<1>2. reader' = ParseVcd(reader, line)
  BY <1>1, ReadsAlike
<1>3. reader.in_defs = TRUE
  BY Parts DEF OpenScope, Header, ReaderOK
<1>4. reader' = [reader EXCEPT !.scopes = Append(@, s)]
  BY <1>2, <1>3 DEF ParseVcd, ParseHeader
<1>5. reader' = [reader EXCEPT !.scopes = Append(stack, s)]
  BY <1>4, ReaderIs
<1>6. decls' = decls /\ nets' = nets
  BY DEF OpenScope
<1> QED
  BY <1>1, <1>3, <1>5, <1>6, ScopesKeep

LEMMA CloseScopeKeeps ==
    ASSUME VInv, packet \in ParsePackets, CloseScope
    PROVE  DeclsOK' /\ ReaderOK' /\ NetsOK' /\ CountsOK'
<1> DEFINE line == [kind |-> "upscope"]
<1>1. stack' = Front(stack) /\ stack # <<>> /\ Read(line)
  BY DEF CloseScope
<1>2. reader' = ParseVcd(reader, line)
  BY <1>1, ReadsAlike
<1>3. reader.in_defs = TRUE
  BY Parts DEF CloseScope, Header, ReaderOK
<1>4. reader' = [reader EXCEPT !.scopes = IF @ = <<>> THEN @ ELSE Front(@)]
  BY <1>2, <1>3 DEF ParseVcd, ParseHeader
<1>5. reader' = [reader EXCEPT !.scopes = Front(stack)]
  BY <1>1, <1>4, ReaderIs
<1>6. decls' = decls /\ nets' = nets
  BY DEF CloseScope
<1> QED
  BY <1>1, <1>3, <1>5, <1>6, ScopesKeep

LEMMA DeclareVarKeeps ==
    ASSUME VInv, packet \in ParsePackets, DeclareVar
    PROVE  DeclsOK' /\ ReaderOK' /\ NetsOK' /\ CountsOK'
<1>1. PICK i \in Idents, n \in Names :
        /\ \A d \in decls : d.path # Append(stack, n)
        /\ decls' = decls \cup {[path |-> Append(stack, n), ident |-> i]}
        /\ Read([kind |-> "var", ident |-> i, width |-> Width[i], name |-> n])
  BY DEF DeclareVar
<1> DEFINE line == [kind |-> "var", ident |-> i, width |-> Width[i], name |-> n]
           path == Append(stack, n)
           d0   == [path |-> path, ident |-> i]
           names == With(reader.id_to_scope, i, path)
<1>2. reader' = ParseVcd(reader, line)
  BY <1>1, ReadsAlike
<1>3. reader.in_defs = TRUE
  BY Parts DEF DeclareVar, Header, ReaderOK
<1>4. reader' = [reader EXCEPT !.id_to_scope = With(@, i, Append(reader.scopes, n))]
  BY <1>2, <1>3 DEF ParseVcd, ParseHeader
<1>5. reader' = [reader EXCEPT !.id_to_scope = names]
  BY <1>4, ReaderIs
<1>6. reader' = Fields(stack, reader.in_defs, names, reader.values, reader.toggles)
  <2> HIDE DEF names
  <2> QED
    BY <1>5, ReaderIs
<1>7. /\ reader'.in_defs = TRUE /\ reader'.id_to_scope = names
      /\ reader'.values = reader.values /\ reader'.toggles = reader.toggles
  <2> HIDE DEF names
  <2> QED
    BY <1>3, <1>6 DEF Fields
<1>8. nets' = nets /\ stack' = stack
  BY DEF DeclareVar
<1>9. decls' = decls \cup {d0} /\ d0.ident = i /\ d0.path = path /\ \A d \in decls : d.path # path
  BY <1>1
<1> HIDE DEF d0, path
<1>10. Declared' = Declared \cup {i}
  BY <1>9 DEF Declared
<1>11. DeclsOK'
  <2>1. IsFiniteSet(decls')
    BY <1>9, Parts, FS_AddElement DEF DeclsOK
  <2>2. d0 = [path |-> d0.path, ident |-> d0.ident] /\ d0.ident \in Idents
    BY <1>9 DEF d0
  <2> QED
    BY <1>9, <2>1, <2>2, Parts DEF DeclsOK
<1>12. ReaderOK'
  <2>1. reader'.id_to_scope = [j \in Declared' |-> IF j = i THEN path ELSE reader.id_to_scope[j]]
    BY <1>7, <1>10, ReaderIs DEF With
  <2>2. \A j \in Declared' : [path |-> reader'.id_to_scope[j], ident |-> j] \in decls'
    <3>1. \A j \in Declared : [path |-> reader.id_to_scope[j], ident |-> j] \in decls
      BY Parts DEF ReaderOK
    <3>2. [path |-> path, ident |-> i] \in decls'
      BY <1>9 DEF d0
    <3> QED
      BY <1>9, <1>10, <2>1, <3>1, <3>2
  <2>3. reader' = Fields(stack, reader.in_defs, reader.id_to_scope, reader.values, reader.toggles)'
    BY <1>3, <1>6, <1>7, <1>8
  <2>4. reader'.id_to_scope = [j \in Declared' |-> reader'.id_to_scope[j]]
    BY <2>1
  <2> QED
    BY <1>7, <2>2, <2>3, <2>4 DEF ReaderOK
<1>13. NetsOK'
  BY <1>7, <1>8, <1>3, <1>10, Parts DEF NetsOK, DumpOK
<1> QED
  BY <1>7, <1>11, <1>12, <1>13 DEF CountsOK

LEMMA EndDefinitionsKeeps ==
    ASSUME VInv, packet \in ParsePackets, EndDefinitions
    PROVE  DeclsOK' /\ ReaderOK' /\ NetsOK' /\ CountsOK'
<1> DEFINE line == [kind |-> "enddefinitions"]
           zero == [p \in {reader.id_to_scope[i] : i \in DOMAIN reader.id_to_scope} |-> 0]
<1>1. Read(line) /\ decls' = decls /\ nets' = nets /\ stack' = stack /\ Declared' = Declared
  BY DEF EndDefinitions, dump, Declared
<1>2. reader' = ParseVcd(reader, line)
  BY <1>1, ReadsAlike
<1>3. reader.in_defs = TRUE
  BY Parts DEF EndDefinitions, Header, ReaderOK
<1>4. reader' = [reader EXCEPT !.in_defs = FALSE, !.toggles = zero]
  BY <1>2, <1>3 DEF ParseVcd, ParseHeader
<1>5. /\ DOMAIN zero = {reader.id_to_scope[i] : i \in Declared}
      /\ zero = [p \in DOMAIN zero |-> zero[p]]
      /\ \A i \in Declared : zero[reader.id_to_scope[i]] = 0
  BY ReaderIs
<1> HIDE DEF zero
<1>6. reader' = Fields(stack, FALSE, reader.id_to_scope, reader.values, zero)
  BY <1>4, ReaderIs
<1>7. /\ reader'.in_defs = FALSE /\ reader'.id_to_scope = reader.id_to_scope
      /\ reader'.values = reader.values /\ reader'.toggles = zero
  BY <1>6 DEF Fields
<1>8. DeclsOK'
  BY <1>1, Parts DEF DeclsOK
<1>9. ReaderOK'
  <2>1. reader' = Fields(stack, reader.in_defs, reader.id_to_scope, reader.values, reader.toggles)'
    BY <1>1, <1>6, <1>7
  <2> QED
    BY <1>1, <1>7, <2>1, Parts DEF ReaderOK
<1>10. NetsOK'
  BY <1>1, <1>7, Parts DEF NetsOK, DumpOK
<1>11. CountsOK'
  <2>1. \A i \in Declared : i \in Idents
    BY Parts DEF DeclsOK, Declared
  <2>2. \A i \in Declared : nets[i].flips = 0 /\ nets[i].blurs = 0 /\ Width[i] \in Nat
    BY <1>3, <2>1, Parts, Widths DEF NetsOK, DumpOK
  <2>3. \A i \in Declared : (Bounds(reader.toggles[reader.id_to_scope[i]], i))'
    BY <1>1, <1>5, <1>7, <2>2 DEF Bounds
  <2> QED
    BY <1>1, <1>5, <1>7, <2>3 DEF CountsOK
<1> QED
  BY <1>8, <1>9, <1>10, <1>11

\* What a change adds to the count keeps it between the bounds.
LEMMA CountGrows ==
    ASSUME NEW n \in Nat, NEW f \in Nat, NEW b \in Nat, NEW w \in Nat \ {0}, NEW g \in Nat,
           NEW c, n \in f + b .. f + w * b
    PROVE  /\ n + g \in (f + g) + b .. (f + g) + w * b
           /\ c \in 1..w => n + c \in f + (b + 1) .. f + w * (b + 1)
<1>1. w * b \in Nat /\ w * (b + 1) = w * b + w
  OBVIOUS
<1> QED
  BY <1>1

\* What a change of a net from old to v adds to the count, to the flips and to the
\* unknown changes.
Counted(old, v) == IF old # None THEN Toggled(Shortened(old), Shortened(v)) ELSE 0
Flipped(old, v) == IF old # None /\ Known(old) /\ Known(v) THEN Flips(old, v) ELSE 0
Blurred(old, v) ==
    IF old # None /\ old # v /\ ~(old # None /\ Known(old) /\ Known(v)) THEN 1 ELSE 0

\* The count of a net after a change of it.
LEMMA NetGrows ==
    ASSUME NEW w \in Nat \ {0}, NEW old \in Values(w) \cup {None}, NEW v \in Values(w),
           None \notin Values(w), NEW n \in Nat, NEW f \in Nat, NEW b \in Nat,
           n \in f + b .. f + w * b
    PROVE  /\ n + Counted(old, v) \in (f + Flipped(old, v)) + (b + Blurred(old, v)) ..
                                     (f + Flipped(old, v)) + w * (b + Blurred(old, v))
           /\ f + Flipped(old, v) \in Nat /\ b + Blurred(old, v) \in Nat
<1> DEFINE c == Counted(old, v)
           g == f + Flipped(old, v)
           d == b + Blurred(old, v)
<1> SUFFICES n + c \in g + d .. g + w * d /\ g \in Nat /\ d \in Nat
  OBVIOUS
<1> USE DEF Counted, Flipped, Blurred
<1>1. CASE old = None
  <2>1. c = 0 /\ g = f /\ d = b
    BY <1>1
  <2> QED
    BY <2>1
<1>2. CASE old # None /\ Known(old) /\ Known(v)
  <2>1. c = Flips(old, v) /\ Flips(old, v) \in Nat
    BY <1>2, KnownToggles
  <2>2. g = f + c /\ d = b
    BY <1>2, <2>1
  <2> QED
    BY <2>1, <2>2, CountGrows
<1>3. CASE old # None /\ ~(Known(old) /\ Known(v)) /\ old = v
  <2>1. c = 0
    BY <1>3, UnknownToggles
  <2>2. g = f /\ d = b
    BY <1>3
  <2> QED
    BY <2>1, <2>2
<1>4. CASE old # None /\ ~(Known(old) /\ Known(v)) /\ old # v
  <2>1. c \in 1..w
    BY <1>4, UnknownToggles
  <2>2. g = f /\ d = b + 1
    BY <1>4
  <2> QED
    BY <2>1, <2>2, CountGrows
<1> QED
  BY <1>1, <1>2, <1>3, <1>4

LEMMA DumpChangeKeeps ==
    ASSUME VInv, packet \in ParsePackets, DumpChange
    PROVE  DeclsOK' /\ ReaderOK' /\ NetsOK' /\ CountsOK'
<1>1. PICK i \in Declared : \E v \in Values(Width[i]) :
        LET old == nets[i].bits
            known == old # None /\ Known(old) /\ Known(v)
            blur == old # None /\ old # v /\ ~known
        IN  /\ nets' = [nets EXCEPT ![i] =
                   [bits |-> v,
                    flips |-> @.flips + (IF known THEN Flips(old, v) ELSE 0),
                    blurs |-> @.blurs + (IF blur THEN 1 ELSE 0)]]
            /\ Read([kind |-> "change", ident |-> i, value |-> Shortened(v)])
  BY DEF DumpChange, Declared
<1>17. PICK v \in Values(Width[i]) :
        LET old == nets[i].bits
            known == old # None /\ Known(old) /\ Known(v)
            blur == old # None /\ old # v /\ ~known
        IN  /\ nets' = [nets EXCEPT ![i] =
                   [bits |-> v,
                    flips |-> @.flips + (IF known THEN Flips(old, v) ELSE 0),
                    blurs |-> @.blurs + (IF blur THEN 1 ELSE 0)]]
            /\ Read([kind |-> "change", ident |-> i, value |-> Shortened(v)])
  BY <1>1
<1>2. reader.in_defs = FALSE /\ decls' = decls /\ stack' = stack /\ Declared' = Declared
  BY Parts DEF DumpChange, Header, ReaderOK, Declared
<1> DEFINE line == [kind |-> "change", ident |-> i, value |-> Shortened(v)]
           old == nets[i].bits
           known == old # None /\ Known(old) /\ Known(v)
           blur == old # None /\ old # v /\ ~known
           g == nets[i].flips + (IF known THEN Flips(old, v) ELSE 0)
           b == nets[i].blurs + (IF blur THEN 1 ELSE 0)
           name == reader.id_to_scope[i]
           c == IF i \in DOMAIN reader.values
                THEN Toggled(reader.values[i], Shortened(v)) ELSE 0
           values == With(reader.values, i, Shortened(v))
           toggles == [reader.toggles EXCEPT ![name] = @ + c]
<1>3. nets' = [nets EXCEPT ![i] = [bits |-> v, flips |-> g, blurs |-> b]]
  BY <1>17
<1>4. i \in Idents /\ i \in DOMAIN reader.id_to_scope
  BY Parts, ReaderIs DEF DeclsOK, Declared
<1>5. reader' = [reader EXCEPT !.values = values, !.toggles = toggles]
  <2>1. Read(line)
    BY <1>17
  <2>2. reader' = ParseVcd(reader, line)
    BY <2>1, ReadsAlike
  <2>3. reader' = ParseChange(reader, line)
    BY <1>2, <2>2 DEF ParseVcd
  <2>4. line.ident = i /\ line.value = Shortened(v)
    OBVIOUS
  <2> HIDE DEF line
  <2> QED
    BY <1>4, <2>3, <2>4 DEF ParseChange
<1> HIDE DEF toggles, values
<1>6. reader' = Fields(stack, reader.in_defs, reader.id_to_scope, values, toggles)
  BY <1>5, ReaderIs
<1>7. /\ reader'.in_defs = FALSE /\ reader'.id_to_scope = reader.id_to_scope
      /\ reader'.values = values /\ reader'.toggles = toggles
  BY <1>2, <1>6 DEF Fields
<1>8. /\ nets[i] \in [bits : Values(Width[i]) \cup {None}, flips : Nat, blurs : Nat]
      /\ Width[i] \in Nat \ {0} /\ None \notin Values(Width[i])
  BY <1>4, Parts, Widths DEF NetsOK, DumpOK
<1>9. c = Counted(old, v)
  <2>1. /\ i \in DOMAIN reader.values <=> old # None
        /\ i \in DOMAIN reader.values => reader.values[i] = Shortened(old)
    BY <1>4, Parts DEF NetsOK, DumpOK
  <2> QED
    BY <2>1 DEF Counted
<1>10. Bounds(reader.toggles[name], i)
  BY <1>2, Parts DEF CountsOK
<1>11. /\ reader.toggles[name] + c \in g + b .. g + Width[i] * b
       /\ g \in Nat /\ b \in Nat
  <2>1. reader.toggles[name] \in nets[i].flips + nets[i].blurs ..
                                  nets[i].flips + Width[i] * nets[i].blurs
    BY <1>10 DEF Bounds
  <2>2. reader.toggles[name] \in Nat /\ nets[i].flips \in Nat /\ nets[i].blurs \in Nat
        /\ old \in Values(Width[i]) \cup {None}
    BY <1>8, <2>1
  <2>3. g = nets[i].flips + Flipped(old, v) /\ b = nets[i].blurs + Blurred(old, v)
    BY DEF Flipped, Blurred
  <2>4. PICK n, f, k, w : /\ n = reader.toggles[name] /\ f = nets[i].flips
                          /\ k = nets[i].blurs /\ w = Width[i]
    OBVIOUS
  <2> HIDE DEF c, g, b, old
  <2>5. /\ n \in Nat /\ f \in Nat /\ k \in Nat /\ n \in f + k .. f + w * k
        /\ w \in Nat \ {0} /\ old \in Values(w) \cup {None} /\ v \in Values(w)
        /\ None \notin Values(w)
    BY <1>8, <2>1, <2>2, <2>4
  <2>6. /\ n + Counted(old, v) \in (f + Flipped(old, v)) + (k + Blurred(old, v)) ..
                                    (f + Flipped(old, v)) + w * (k + Blurred(old, v))
        /\ f + Flipped(old, v) \in Nat /\ k + Blurred(old, v) \in Nat
    BY <2>5, NetGrows
  <2> QED
    BY <1>9, <2>3, <2>4, <2>6
<1> HIDE DEF c, g, b, old
<1>12. /\ nets'[i] = [bits |-> v, flips |-> g, blurs |-> b]
       /\ \A j \in Idents : j # i => nets'[j] = nets[j]
       /\ nets' = [j \in Idents |-> nets'[j]]
  BY <1>3, <1>4, Parts DEF NetsOK, DumpOK
<1>13. DeclsOK'
  BY <1>2, Parts DEF DeclsOK
<1>14. ReaderOK'
  <2>1. reader' = Fields(stack, reader.in_defs, reader.id_to_scope, reader.values, reader.toggles)'
    BY <1>2, <1>6, <1>7
  <2> QED
    BY <1>2, <1>7, <2>1, Parts DEF ReaderOK
<1>15. NetsOK'
  <2>1. \A j \in Idents : nets'[j] \in [bits : Values(Width[j]) \cup {None}, flips : Nat, blurs : Nat]
    BY <1>11, <1>12, Parts DEF NetsOK, DumpOK
  <2>2. \A j \in Idents : nets'[j].bits # None => j \in Declared
    BY <1>12, Parts DEF NetsOK, DumpOK
  <2>3. nets'[i].bits = v /\ v # None
    BY <1>8, <1>12
  <2>4. DOMAIN values = {j \in Idents : nets'[j].bits # None}
    BY <1>4, <1>12, <2>3, Parts DEF NetsOK, DumpOK, values, With
  <2>5. \A j \in DOMAIN values : values[j] = Shortened(nets'[j].bits)
    BY <1>4, <1>12, <2>3, Parts DEF NetsOK, DumpOK, values, With
  <2>6. values = [j \in DOMAIN values |-> Shortened(nets'[j].bits)]
    BY <2>5 DEF values, With
  <2> QED
    BY <1>2, <1>7, <1>12, <2>1, <2>2, <2>4, <2>6 DEF NetsOK, DumpOK
<1>16. CountsOK'
  <2>1. /\ DOMAIN reader.toggles = {reader.id_to_scope[j] : j \in Declared}
        /\ reader.toggles = [p \in DOMAIN reader.toggles |-> reader.toggles[p]]
        /\ \A j \in Declared : Bounds(reader.toggles[reader.id_to_scope[j]], j)
    BY <1>2, Parts DEF CountsOK
  <2>2. /\ DOMAIN toggles = DOMAIN reader.toggles
        /\ toggles = [p \in DOMAIN toggles |-> toggles[p]]
        /\ toggles[name] = reader.toggles[name] + c
        /\ \A p \in DOMAIN toggles : p # name => toggles[p] = reader.toggles[p]
    BY <2>1 DEF toggles
  <2>3. \A j \in Declared : j # i => reader.id_to_scope[j] # name
    BY Parts DEF DeclsOK, ReaderOK
  <2>4. ASSUME NEW j \in Declared
        PROVE  toggles[reader.id_to_scope[j]] \in
                  nets'[j].flips + nets'[j].blurs .. nets'[j].flips + Width[j] * nets'[j].blurs
    <3>1. CASE j = i
      BY <1>11, <1>12, <2>2, <3>1
    <3>2. CASE j # i
      <4>1. j \in Idents
        BY Parts DEF DeclsOK, Declared
      <4>2. reader.id_to_scope[j] \in DOMAIN toggles
        BY <2>1, <2>2
      <4> QED
        BY <1>12, <2>1, <2>2, <2>3, <3>2, <4>1, <4>2 DEF Bounds
    <3> QED
      BY <3>1, <3>2
  <2> QED
    BY <1>2, <1>7, <2>1, <2>2, <2>4 DEF CountsOK, Bounds
<1> QED
  BY <1>13, <1>14, <1>15, <1>16

LEMMA VInvStep == VInv /\ [Next]_vars => VInv'
<1> SUFFICES ASSUME VInv, [Next]_vars PROVE VInv'
  OBVIOUS
<1>1. packet' = packet
  BY DEF Next, vars, OpenScope, CloseScope, DeclareVar, EndDefinitions, DumpChange, Read
<1> SUFFICES ASSUME packet \in ParsePackets PROVE DeclsOK' /\ ReaderOK' /\ NetsOK' /\ CountsOK'
  BY <1>1 DEF VInv
<1>2. CASE OpenScope
  BY <1>2, OpenScopeKeeps
<1>3. CASE CloseScope
  BY <1>3, CloseScopeKeeps
<1>4. CASE DeclareVar
  BY <1>4, DeclareVarKeeps
<1>5. CASE EndDefinitions
  BY <1>5, EndDefinitionsKeeps
<1>6. CASE DumpChange
  BY <1>6, DumpChangeKeeps
<1>7. CASE UNCHANGED vars
  <2>1. reader' = reader /\ stack' = stack /\ decls' = decls /\ nets' = nets
    BY <1>7 DEF vars
  <2>2. Declared' = Declared
    BY <2>1 DEF Declared
  <2>3. DeclsOK'
    BY <2>1, Parts DEF DeclsOK
  <2>4. ReaderOK'
    BY <2>1, <2>2, Parts, Zenon DEF ReaderOK
  <2>5. NetsOK'
    BY <2>1, <2>2, Parts, Zenon DEF NetsOK, DumpOK
  <2>6. CountsOK'
    BY <2>1, <2>2, Parts, Zenon DEF CountsOK, Bounds
  <2> QED
    BY <2>3, <2>4, <2>5, <2>6
<1> QED
  BY <1>2, <1>3, <1>4, <1>5, <1>6, <1>7 DEF Next

\* One path for each net, so that there are as many counts as nets.
LEMMA PathsAreNets ==
    ASSUME DeclsOK, ReaderOK
    PROVE  Cardinality({reader.id_to_scope[i] : i \in Declared}) = Cardinality(Declared)
<1> DEFINE Paths == {reader.id_to_scope[i] : i \in Declared}
           f == [i \in Declared |-> reader.id_to_scope[i]]
<1>1. f \in [Declared -> Paths] /\ \A p \in Paths : \E i \in Declared : f[i] = p
  OBVIOUS
<1>2. \A i, j \in Declared : f[i] = f[j] => i = j
  BY DEF DeclsOK, ReaderOK
<1> HIDE DEF f, Paths
<1>3. f \in Bijection(Declared, Paths)
  <2>1. f \in Injection(Declared, Paths)
    BY <1>1, <1>2 DEF Injection, IsInjective
  <2>2. f \in Surjection(Declared, Paths)
    BY <1>1 DEF Surjection
  <2> QED
    BY <2>1, <2>2 DEF Bijection
<1>4. IsFiniteSet(Declared)
  <2> DEFINE ident == [d \in decls |-> d.ident]
  <2>1. ident \in Surjection(decls, Declared)
    BY DEF Surjection, Declared
  <2>2. IsFiniteSet(decls)
    BY DEF DeclsOK
  <2> HIDE DEF ident
  <2> QED
    BY <2>1, <2>2, FS_Surjection
<1>5. ExistsBijection(Declared, Paths)
  BY <1>3 DEF ExistsBijection
<1>6. Cardinality(Paths) = Cardinality(Declared)
  BY <1>4, <1>5, FS_Bijection
<1> QED
  BY <1>6 DEF Paths

LEMMA CountedOnce == VInv => NetsCountedOnce
<1> SUFFICES ASSUME VInv, packet \in ParsePackets, ~reader.in_defs
             PROVE  /\ Cardinality(DOMAIN reader.toggles) = Cardinality(Declared)
                    /\ \A i \in Declared : \E d \in decls :
                          /\ d.ident = i /\ d.path \in DOMAIN reader.toggles
                          /\ reader.toggles[d.path] >= nets[i].flips + nets[i].blurs
                          /\ reader.toggles[d.path] =< nets[i].flips + Width[i] * nets[i].blurs
  BY DEF NetsCountedOnce, Header, Declared
<1>1. /\ DOMAIN reader.toggles = {reader.id_to_scope[i] : i \in Declared}
      /\ \A i \in Declared : Bounds(reader.toggles[reader.id_to_scope[i]], i)
  BY Parts DEF CountsOK
<1>2. Cardinality(DOMAIN reader.toggles) = Cardinality(Declared)
  BY <1>1, Parts, PathsAreNets
<1>3. ASSUME NEW i \in Declared
      PROVE  \E d \in decls :
                /\ d.ident = i /\ d.path \in DOMAIN reader.toggles
                /\ reader.toggles[d.path] >= nets[i].flips + nets[i].blurs
                /\ reader.toggles[d.path] =< nets[i].flips + Width[i] * nets[i].blurs
  <2> DEFINE d == [path |-> reader.id_to_scope[i], ident |-> i]
  <2>1. d \in decls
    BY Parts DEF ReaderOK
  <2>2. d.ident = i /\ d.path = reader.id_to_scope[i] /\ d.path \in DOMAIN reader.toggles
    BY <1>1
  <2> HIDE DEF d
  <2>3. /\ nets[i].flips \in Nat /\ nets[i].blurs \in Nat /\ Width[i] \in Nat
    BY Parts, Widths DEF DeclsOK, Declared, NetsOK, DumpOK
  <2>4. reader.toggles[d.path] \in nets[i].flips + nets[i].blurs ..
                                    nets[i].flips + Width[i] * nets[i].blurs
    BY <1>1, <2>2 DEF Bounds
  <2> QED
    BY <2>1, <2>2, <2>3, <2>4
<1> QED
  BY <1>2, <1>3

\* A decoder or prefetch replay counts every net of its dump once, whatever the
\* header, the aliases, the widths and the digits the simulator leaves out: the known
\* flips bit by bit, and between one and its width for each unknown change.
THEOREM EveryNetCountedOnce == Spec => []NetsCountedOnce
<1>1. Init => VInv
  BY VInvInit
<1>2. VInv /\ [Next]_vars => VInv'
  BY VInvStep
<1>3. VInv => NetsCountedOnce
  BY CountedOnce
<1> QED
  BY <1>1, <1>2, <1>3, PTL DEF Spec

-----------------------------------------------------------------------------
(* The invariant, of the packets whose replays use count_vcd.              *)

\* The fields of the reader of count_vcd.
CountFields(s, d, m, p, c) ==
    [scopes |-> s, in_defs |-> d, id_maps |-> m, prev |-> p, counts |-> c]

\* What a scope or a name is called.
Words == {"tb", "gold", "gate", "sub"} \cup Names

\* The declarations an owner's paths come from, and those both sides share.
Owned == Of("gold") \cup Of("gate")
Other(o) == CHOOSE p \in Owners : p # o
Shared(o) ==
    {d \in Of(o) : \E e \in Of(Other(o)) :
        Tail2(e) = Tail2(d) /\ Width[e.ident] = Width[d.ident]}
Common == Shared("gold") \cup Shared("gate")

\* What the reader notes of a declaration, and the key it remembers its value under.
MapOf(d) == [ident |-> d.ident, owner |-> d.path[2], width |-> Width[d.ident], canon |-> Tail2(d)]
KeyOf(d) == <<d.path[2], Tail2(d)>>
Maps == {MapOf(d) : d \in Owned}

IsKnown(i) == nets[i].bits # None /\ Known(nets[i].bits)

\* Every name is below the test bench.
ScopesOK ==
    /\ stack \in Seq(Words) /\ (stack # <<>> => stack[1] = "tb")
    /\ \A d \in decls : d.path \in Seq(Words) /\ Len(d.path) >= 2 /\ d.path[1] = "tb"

\* The reader has noted each name of the designs, once.
MapsOK ==
    /\ reader = CountFields(stack, reader.in_defs, reader.id_maps, reader.prev, reader.counts)
    /\ reader.in_defs \in BOOLEAN
    /\ reader.id_maps \in Seq(Maps)
    /\ \A d \in Owned : \E k \in DOMAIN reader.id_maps : reader.id_maps[k] = MapOf(d)
    /\ \A j, k \in DOMAIN reader.id_maps : reader.id_maps[j] = reader.id_maps[k] => j = k

\* Nothing is counted in the header.
StartOK == reader.in_defs => reader.prev = <<>> /\ \A o \in Owners : reader.counts[o] = 0

\* Afterwards the last value of a net is remembered while it is known, under the net
\* or under each path of it that counts, and the counts are those of the property.
RfOK ==
    ~reader.in_defs =>
        /\ DOMAIN reader.prev = {i \in Idents : IsKnown(i) /\ \E d \in Owned : d.ident = i}
        /\ \A i \in DOMAIN reader.prev : reader.prev[i] = nets[i].bits
        /\ \A o \in Owners : reader.counts[o] = SumFunctionOnSet(PathFlips, Of(o))

AluOK ==
    ~reader.in_defs =>
        /\ DOMAIN reader.prev = {KeyOf(d) : d \in {c \in Common : IsKnown(c.ident)}}
        /\ \A d \in Common : IsKnown(d.ident) => reader.prev[KeyOf(d)] = nets[d.ident].bits
        /\ \A o \in Owners : reader.counts[o] = SumFunctionOnSet(PathFlips, Shared(o))

CInv ==
    /\ packet \in AluPackets \cup RfPackets \cup ParsePackets
    /\ packet \in AluPackets \cup RfPackets =>
          /\ DeclsOK /\ DumpOK /\ ScopesOK /\ MapsOK /\ StartOK
          /\ packet \in RfPackets => RfOK
          /\ packet \in AluPackets => AluOK

LEMMA OwnersAre ==
    /\ Owners = {"gold", "gate"}
    /\ Other("gold") = "gate" /\ Other("gate") = "gold"
<1>1. {p \in Owners : p # "gold"} = {"gate"} /\ {p \in Owners : p # "gate"} = {"gold"}
  BY DEF Owners
<1>2. Other("gold") \in {"gate"} /\ Other("gate") \in {"gold"}
  <2>1. \E p \in Owners : p # "gold"
    BY DEF Owners
  <2>2. \E p \in Owners : p # "gate"
    BY DEF Owners
  <2> QED
    BY <1>1, <2>1, <2>2 DEF Other
<1> QED
  BY <1>2 DEF Owners

\* The path of a name declared in a scope.
LEMMA TailOfAppend ==
    ASSUME NEW s \in Seq(Words), Len(s) >= 2, NEW n \in Words, NEW d, d.path = Append(s, n)
    PROVE  Tail2(d) = SubSeq(s, 3, Len(s)) \o <<n>> /\ d.path[2] = s[2]
<1>6. Len(s) \in Nat /\ Len(s) >= 2
  OBVIOUS
<1> DEFINE t == Append(s, n)
<1>1. t \in Seq(Words) /\ Len(t) = Len(s) + 1 /\ t[Len(s) + 1] = n /\ t = s \o <<n>>
      /\ <<n>> \in Seq(Words) /\ t[2] = s[2]
  OBVIOUS
<1>2. d.path = t
  OBVIOUS
<1> HIDE DEF t
<1>3. SubSeq(t, 3, Len(t)) = SubSeq(t, 3, Len(t) - 1) \o <<t[Len(t)]>>
  <2>1. 3 \in 1..Len(t) /\ Len(t) \in 3..Len(t)
    BY <1>1
  <2> QED
    BY <1>1, <2>1, SubSeqRecursiveSecond
<1>4. SubSeq(t, 3, Len(s)) = SubSeq(s, 3, Len(s))
  <2>1. CASE Len(s) = 2
    BY <2>1, SubSeqEmpty
  <2>2. CASE Len(s) > 2
    <3>2. 3 \in 1..Len(s) /\ Len(s) \in 1..Len(s)
      BY <1>6, <2>2
    <3> QED
      BY <1>1, <3>2, SubSeqOfConcat1
  <2> QED
    BY <1>6, <2>1, <2>2
<1>5. Len(t) - 1 = Len(s)
  BY <1>1
<1> QED
  BY <1>1, <1>2, <1>3, <1>4, <1>5 DEF Tail2

\* A path is told by its owner and what follows.
LEMMA PathsTell ==
    ASSUME NEW p \in Seq(Words), NEW q \in Seq(Words), Len(p) > 2, Len(q) > 2,
           p[1] = q[1], p[2] = q[2], SubSeq(p, 3, Len(p)) = SubSeq(q, 3, Len(q))
    PROVE  p = q
<1>1. Len(p) = Len(q)
  OBVIOUS
<1>2. ASSUME NEW k \in 1..Len(p) PROVE p[k] = q[k]
  <2>1. CASE k > 2
    <3>1. SubSeq(p, 3, Len(p))[k - 2] = p[k] /\ SubSeq(q, 3, Len(q))[k - 2] = q[k]
      BY <1>1, <2>1
    <3> QED
      BY <3>1
  <2>2. CASE k \in {1, 2}
    BY <2>2
  <2> QED
    BY <2>1, <2>2
<1> QED
  BY <1>1, <1>2

LEMMA KeysTell ==
    ASSUME DeclsOK, ScopesOK, NEW d \in Owned, NEW e \in Owned,
           d.path[2] = e.path[2], Tail2(d) = Tail2(e)
    PROVE  d = e
<1>1. /\ d \in decls /\ e \in decls /\ Len(d.path) > 2 /\ Len(e.path) > 2
      /\ d.path \in Seq(Words) /\ e.path \in Seq(Words)
      /\ d.path[1] = "tb" /\ e.path[1] = "tb"
  BY DEF Owned, Of, ScopesOK
<1>2. d.path = e.path
  BY <1>1, PathsTell DEF Tail2
<1> QED
  BY <1>1, <1>2 DEF DeclsOK

LEMMA CountPacketsAre ==
    /\ AluPackets = {"divrem", "addsub", "shift_left", "shift_divvalid"}
    /\ RfPackets = {"mux_zero", "high_bank"}
BY DEF AluPackets, RfPackets

LEMMA CountReadsAlike ==
    ASSUME NEW line, Read(line), packet \in AluPackets \cup RfPackets
    PROVE  /\ packet' = packet
           /\ reader.in_defs => reader' = CountHeader(reader, line)
           /\ ~reader.in_defs /\ packet \in AluPackets => reader' = AluChange(reader, line)
           /\ ~reader.in_defs /\ packet \in RfPackets => reader' = RfChange(reader, line)
<1>1. packet' = packet
  BY DEF Read
<1>2. packet \in AluPackets => reader' = AluCount(reader, line)
  BY DEF Read, AluPackets, divrem_count_vcd, addsub_count_vcd, shift_left_count_vcd,
         shift_divvalid_count_vcd
<1>3. packet \in RfPackets => reader' = RfCount(reader, line)
  BY DEF Read, RfPackets, mux_zero_count_vcd, high_bank_count_vcd
<1> QED
  BY <1>1, <1>2, <1>3 DEF AluCount, RfCount

LEMMA CountParts ==
    ASSUME CInv, packet \in AluPackets \cup RfPackets
    PROVE  /\ DeclsOK /\ DumpOK /\ ScopesOK /\ MapsOK /\ StartOK
           /\ packet \in RfPackets => RfOK
           /\ packet \in AluPackets => AluOK
BY DEF CInv

\* Its fields after a line.
LEMMA CountReaderIs ==
    ASSUME MapsOK
    PROVE  /\ reader = CountFields(stack, reader.in_defs, reader.id_maps, reader.prev,
                                   reader.counts)
           /\ reader.scopes = stack
           /\ \A x, y : /\ [reader EXCEPT !.scopes = x] = CountFields(x, reader.in_defs,
                               reader.id_maps, reader.prev, reader.counts)
                        /\ [reader EXCEPT !.in_defs = x] = CountFields(stack, x,
                               reader.id_maps, reader.prev, reader.counts)
                        /\ [reader EXCEPT !.id_maps = x] = CountFields(stack, reader.in_defs, x,
                               reader.prev, reader.counts)
                        /\ [reader EXCEPT !.prev = x, !.counts = y] = CountFields(stack,
                               reader.in_defs, reader.id_maps, x, y)
<1>1. reader = CountFields(stack, reader.in_defs, reader.id_maps, reader.prev, reader.counts)
  BY DEF MapsOK
<1>2. reader.scopes = stack
  BY <1>1 DEF CountFields
<1>3. ASSUME NEW x, NEW y
      PROVE  /\ [reader EXCEPT !.scopes = x] = CountFields(x, reader.in_defs,
                    reader.id_maps, reader.prev, reader.counts)
             /\ [reader EXCEPT !.in_defs = x] = CountFields(stack, x,
                    reader.id_maps, reader.prev, reader.counts)
             /\ [reader EXCEPT !.id_maps = x] = CountFields(stack, reader.in_defs, x,
                    reader.prev, reader.counts)
             /\ [reader EXCEPT !.prev = x, !.counts = y] = CountFields(stack,
                    reader.in_defs, reader.id_maps, x, y)
  <2>1. PICK s, d, m, p, c : /\ reader = CountFields(s, d, m, p, c) /\ s = stack
                             /\ d = reader.in_defs /\ m = reader.id_maps
                             /\ p = reader.prev /\ c = reader.counts
    BY <1>1
  <2>2. [reader EXCEPT !.scopes = x] = CountFields(x, d, m, p, c)
    BY <2>1 DEF CountFields
  <2>3. [reader EXCEPT !.in_defs = x] = CountFields(s, x, m, p, c)
    BY <2>1 DEF CountFields
  <2>4. [reader EXCEPT !.id_maps = x] = CountFields(s, d, x, p, c)
    BY <2>1 DEF CountFields
  <2> DEFINE q == [reader EXCEPT !.prev = x]
  <2>5. q = CountFields(s, d, m, x, c)
    BY <2>1 DEF CountFields
  <2>6. [reader EXCEPT !.prev = x, !.counts = y] = [q EXCEPT !.counts = y]
    OBVIOUS
  <2> HIDE DEF q
  <2>7. [q EXCEPT !.counts = y] = CountFields(s, d, m, x, y)
    BY <2>5 DEF CountFields
  <2> QED
    BY <2>1, <2>2, <2>3, <2>4, <2>6, <2>7
<1> QED
  BY <1>1, <1>2, <1>3

\* The declarations below an owner.
LEMMA OwnedAre ==
    ASSUME NEW d \in Owned
    PROVE  d \in decls /\ d.path[2] \in Owners /\ d \in Of(d.path[2]) /\ Len(d.path) > 2
BY OwnersAre DEF Owned, Of

LEMMA OfAreOwned ==
    ASSUME NEW o \in Owners
    PROVE  /\ Of(o) \subseteq Owned /\ Of(o) = {d \in Owned : d.path[2] = o}
           /\ Shared(o) \subseteq Common /\ Shared(o) = {d \in Common : d.path[2] = o}
BY OwnersAre DEF Owned, Of, Common, Shared

LEMMA FiniteOwned ==
    ASSUME DeclsOK
    PROVE  /\ IsFiniteSet(Owned) /\ IsFiniteSet(Common) /\ Common \subseteq Owned
           /\ Owned \subseteq decls
<1>1. Common \subseteq Owned /\ Owned \subseteq decls
  BY DEF Common, Owned, Shared, Of
<1> QED
  BY <1>1, FS_Subset DEF DeclsOK

\* The names noted for a path are those of its declarations.
LEMMA PathMapsAre ==
    ASSUME MapsOK, NEW c
    PROVE  PathMaps(reader, c) = {MapOf(d) : d \in {e \in Owned : Tail2(e) = c}}
<1>1. ToSet(reader.id_maps) = Maps
  <2>1. reader.id_maps \in Seq(Maps)
    BY DEF MapsOK
  <2>2. \A k \in DOMAIN reader.id_maps : reader.id_maps[k] \in Maps
    BY <2>1
  <2>3. ToSet(reader.id_maps) = {reader.id_maps[k] : k \in DOMAIN reader.id_maps}
    BY DEF ToSet
  <2>4. \A m \in Maps : \E k \in DOMAIN reader.id_maps : reader.id_maps[k] = m
    BY DEF Maps, MapsOK
  <2> QED
    BY <2>2, <2>3, <2>4
<1>2. \A d \in Owned : MapOf(d).canon = Tail2(d)
  BY DEF MapOf
<1> QED
  BY <1>1, <1>2 DEF PathMaps, Maps

\* A path counts when the other side declares it in the same width.
LEMMA CommonIs ==
    ASSUME DeclsOK, ScopesOK, MapsOK, NEW d \in Owned
    PROVE  CommonPath(reader, Tail2(d)) <=> d \in Common
<1> DEFINE o == d.path[2]
           Same == {e \in Owned : Tail2(e) = Tail2(d)}
           owners == {m.owner : m \in PathMaps(reader, Tail2(d))}
           widths == {m.width : m \in PathMaps(reader, Tail2(d))}
<1>1. owners = {e.path[2] : e \in Same} /\ widths = {Width[e.ident] : e \in Same}
  <2>1. PathMaps(reader, Tail2(d)) = {MapOf(e) : e \in Same}
    BY PathMapsAre
  <2>2. \A e \in Same : MapOf(e).owner = e.path[2] /\ MapOf(e).width = Width[e.ident]
    BY DEF MapOf
  <2> QED
    BY <2>1, <2>2
<1>2. IsFiniteSet(widths)
  <2> DEFINE f == [e \in Same |-> Width[e.ident]]
  <2>1. f \in Surjection(Same, widths)
    BY <1>1 DEF Surjection
  <2>2. IsFiniteSet(Same)
    BY FiniteOwned, FS_Subset
  <2> HIDE DEF f
  <2> QED
    BY <2>1, <2>2, FS_Surjection
<1>3. d \in Same /\ d \in Of(o) /\ o \in Owners
  BY OwnedAre
<1>4. CommonPath(reader, Tail2(d)) <=> owners = Owners /\ Cardinality(widths) = 1
  BY DEF CommonPath
<1>5. Cardinality(widths) = 1 <=> \E w : widths = {w}
  BY <1>2, FS_Singleton
<1>6. Other(o) \in Owners /\ Owners = {o, Other(o)} /\ Other(o) # o
  BY <1>3, OwnersAre
<1>7. d \in Common <=> \E e \in Of(Other(o)) :
                          Tail2(e) = Tail2(d) /\ Width[e.ident] = Width[d.ident]
  <2>1. d \in Common <=> d \in Shared(o)
    BY <1>3, OfAreOwned
  <2> QED
    BY <1>3, <2>1 DEF Shared
<1> HIDE DEF o, owners, widths
<1>8. \A e \in Same : e \in Of(e.path[2]) /\ e.path[2] \in Owners
  BY OwnedAre
<1>9. \A e \in Of(Other(o)) : e \in Owned /\ e.path[2] = Other(o)
  BY <1>6, OfAreOwned
<1>10. ASSUME NEW e \in Same, NEW f \in Same, e.path[2] = f.path[2]
       PROVE  e = f
  BY <1>10, KeysTell
<1>11. ASSUME owners = Owners, NEW w, widths = {w}
       PROVE  \E e \in Of(Other(o)) : Tail2(e) = Tail2(d) /\ Width[e.ident] = Width[d.ident]
  <2>1. PICK e \in Same : e.path[2] = Other(o)
    BY <1>1, <1>6, <1>11
  <2>2. Width[e.ident] = w /\ Width[d.ident] = w
    BY <1>1, <1>3, <1>11
  <2>3. e \in Of(Other(o)) /\ Tail2(e) = Tail2(d)
    BY <1>8, <2>1
  <2> QED
    BY <2>2, <2>3
<1>12. ASSUME NEW e \in Of(Other(o)), Tail2(e) = Tail2(d), Width[e.ident] = Width[d.ident]
       PROVE  owners = Owners /\ widths = {Width[d.ident]}
  <2>1. e \in Same /\ e.path[2] = Other(o)
    BY <1>9, <1>12
  <2>2. d.path[2] = o
    BY DEF o
  <2>3. \A f \in Same : f = d \/ f = e
    BY <1>3, <1>6, <1>8, <1>10, <2>1, <2>2
  <2> HIDE DEF Same
  <2>4. owners = {o, Other(o)}
    BY <1>1, <1>3, <2>1, <2>2, <2>3
  <2>5. widths = {Width[d.ident]}
    BY <1>1, <1>3, <1>12, <2>1, <2>3
  <2> QED
    BY <1>6, <2>4, <2>5
<1> QED
  BY <1>4, <1>5, <1>7, <1>11, <1>12

-----------------------------------------------------------------------------
(* The header of the dump keeps it.                                       *)

LEMMA CInvInit == Init => CInv
<1> SUFFICES ASSUME Init PROVE CInv
  OBVIOUS
<1>1. packet \in AluPackets \cup RfPackets \cup ParsePackets
  BY DEF Init
<1> SUFFICES ASSUME packet \in AluPackets \cup RfPackets
             PROVE  /\ DeclsOK /\ DumpOK /\ ScopesOK /\ MapsOK /\ StartOK
                    /\ packet \in RfPackets => RfOK
                    /\ packet \in AluPackets => AluOK
  BY <1>1 DEF CInv
<1> DEFINE zero == [o \in Owners |-> 0]
<1>2. reader = CountFields(<<>>, TRUE, <<>>, <<>>, zero) /\ decls = {} /\ stack = <<>>
  <2>1. packet \notin ParsePackets
    BY DEF AluPackets, RfPackets, ParsePackets
  <2> QED
    BY <2>1 DEF Init, CountStart, CountFields
<1>3. \A o \in Owners : zero[o] = 0
  OBVIOUS
<1> HIDE DEF zero
<1>4. /\ reader.in_defs = TRUE /\ reader.id_maps = <<>> /\ reader.prev = <<>>
      /\ reader.counts = zero
  BY <1>2 DEF CountFields
<1>5. DeclsOK
  BY <1>2, FS_EmptySet DEF DeclsOK
<1>6. DumpOK
  <2>1. \A i \in Idents : nets[i] = [bits |-> None, flips |-> 0, blurs |-> 0]
    BY DEF Init
  <2>2. nets = [i \in Idents |-> nets[i]]
    BY DEF Init
  <2> QED
    BY <1>4, <2>1, <2>2 DEF DumpOK
<1>7. ScopesOK
  BY <1>2 DEF ScopesOK
<1>8. MapsOK
  <2>1. Owned = {}
    BY <1>2 DEF Owned, Of
  <2>2. reader = CountFields(stack, reader.in_defs, reader.id_maps, reader.prev, reader.counts)
    BY <1>2, <1>4
  <2>3. <<>> \in Seq(Maps) /\ DOMAIN <<>> = {}
    OBVIOUS
  <2> QED
    BY <1>4, <2>1, <2>2, <2>3 DEF MapsOK
<1> QED
  BY <1>3, <1>4, <1>5, <1>6, <1>7, <1>8 DEF StartOK, RfOK, AluOK

\* Nothing but the scopes changes.
LEMMA CountScopesKeep ==
    ASSUME CInv, packet \in AluPackets \cup RfPackets, reader.in_defs = TRUE,
           NEW x \in Seq(Words), x # <<>> => x[1] = "tb",
           stack' = x, reader' = [reader EXCEPT !.scopes = x], UNCHANGED <<decls, nets>>
    PROVE  DeclsOK' /\ DumpOK' /\ ScopesOK' /\ MapsOK' /\ StartOK' /\ RfOK' /\ AluOK'
<1>1. reader' = CountFields(x, reader.in_defs, reader.id_maps, reader.prev, reader.counts)
  BY CountParts, CountReaderIs
<1>2. /\ reader'.in_defs = TRUE /\ reader'.id_maps = reader.id_maps
      /\ reader'.prev = reader.prev /\ reader'.counts = reader.counts
  BY <1>1 DEF CountFields
<1>3. Declared' = Declared
  BY DEF Declared
<1>4. Owned' = Owned /\ Maps' = Maps
  BY DEF Owned, Of, Maps
<1>5. reader' = CountFields(stack, reader.in_defs, reader.id_maps, reader.prev, reader.counts)'
  BY <1>1, <1>2
<1>6. DeclsOK'
  BY CountParts DEF DeclsOK
<1>7. DumpOK'
  BY <1>2, <1>3, CountParts DEF DumpOK
<1>8. ScopesOK'
  BY CountParts DEF ScopesOK
<1>9. MapsOK'
  BY <1>2, <1>4, <1>5, CountParts DEF MapsOK
<1>10. StartOK'
  BY <1>2, CountParts DEF StartOK
<1> QED
  BY <1>2, <1>6, <1>7, <1>8, <1>9, <1>10 DEF RfOK, AluOK

LEMMA CountOpenScope ==
    ASSUME CInv, packet \in AluPackets \cup RfPackets, OpenScope
    PROVE  DeclsOK' /\ DumpOK' /\ ScopesOK' /\ MapsOK' /\ StartOK' /\ RfOK' /\ AluOK'
<1>1. PICK s \in CASE Len(stack) = 0 -> {"tb"}
                   [] Len(stack) = 1 -> Owners
                   [] Len(stack) = 2 -> {"sub"}
                   [] OTHER -> {} :
        stack' = Append(stack, s) /\ Read([kind |-> "scope", name |-> s])
  BY DEF OpenScope
<1> DEFINE line == [kind |-> "scope", name |-> s]
<1>2. stack \in Seq(Words) /\ (stack # <<>> => stack[1] = "tb")
  BY CountParts DEF ScopesOK
<1>3. s \in Words /\ (stack = <<>> => s = "tb")
  <2>1. CASE stack = <<>>
    <3>1. Len(stack) = 0
      BY <2>1
    <3> QED
      BY <1>1, <3>1 DEF Words
  <2>2. CASE stack # <<>>
    <3>1. Len(stack) # 0
      BY <1>2, <2>2
    <3>2. {"sub"} \subseteq Words /\ {"tb"} \subseteq Words /\ Owners \subseteq Words
      BY OwnersAre DEF Words
    <3> QED
      BY <1>1, <2>2, <3>1, <3>2
  <2> QED
    BY <2>1, <2>2
<1>4. Append(stack, s) \in Seq(Words) /\ Append(stack, s)[1] = "tb"
  <2>1. CASE stack = <<>>
    BY <1>3, <2>1
  <2>2. CASE stack # <<>>
    BY <1>2, <1>3, <2>2
  <2> QED
    BY <2>1, <2>2
<1>5. reader.in_defs = TRUE
  BY CountParts DEF OpenScope, Header, MapsOK
<1>6. reader' = [reader EXCEPT !.scopes = Append(@, s)]
  <2>1. reader' = CountHeader(reader, line)
    BY <1>1, <1>5, CountReadsAlike
  <2> QED
    BY <2>1 DEF CountHeader
<1>7. reader' = [reader EXCEPT !.scopes = Append(stack, s)]
  BY <1>6, CountParts, CountReaderIs
<1>8. decls' = decls /\ nets' = nets
  BY DEF OpenScope
<1> QED
  BY <1>1, <1>4, <1>5, <1>7, <1>8, CountScopesKeep

LEMMA CountCloseScope ==
    ASSUME CInv, packet \in AluPackets \cup RfPackets, CloseScope
    PROVE  DeclsOK' /\ DumpOK' /\ ScopesOK' /\ MapsOK' /\ StartOK' /\ RfOK' /\ AluOK'
<1> DEFINE line == [kind |-> "upscope"]
<1>1. stack' = Front(stack) /\ stack # <<>> /\ Read(line)
  BY DEF CloseScope
<1>2. stack \in Seq(Words) /\ stack[1] = "tb"
  BY <1>1, CountParts DEF ScopesOK
<1>3. Front(stack) \in Seq(Words) /\ (Front(stack) # <<>> => Front(stack)[1] = "tb")
  <2>1. Len(stack) \in Nat /\ Len(stack) >= 1
    BY <1>1, <1>2
  <2>2. Front(stack) = SubSeq(stack, 1, Len(stack) - 1)
    BY DEF Front
  <2> QED
    BY <1>2, <2>1, <2>2
<1>4. reader.in_defs = TRUE
  BY CountParts DEF CloseScope, Header, MapsOK
<1>5. reader' = [reader EXCEPT !.scopes = IF @ = <<>> THEN @ ELSE Front(@)]
  <2>1. reader' = CountHeader(reader, line)
    BY <1>1, <1>4, CountReadsAlike
  <2> QED
    BY <2>1 DEF CountHeader
<1>6. reader' = [reader EXCEPT !.scopes = Front(stack)]
  BY <1>1, <1>5, CountParts, CountReaderIs
<1>7. decls' = decls /\ nets' = nets
  BY DEF CloseScope
<1> QED
  BY <1>1, <1>3, <1>4, <1>6, <1>7, CountScopesKeep

\* A name of the designs is noted, any other left out.
LEMMA CountDeclareVar ==
    ASSUME CInv, packet \in AluPackets \cup RfPackets, DeclareVar
    PROVE  DeclsOK' /\ DumpOK' /\ ScopesOK' /\ MapsOK' /\ StartOK' /\ RfOK' /\ AluOK'
<1>1. PICK i \in Idents, n \in Names :
        /\ \A d \in decls : d.path # Append(stack, n)
        /\ decls' = decls \cup {[path |-> Append(stack, n), ident |-> i]}
        /\ Read([kind |-> "var", ident |-> i, width |-> Width[i], name |-> n])
  BY DEF DeclareVar
<1> DEFINE line == [kind |-> "var", ident |-> i, width |-> Width[i], name |-> n]
           path == Append(stack, n)
           d0   == [path |-> path, ident |-> i]
           kept == Len(stack) >= 2 /\ stack[2] \in Owners
           maps == IF kept THEN Append(reader.id_maps, MapOf(d0)) ELSE reader.id_maps
<1>2. reader.in_defs = TRUE
  BY CountParts DEF DeclareVar, Header, MapsOK
<1>3. nets' = nets /\ stack' = stack /\ stack # <<>>
  BY DEF DeclareVar
<1>4. stack \in Seq(Words) /\ stack[1] = "tb" /\ n \in Words
  BY <1>3, CountParts DEF ScopesOK, Words
<1>5. d0.ident = i /\ d0.path = path /\ d0 = [path |-> d0.path, ident |-> d0.ident]
  OBVIOUS
<1>6. path \in Seq(Words) /\ Len(path) = Len(stack) + 1 /\ path[1] = "tb" /\ Len(stack) \in Nat
      /\ Len(stack) >= 1 /\ (Len(stack) >= 2 => path[2] = stack[2])
  BY <1>3, <1>4
<1>7. kept => MapOf(d0) = [ident |-> i, owner |-> stack[2], width |-> Width[i],
                           canon |-> SubSeq(stack, 3, Len(stack)) \o <<n>>]
  <2>1. d0.path = Append(stack, n)
    OBVIOUS
  <2> HIDE DEF d0
  <2>2. kept => Tail2(d0) = SubSeq(stack, 3, Len(stack)) \o <<n>> /\ d0.path[2] = stack[2]
    BY <1>4, <2>1, TailOfAppend
  <2> QED
    BY <1>5, <2>2 DEF MapOf
<1>8. reader' = IF kept
                THEN [reader EXCEPT !.id_maps = Append(@,
                        [ident |-> i, owner |-> stack[2], width |-> Width[i],
                         canon |-> SubSeq(stack, 3, Len(stack)) \o <<n>>])]
                ELSE reader
  <2>1. reader' = CountHeader(reader, line)
    BY <1>1, <1>2, CountReadsAlike
  <2>2. line.kind = "var" /\ line.ident = i /\ line.width = Width[i] /\ line.name = n
    OBVIOUS
  <2>3. reader.scopes = stack
    BY CountParts, CountReaderIs
  <2> HIDE DEF line
  <2>4. reader' = IF Len(stack) >= 2 /\ stack[1] = "tb" /\ stack[2] \in Owners
                  THEN [reader EXCEPT !.id_maps = Append(@,
                          [ident |-> i, owner |-> stack[2], width |-> Width[i],
                           canon |-> SubSeq(stack, 3, Len(stack)) \o <<n>>])]
                  ELSE reader
    BY <2>1, <2>2, <2>3 DEF CountHeader
  <2> QED
    BY <1>4, <2>4
<1>9. decls' = decls \cup {d0} /\ \A d \in decls : d.path # path
  BY <1>1
<1> HIDE DEF d0
<1>10. reader' = CountFields(stack, reader.in_defs, maps, reader.prev, reader.counts)
  <2>1. reader = CountFields(stack, reader.in_defs, reader.id_maps, reader.prev, reader.counts)
    BY CountParts, CountReaderIs
  <2>2. CASE kept
    <3>1. reader' = [reader EXCEPT !.id_maps = Append(reader.id_maps, MapOf(d0))]
      BY <1>7, <1>8, <2>2
    <3> HIDE DEF kept
    <3>2. maps = Append(reader.id_maps, MapOf(d0))
      BY <2>2
    <3> HIDE DEF maps
    <3> QED
      BY <3>1, <3>2, CountParts, CountReaderIs
  <2>3. CASE ~kept
    <3> HIDE DEF kept
    <3> QED
      BY <1>8, <2>1, <2>3
  <2> QED
    BY <2>2, <2>3
<1>11. /\ reader'.in_defs = TRUE /\ reader'.id_maps = maps
       /\ reader'.prev = reader.prev /\ reader'.counts = reader.counts
  <2> HIDE DEF maps
  <2> QED
    BY <1>2, <1>10 DEF CountFields
<1>12. DeclsOK'
  <2>1. IsFiniteSet(decls')
    BY <1>9, CountParts, FS_AddElement DEF DeclsOK
  <2> QED
    BY <1>5, <1>9, <2>1, CountParts DEF DeclsOK
<1>13. DumpOK'
  <2>1. Declared' = Declared \cup {i}
    BY <1>5, <1>9 DEF Declared
  <2> QED
    BY <1>2, <1>3, <1>11, <2>1, CountParts DEF DumpOK
<1>14. ScopesOK'
  <2> HIDE DEF path
  <2>1. \A d \in decls' : d.path \in Seq(Words) /\ Len(d.path) >= 2 /\ d.path[1] = "tb"
    BY <1>5, <1>6, <1>9, CountParts DEF ScopesOK
  <2> QED
    BY <1>3, <2>1, CountParts DEF ScopesOK
<1>15. Owned' = IF kept THEN Owned \cup {d0} ELSE Owned
  <2> HIDE DEF path
  <2>1. \A d \in decls' : Len(d.path) > 2 /\ d.path[2] \in Owners <=>
                          d \in Owned \/ (kept /\ d = d0)
    <3>1. Len(d0.path) > 2 /\ d0.path[2] \in Owners <=> kept
      BY <1>5, <1>6
    <3>2. \A d \in decls : d \in Owned <=> Len(d.path) > 2 /\ d.path[2] \in Owners
      BY OwnersAre DEF Owned, Of
    <3>3. d0 \notin Owned
      BY <1>5, <1>9 DEF Owned, Of
    <3> QED
      BY <1>9, <3>1, <3>2, <3>3
  <2>2. Owned' = {d \in decls' : Len(d.path) > 2 /\ d.path[2] \in Owners}
    BY OwnersAre DEF Owned, Of
  <2>3. Owned \subseteq decls
    BY DEF Owned, Of
  <2> HIDE DEF kept
  <2> QED
    BY <1>9, <2>1, <2>2, <2>3
<1>16. MapsOK'
  <2>1. reader.id_maps \in Seq(Maps)
        /\ (\A d \in Owned : \E k \in DOMAIN reader.id_maps : reader.id_maps[k] = MapOf(d))
        /\ \A j, k \in DOMAIN reader.id_maps : reader.id_maps[j] = reader.id_maps[k] => j = k
    BY CountParts DEF MapsOK
  <2>2. /\ maps \in Seq(Maps')
        /\ \A d \in Owned' : \E k \in DOMAIN maps : maps[k] = MapOf(d)
        /\ \A j, k \in DOMAIN maps : maps[j] = maps[k] => j = k
    <3>1. CASE kept
      <4> DEFINE m == MapOf(d0)
                 ids == reader.id_maps
      <4>1. m \notin Maps
        <5> SUFFICES ASSUME NEW d \in Owned, MapOf(d) = m PROVE FALSE
          BY DEF Maps
        <5>1. d.path[2] = d0.path[2] /\ Tail2(d) = Tail2(d0)
          BY DEF MapOf
        <5>2. /\ d \in decls /\ Len(d.path) > 2 /\ d.path \in Seq(Words) /\ d.path[1] = "tb"
          BY CountParts DEF Owned, Of, ScopesOK
        <5>3. Len(d0.path) > 2 /\ d0.path \in Seq(Words) /\ d0.path[1] = "tb"
          BY <1>5, <1>6, <3>1
        <5>4. d.path = d0.path
          BY <5>1, <5>2, <5>3, PathsTell DEF Tail2
        <5> QED
          BY <1>5, <1>9, <5>2, <5>4
      <4>2. Maps' = Maps \cup {m}
        <5>1. Owned' = Owned \cup {d0}
          BY <1>15, <3>1
        <5> QED
          BY <5>1 DEF Maps
      <4>3. maps = Append(ids, m) /\ ids \in Seq(Maps) /\ ids \in Seq(Maps') /\ m \in Maps'
        <5>1. maps = Append(ids, m)
          BY <3>1
        <5> HIDE DEF m, maps
        <5> QED
          BY <2>1, <4>2, <5>1
      <4> HIDE DEF m, maps
      <4>4. /\ maps \in Seq(Maps') /\ DOMAIN maps = DOMAIN ids \cup {Len(ids) + 1}
            /\ Len(ids) + 1 \notin DOMAIN ids /\ maps[Len(ids) + 1] = m
            /\ \A k \in DOMAIN ids : maps[k] = ids[k] /\ ids[k] \in Maps
        BY <4>3
      <4>5. \A d \in Owned' : \E k \in DOMAIN maps : maps[k] = MapOf(d)
        <5>1. ASSUME NEW d \in Owned PROVE \E k \in DOMAIN maps : maps[k] = MapOf(d)
          BY <2>1, <4>4
        <5>2. \E k \in DOMAIN maps : maps[k] = MapOf(d0)
          BY <4>4 DEF m
        <5> HIDE DEF kept
        <5> QED
          BY <1>15, <3>1, <5>1, <5>2
      <4>6. \A j, k \in DOMAIN maps : maps[j] = maps[k] => j = k
        BY <2>1, <4>1, <4>4
      <4> QED
        BY <4>4, <4>5, <4>6
    <3>2. CASE ~kept
      <4>1. maps = reader.id_maps /\ Owned' = Owned
        BY <1>15, <3>2
      <4>2. Maps' = Maps
        BY <4>1 DEF Maps
      <4> QED
        BY <2>1, <4>1, <4>2
    <3> QED
      BY <3>1, <3>2
  <2> HIDE DEF maps
  <2>3. reader' = CountFields(stack, reader.in_defs, reader.id_maps, reader.prev, reader.counts)'
    BY <1>2, <1>3, <1>10, <1>11
  <2> QED
    BY <1>11, <2>2, <2>3 DEF MapsOK
<1>17. StartOK'
  BY <1>2, <1>11, CountParts DEF StartOK
<1> QED
  BY <1>11, <1>12, <1>13, <1>14, <1>16, <1>17 DEF RfOK, AluOK

\* In the header no net has flipped.
LEMMA NothingFlipped ==
    ASSUME DeclsOK, DumpOK, reader.in_defs = TRUE, NEW S \in SUBSET decls
    PROVE  SumFunctionOnSet(PathFlips, S) = 0
<1>1. IsFiniteSet(S)
  BY FS_Subset DEF DeclsOK
<1>2. \A d \in S : PathFlips[d] = 0
  BY DEF PathFlips, DeclsOK, DumpOK
<1> QED
  BY <1>1, <1>2, SumOfZeros

LEMMA CountEndDefinitions ==
    ASSUME CInv, packet \in AluPackets \cup RfPackets, EndDefinitions
    PROVE  DeclsOK' /\ DumpOK' /\ ScopesOK' /\ MapsOK' /\ StartOK' /\ RfOK' /\ AluOK'
<1> DEFINE line == [kind |-> "enddefinitions"]
<1>1. Read(line) /\ decls' = decls /\ nets' = nets /\ stack' = stack
  BY DEF EndDefinitions, dump
<1>2. reader.in_defs = TRUE
  BY CountParts DEF EndDefinitions, Header, MapsOK
<1>3. reader' = [reader EXCEPT !.in_defs = FALSE]
  <2>1. reader' = CountHeader(reader, line)
    BY <1>1, <1>2, CountReadsAlike
  <2> QED
    BY <2>1 DEF CountHeader
<1>4. reader' = CountFields(stack, FALSE, reader.id_maps, reader.prev, reader.counts)
  BY <1>3, CountParts, CountReaderIs
<1>5. /\ reader'.in_defs = FALSE /\ reader'.id_maps = reader.id_maps
      /\ reader'.prev = reader.prev /\ reader'.counts = reader.counts
  BY <1>4 DEF CountFields
<1>6. Declared' = Declared /\ Owned' = Owned /\ Maps' = Maps /\ Common' = Common
      /\ \A o : Of(o)' = Of(o) /\ Shared(o)' = Shared(o)
  BY <1>1 DEF Declared, Owned, Of, Maps, Common, Shared
<1>7. PathFlips' = PathFlips /\ \A i : IsKnown(i)' = IsKnown(i)
  BY <1>1 DEF PathFlips, IsKnown
<1>8. DeclsOK'
  BY <1>1, CountParts DEF DeclsOK
<1>9. DumpOK'
  BY <1>1, <1>5, <1>6, CountParts DEF DumpOK
<1>10. ScopesOK'
  BY <1>1, CountParts DEF ScopesOK
<1>11. MapsOK'
  <2>1. reader' = CountFields(stack, reader.in_defs, reader.id_maps, reader.prev, reader.counts)'
    BY <1>1, <1>4, <1>5
  <2> QED
    BY <1>5, <1>6, <2>1, CountParts DEF MapsOK
<1>12. \A i \in Idents : ~IsKnown(i)
  BY <1>2, CountParts DEF DumpOK, IsKnown
<1>13. reader'.prev = <<>> /\ \A o \in Owners : reader'.counts[o] = 0
  BY <1>2, <1>5, CountParts DEF StartOK
<1>14. DOMAIN reader'.prev = {}
  BY <1>13
<1>15. RfOK'
  <2>1. \A o \in Owners : SumFunctionOnSet(PathFlips, Of(o)) = 0
    BY <1>2, CountParts, NothingFlipped DEF Of
  <2>2. {i \in Idents : IsKnown(i) /\ \E d \in Owned : d.ident = i} = {}
    BY <1>12
  <2> QED
    BY <1>6, <1>7, <1>13, <1>14, <2>1, <2>2 DEF RfOK
<1>16. \A c \in Common : c.ident \in Idents
  BY CountParts, FiniteOwned DEF DeclsOK
<1>17. AluOK'
  <2>1. \A o \in Owners : SumFunctionOnSet(PathFlips, Shared(o)) = 0
    BY <1>2, CountParts, NothingFlipped DEF Of, Shared
  <2>2. {KeyOf(d) : d \in {c \in Common : IsKnown(c.ident)}} = {}
    BY <1>12, <1>16
  <2> QED
    BY <1>6, <1>7, <1>12, <1>13, <1>14, <1>16, <2>1, <2>2 DEF AluOK
<1> QED
  BY <1>5, <1>8, <1>9, <1>10, <1>11, <1>15, <1>17 DEF StartOK

-----------------------------------------------------------------------------
(* A change keeps it.                                                      *)

\* What a change does to its net.
LEMMA NetChanges ==
    ASSUME DumpOK, NEW i \in Idents, NEW v \in Values(Width[i]),
           NEW g, g = nets[i].flips + Flipped(nets[i].bits, v), NEW b \in Nat,
           nets' = [nets EXCEPT ![i] = [bits |-> v, flips |-> g, blurs |-> b]]
    PROVE  /\ Flipped(nets[i].bits, v) \in Nat /\ v # None
           /\ nets'[i] = [bits |-> v, flips |-> g, blurs |-> b]
           /\ nets'[i] \in [bits : Values(Width[i]) \cup {None}, flips : Nat, blurs : Nat]
           /\ \A j \in Idents : j # i => nets'[j] = nets[j]
           /\ nets' = [j \in Idents |-> nets'[j]]
<1>1. nets = [j \in Idents |-> nets[j]]
      /\ nets[i] \in [bits : Values(Width[i]) \cup {None}, flips : Nat, blurs : Nat]
  BY DEF DumpOK
<1>2. nets[i].bits \in Values(Width[i]) \cup {None} /\ nets[i].flips \in Nat
  BY <1>1
<1>3. None \notin Values(Width[i]) /\ Width[i] \in Nat
  BY Widths
<1>4. Flipped(nets[i].bits, v) \in Nat
  <2>1. CASE nets[i].bits \in Values(Width[i])
    <3>1. nets[i].bits \in Seq(Digits) /\ v \in Seq(Digits)
      BY <1>3, <2>1 DEF Values, Digits
    <3> QED
      BY <3>1, FlipsAre DEF Flipped
  <2>2. CASE nets[i].bits = None
    BY <2>2 DEF Flipped
  <2> QED
    BY <1>2, <2>1, <2>2
<1>5. nets' = [j \in Idents |-> IF j = i THEN [bits |-> v, flips |-> g, blurs |-> b] ELSE nets[j]]
  BY <1>1
<1>6. g \in Nat
  BY <1>2, <1>4
<1>7. nets'[i] = [bits |-> v, flips |-> g, blurs |-> b]
  BY <1>5
<1>8. \A j \in Idents : j # i => nets'[j] = nets[j]
  BY <1>5
<1>9. nets' = [j \in Idents |-> nets'[j]]
  BY <1>5
<1>10. nets'[i] \in [bits : Values(Width[i]) \cup {None}, flips : Nat, blurs : Nat]
  BY <1>6, <1>7
<1> QED
  BY <1>3, <1>4, <1>7, <1>8, <1>9, <1>10

\* What it does to a sum over declarations.
LEMMA PathsGain ==
    ASSUME DeclsOK, DumpOK, decls' = decls, NEW i \in Idents, NEW n \in Nat,
           nets'[i].flips = nets[i].flips + n,
           \A j \in Idents : j # i => nets'[j] = nets[j],
           NEW S \in SUBSET decls
    PROVE  SumFunctionOnSet(PathFlips', S) =
               SumFunctionOnSet(PathFlips, S) + n * Cardinality({d \in S : d.ident = i})
<1> DEFINE T == {d \in S : d.ident = i}
           f == PathFlips
           g == PathFlips'
<1>1. IsFiniteSet(S) /\ T \in SUBSET S
  BY FS_Subset DEF DeclsOK
<1>2. \A d \in S : f[d] = nets[d.ident].flips /\ g[d] = nets'[d.ident].flips
                   /\ d.ident \in Idents
  BY DEF PathFlips, DeclsOK
<1>3. \A d \in S : f[d] \in Nat
  BY <1>2 DEF DumpOK
<1>4. \A d \in S : g[d] = IF d \in T THEN f[d] + n ELSE f[d]
  BY <1>2
<1> HIDE DEF T, f, g
<1>5. SumFunctionOnSet(g, S) = SumFunctionOnSet(f, S) + n * Cardinality(T)
  BY <1>1, <1>3, <1>4, SumGains
<1> QED
  BY <1>5 DEF T, f, g

\* Each name of a net that counts for an owner was noted at one position.
LEMMA IdentMapsAre ==
    ASSUME DeclsOK, ScopesOK, MapsOK, NEW i
    PROVE  /\ \A k \in IdentMaps(reader, i) : reader.id_maps[k].width = Width[i]
           /\ IdentMaps(reader, i) = {} <=> ~\E d \in Owned : d.ident = i
           /\ {reader.id_maps[k] : k \in IdentMaps(reader, i)} =
                 {MapOf(d) : d \in {e \in Owned : e.ident = i}}
           /\ IdentMaps(reader, i) \in SUBSET Nat
           /\ \A o \in Owners :
                 Cardinality({k \in IdentMaps(reader, i) : reader.id_maps[k].owner = o}) =
                 Cardinality({d \in Of(o) : d.ident = i})
<1> DEFINE ids == reader.id_maps
           K == IdentMaps(reader, i)
<1>1. \A d \in Owned : /\ MapOf(d).ident = d.ident /\ MapOf(d).width = Width[d.ident]
                       /\ MapOf(d).owner = d.path[2] /\ MapOf(d).canon = Tail2(d)
  BY DEF MapOf
<1>2. /\ ids \in Seq(Maps)
      /\ \A d \in Owned : \E k \in DOMAIN ids : ids[k] = MapOf(d)
      /\ \A j, k \in DOMAIN ids : ids[j] = ids[k] => j = k
  BY DEF MapsOK
<1>3. \A k \in DOMAIN ids : \E d \in Owned : ids[k] = MapOf(d)
  <2>1. \A k \in DOMAIN ids : ids[k] \in Maps
    BY <1>2
  <2> QED
    BY <2>1 DEF Maps
<1>4. K = {k \in DOMAIN ids : ids[k].ident = i} /\ DOMAIN ids \subseteq Nat
  BY <1>2 DEF IdentMaps
<1> HIDE DEF ids, K
<1>5. \A k \in K : \E d \in Owned : ids[k] = MapOf(d) /\ d.ident = i
  BY <1>1, <1>3, <1>4
<1>6. \A d \in Owned : d.ident = i => \E k \in K : ids[k] = MapOf(d)
  BY <1>1, <1>2, <1>4
<1>7. ASSUME NEW o \in Owners
      PROVE  Cardinality({k \in K : ids[k].owner = o}) = Cardinality({d \in Of(o) : d.ident = i})
  <2> DEFINE T == {d \in Of(o) : d.ident = i}
             P == {k \in K : ids[k].owner = o}
             f == [d \in T |-> CHOOSE k \in K : ids[k] = MapOf(d)]
  <2>1. T \subseteq Owned /\ \A d \in Owned : d \in T <=> d.path[2] = o /\ d.ident = i
    BY OfAreOwned
  <2>2. \A d \in T : f[d] \in K /\ ids[f[d]] = MapOf(d)
    BY <1>6, <2>1
  <2>3. f \in [T -> P]
    BY <1>1, <2>1, <2>2
  <2> HIDE DEF f, T
  <2>4. \A d, e \in T : f[d] = f[e] => d = e
    <3> SUFFICES ASSUME NEW d \in T, NEW e \in T, f[d] = f[e] PROVE d = e
      OBVIOUS
    <3>1. MapOf(d) = MapOf(e) /\ d \in Owned /\ e \in Owned
      BY <2>1, <2>2
    <3>2. d.path[2] = e.path[2] /\ Tail2(d) = Tail2(e)
      BY <1>1, <3>1
    <3> QED
      BY <3>1, <3>2, KeysTell
  <2>5. \A k \in P : \E d \in T : f[d] = k
    <3> SUFFICES ASSUME NEW k \in P PROVE \E d \in T : f[d] = k
      OBVIOUS
    <3>1. PICK d \in Owned : ids[k] = MapOf(d) /\ d.ident = i
      BY <1>5
    <3>2. d \in T
      BY <1>1, <2>1, <3>1
    <3> QED
      BY <1>2, <1>4, <2>2, <3>1, <3>2
  <2> HIDE DEF P
  <2>6. f \in Bijection(T, P)
    <3>1. f \in Injection(T, P)
      BY <2>3, <2>4 DEF Injection, IsInjective
    <3>2. f \in Surjection(T, P)
      BY <2>3, <2>5 DEF Surjection
    <3> QED
      BY <3>1, <3>2 DEF Bijection
  <2>7. IsFiniteSet(T)
    BY <2>1, FiniteOwned, FS_Subset
  <2>8. ExistsBijection(T, P)
    BY <2>6 DEF ExistsBijection
  <2>9. Cardinality(P) = Cardinality(T)
    BY <2>7, <2>8, FS_Bijection
  <2> QED
    BY <2>9 DEF T, P
<1>8. \A k \in K : ids[k].width = Width[i]
  BY <1>1, <1>5
<1>9. K = {} <=> ~\E d \in Owned : d.ident = i
  BY <1>5, <1>6
<1>10. {ids[k] : k \in K} = {MapOf(d) : d \in {e \in Owned : e.ident = i}}
  BY <1>5, <1>6
<1> QED
  BY <1>4, <1>7, <1>8, <1>9, <1>10 DEF ids, K

\* As a register-file replay reads a change.
LEMMA RfChangeIs ==
    ASSUME DeclsOK, ScopesOK, MapsOK, DumpOK, RfOK, reader.in_defs = FALSE,
           NEW i \in Idents, NEW v \in Values(Width[i]), NEW line,
           line = [kind |-> "change", ident |-> i, value |-> Shortened(v)]
    PROVE  LET value == IF Known(v) THEN v ELSE None
               n == Flipped(nets[i].bits, v)
               noted == \E d \in Owned : d.ident = i
           IN  /\ noted => RfChange(reader, line) =
                    [reader EXCEPT
                        !.prev = Remember(reader.prev, [j \in {i} |-> value]),
                        !.counts = [o \in Owners |-> reader.counts[o] +
                                      n * Cardinality({d \in Of(o) : d.ident = i})]]
               /\ ~noted => RfChange(reader, line) = reader
<1> DEFINE maps == IdentMaps(reader, i)
           value == IF Known(v) THEN v ELSE None
           n == Flipped(nets[i].bits, v)
           size(o) == Cardinality({k \in maps : reader.id_maps[k].owner = o})
<1>1. line.ident = i /\ line.value = Shortened(v)
  OBVIOUS
<1>2. CASE ~\E d \in Owned : d.ident = i
  <2>1. IdentMaps(reader, line.ident) = {}
    BY <1>1, <1>2, IdentMapsAre
  <2>2. RfChange(reader, line) = reader
    BY <2>1 DEF RfChange
  <2> QED
    BY <1>2, <2>2
<1>3. CASE \E d \in Owned : d.ident = i
  <2>1. maps # {} /\ maps \in SUBSET Nat
    BY <1>3, IdentMapsAre
  <2> HIDE DEF maps
  <2>2. Min(maps) \in maps
    <3>1. \E k \in maps : \A j \in maps : k =< j
      BY <2>1, LeastNumber
    <3> QED
      BY <3>1 DEF Min
  <2> USE DEF maps
  <2>3. reader.id_maps[Min(maps)].width = Width[i]
    BY <2>2, IdentMapsAre
  <2>4. normalize(Shortened(v), Width[i]) = value
    BY Widths, NormalIs
  <2>5. Added(reader.prev, i, value) = n
    <3>1. i \in DOMAIN reader.prev <=> IsKnown(i)
      BY <1>3 DEF RfOK
    <3>2. i \in DOMAIN reader.prev => reader.prev[i] = nets[i].bits
      BY DEF RfOK
    <3>3. None \notin Values(Width[i])
      BY Widths
    <3> QED
      BY <3>1, <3>2, <3>3 DEF Added, Flipped, IsKnown
  <2>6. \A o \in Owners : size(o) = Cardinality({d \in Of(o) : d.ident = i})
    BY IdentMapsAre
  <2> HIDE DEF value, n
  <2>7. RfChange(reader, line) =
           [reader EXCEPT
              !.prev = Remember(@, [j \in {i} |-> value]),
              !.counts = [o \in Owners |-> @[o] + n * size(o)]]
    BY <1>1, <2>1, <2>3, <2>4, <2>5 DEF RfChange
  <2> HIDE DEF size, maps
  <2>8. [o \in Owners |-> reader.counts[o] + n * size(o)] =
          [o \in Owners |-> reader.counts[o] + n * Cardinality({d \in Of(o) : d.ident = i})]
    BY <2>6
  <2>9. RfChange(reader, line) =
           [reader EXCEPT
              !.prev = Remember(reader.prev, [j \in {i} |-> value]),
              !.counts = [o \in Owners |-> reader.counts[o] + n * size(o)]]
    BY <2>7
  <2> QED
    BY <1>3, <2>8, <2>9 DEF value, n
<1> QED
  BY <1>2, <1>3

\* As an ALU replay reads it.
LEMMA AluChangeIs ==
    ASSUME DeclsOK, ScopesOK, MapsOK, DumpOK, AluOK, reader.in_defs = FALSE,
           NEW i \in Idents, NEW v \in Values(Width[i]), NEW line,
           line = [kind |-> "change", ident |-> i, value |-> Shortened(v)]
    PROVE  LET value == IF Known(v) THEN v ELSE None
               n == Flipped(nets[i].bits, v)
               hit == {d \in Common : d.ident = i}
           IN  n \in Nat =>
               AluChange(reader, line) =
                  [reader EXCEPT
                      !.prev = Remember(reader.prev, [k \in {KeyOf(d) : d \in hit} |-> value]),
                      !.counts = [o \in Owners |-> reader.counts[o] +
                                    n * Cardinality({d \in Shared(o) : d.ident = i})]]
<1> DEFINE value == IF Known(v) THEN v ELSE None
           n == Flipped(nets[i].bits, v)
           hit == {d \in Common : d.ident = i}
           keys == {KeyOf(d) : d \in hit}
           maps == {m \in {reader.id_maps[k] : k \in IdentMaps(reader, line.ident)} :
                       CommonPath(reader, m.canon)}
           key(m) == <<m.owner, m.canon>>
           new == [k \in {key(m) : m \in maps} |->
                      normalize(line.value, (CHOOSE m \in maps : key(m) = k).width)]
           flips == [m \in maps |-> Added(reader.prev, key(m), new[key(m)])]
           sum(o) == SumFunctionOnSet(flips, {m \in maps : m.owner = o})
<1> SUFFICES ASSUME n \in Nat
             PROVE  AluChange(reader, line) =
                      [reader EXCEPT
                          !.prev = Remember(reader.prev, [k \in keys |-> value]),
                          !.counts = [o \in Owners |-> reader.counts[o] +
                                        n * Cardinality({d \in Shared(o) : d.ident = i})]]
  OBVIOUS
<1>1. line.ident = i /\ line.value = Shortened(v)
  OBVIOUS
<1>2. AluChange(reader, line) =
         [reader EXCEPT !.prev = Remember(@, new), !.counts = [o \in Owners |-> @[o] + sum(o)]]
  BY DEF AluChange
<1>3. \A d \in Owned : /\ MapOf(d).ident = d.ident /\ MapOf(d).width = Width[d.ident]
                       /\ MapOf(d).owner = d.path[2] /\ MapOf(d).canon = Tail2(d)
                       /\ key(MapOf(d)) = KeyOf(d)
  BY DEF MapOf, KeyOf
<1>4. maps = {MapOf(d) : d \in hit}
  <2>1. {reader.id_maps[k] : k \in IdentMaps(reader, line.ident)} =
          {MapOf(d) : d \in {e \in Owned : e.ident = i}}
    BY <1>1, IdentMapsAre
  <2>2. \A d \in Owned : CommonPath(reader, MapOf(d).canon) <=> d \in Common
    BY <1>3, CommonIs
  <2>3. Common \subseteq Owned
    BY FiniteOwned
  <2> QED
    BY <2>1, <2>2, <2>3
<1>5. \A d \in hit : d \in Owned /\ d.ident = i
  BY FiniteOwned
<1> HIDE DEF maps, hit
<1>6. {key(m) : m \in maps} = keys
  BY <1>3, <1>4, <1>5
<1>7. new = [k \in keys |-> value]
  <2>1. ASSUME NEW k \in keys
        PROVE  normalize(line.value, (CHOOSE m \in maps : key(m) = k).width) = value
    <3> DEFINE m == CHOOSE m \in maps : key(m) = k
    <3>1. \E x \in maps : key(x) = k
      BY <1>6
    <3>2. m \in maps
      BY <3>1
    <3> HIDE DEF m
    <3>3. m.width = Width[i]
      BY <1>3, <1>4, <1>5, <3>2
    <3>4. normalize(Shortened(v), Width[i]) = value
      BY Widths, NormalIs
    <3> QED
      BY <1>1, <3>3, <3>4 DEF m
  <2> HIDE DEF keys, value
  <2> QED
    BY <1>6, <2>1
<1>8. \A m \in maps : flips[m] = n
  <2> SUFFICES ASSUME NEW m \in maps PROVE flips[m] = n
    OBVIOUS
  <2>1. PICK d \in hit : m = MapOf(d)
    BY <1>4
  <2>2. key(m) = KeyOf(d) /\ KeyOf(d) \in keys /\ d \in Common /\ d.ident = i /\ d \in Owned
    BY <1>3, <1>5, <2>1 DEF hit
  <2>3. flips[m] = Added(reader.prev, KeyOf(d), value)
    <3>1. flips[m] = Added(reader.prev, key(m), new[key(m)])
      OBVIOUS
    <3> HIDE DEF new, flips, keys, value
    <3> QED
      BY <1>7, <2>2, <3>1
  <2>4. KeyOf(d) \in DOMAIN reader.prev <=> IsKnown(i)
    <3>1. DOMAIN reader.prev = {KeyOf(c) : c \in {c \in Common : IsKnown(c.ident)}}
      BY DEF AluOK
    <3>2. ASSUME NEW c \in Common, KeyOf(c) = KeyOf(d) PROVE c = d
      <4>1. c \in Owned /\ c.path[2] = d.path[2] /\ Tail2(c) = Tail2(d)
        BY <3>2, FiniteOwned DEF KeyOf
      <4> QED
        BY <2>2, <4>1, KeysTell
    <3> QED
      BY <2>2, <3>1, <3>2
  <2>5. IsKnown(i) => reader.prev[KeyOf(d)] = nets[i].bits
    BY <2>2 DEF AluOK
  <2>6. None \notin Values(Width[i])
    BY Widths
  <2>7. Added(reader.prev, KeyOf(d), value) = n
    BY <2>4, <2>5, <2>6 DEF Added, Flipped, IsKnown
  <2> QED
    BY <2>3, <2>7
<1> HIDE DEF flips, new, n, value, keys
<1>9. ASSUME NEW o \in Owners
      PROVE  sum(o) = n * Cardinality({d \in Shared(o) : d.ident = i})
  <2> DEFINE T == {d \in Shared(o) : d.ident = i}
             P == {m \in maps : m.owner = o}
             f == [d \in T |-> MapOf(d)]
  <2>1. T = {d \in hit : d.path[2] = o}
    BY OfAreOwned DEF hit
  <2>2. \A d \in T : f[d] = MapOf(d) /\ d \in Owned
    BY <1>5, <2>1
  <2>3. f \in [T -> P]
    BY <1>3, <1>4, <1>5, <2>1
  <2>4. \A m \in P : \E d \in T : f[d] = m
    BY <1>3, <1>4, <1>5, <2>1
  <2> HIDE DEF f, T, P
  <2>5. \A d, e \in T : f[d] = f[e] => d = e
    <3> SUFFICES ASSUME NEW d \in T, NEW e \in T, f[d] = f[e] PROVE d = e
      OBVIOUS
    <3>1. d.path[2] = e.path[2] /\ Tail2(d) = Tail2(e) /\ d \in Owned /\ e \in Owned
      BY <1>3, <2>2
    <3> QED
      BY <3>1, KeysTell
  <2>6. f \in Bijection(T, P)
    <3>1. f \in Injection(T, P)
      BY <2>3, <2>5 DEF Injection, IsInjective
    <3>2. f \in Surjection(T, P)
      BY <2>3, <2>4 DEF Surjection
    <3> QED
      BY <3>1, <3>2 DEF Bijection
  <2>7. IsFiniteSet(T)
    <3>1. T \subseteq Owned /\ IsFiniteSet(Owned)
      BY <2>2, FiniteOwned
    <3> QED
      BY <3>1, FS_Subset
  <2>8. ExistsBijection(T, P)
    BY <2>6 DEF ExistsBijection
  <2>9. IsFiniteSet(P) /\ Cardinality(P) = Cardinality(T)
    BY <2>7, <2>8, FS_Bijection
  <2>10. \A m \in P : flips[m] = n
    BY <1>8 DEF P
  <2>11. SumFunctionOnSet(flips, P) = n * Cardinality(P)
    BY <2>9, <2>10, SumOfEquals
  <2> QED
    BY <2>9, <2>11 DEF T, P
<1> HIDE DEF sum
<1>10. [o \in Owners |-> reader.counts[o] + sum(o)] =
         [o \in Owners |-> reader.counts[o] + n * Cardinality({d \in Shared(o) : d.ident = i})]
  BY <1>9
<1>11. AluChange(reader, line) =
         [reader EXCEPT !.prev = Remember(reader.prev, new),
                        !.counts = [o \in Owners |-> reader.counts[o] + sum(o)]]
  BY <1>2
<1> QED
  BY <1>7, <1>10, <1>11

\* What a change leaves of what was noted.
LEMMA MapsKeep ==
    ASSUME MapsOK, UNCHANGED <<decls, stack>>, NEW d \in BOOLEAN, NEW p, NEW c,
           reader' = CountFields(stack, d, reader.id_maps, p, c)
    PROVE  /\ MapsOK'
           /\ reader'.in_defs = d /\ reader'.id_maps = reader.id_maps
           /\ reader'.prev = p /\ reader'.counts = c
<1>1. /\ reader'.in_defs = d /\ reader'.id_maps = reader.id_maps
      /\ reader'.prev = p /\ reader'.counts = c
  BY DEF CountFields
<1>2. Owned' = Owned /\ Maps' = Maps
  BY DEF Owned, Of, Maps
<1>3. reader' = CountFields(stack, reader.in_defs, reader.id_maps, reader.prev, reader.counts)'
  BY <1>1
<1>4. MapsOK'
  BY <1>1, <1>2, <1>3 DEF MapsOK
<1> QED
  BY <1>1, <1>4

\* The counts of a register-file replay follow a change.
LEMMA RfFollows ==
    ASSUME DeclsOK, DumpOK, ScopesOK, MapsOK, RfOK, reader.in_defs = FALSE,
           NEW i \in Idents, NEW v \in Values(Width[i]), v # None,
           NEW n \in Nat, n = Flipped(nets[i].bits, v),
           nets'[i].bits = v, nets'[i].flips = nets[i].flips + n,
           \A j \in Idents : j # i => nets'[j] = nets[j],
           UNCHANGED <<decls, stack>>,
           reader' = RfChange(reader, [kind |-> "change", ident |-> i, value |-> Shortened(v)])
    PROVE  RfOK' /\ MapsOK' /\ reader'.in_defs = FALSE
<1> DEFINE line == [kind |-> "change", ident |-> i, value |-> Shortened(v)]
           value == IF Known(v) THEN v ELSE None
           noted == \E d \in Owned : d.ident = i
           new == [j \in {i} |-> value]
           T(o) == {d \in Of(o) : d.ident = i}
           counts == IF noted THEN [o \in Owners |-> reader.counts[o] + n * Cardinality(T(o))]
                     ELSE reader.counts
           prev == IF noted THEN Remember(reader.prev, new) ELSE reader.prev
<1>1. reader' = IF noted THEN [reader EXCEPT !.prev = prev, !.counts = counts] ELSE reader
  <2> DEFINE m == Flipped(nets[i].bits, v)
  <2>1. noted => RfChange(reader, line) =
           [reader EXCEPT !.prev = Remember(reader.prev, new),
                          !.counts = [o \in Owners |-> reader.counts[o] + m * Cardinality(T(o))]]
    BY RfChangeIs
  <2>4. ~noted => RfChange(reader, line) = reader
    BY RfChangeIs
  <2>2. reader' = RfChange(reader, line)
    OBVIOUS
  <2>3. m = n
    OBVIOUS
  <2> HIDE DEF new, T, noted, m, line
  <2> QED
    BY <2>1, <2>2, <2>3, <2>4
<1> HIDE DEF prev, counts, noted
<1>2. reader' = CountFields(stack, reader.in_defs, reader.id_maps, prev, counts)
  <2>1. CASE noted
    BY <1>1, <2>1, CountReaderIs
  <2>2. CASE ~noted
    <3>1. prev = reader.prev /\ counts = reader.counts
      BY <2>2 DEF prev, counts
    <3>2. reader' = reader
      BY <1>1, <2>2
    <3>3. reader = CountFields(stack, reader.in_defs, reader.id_maps, reader.prev, reader.counts)
      BY CountReaderIs
    <3> QED
      BY <3>1, <3>2, <3>3
  <2> QED
    BY <2>1, <2>2
<1>3. /\ MapsOK' /\ reader'.in_defs = FALSE
      /\ reader'.prev = prev /\ reader'.counts = counts
  BY <1>2, MapsKeep
<1>4. Owned' = Owned /\ Of("gold")' = Of("gold") /\ Of("gate")' = Of("gate")
      /\ decls' = decls
  BY DEF Owned, Of
<1>6. \A j \in Idents : IsKnown(j)' <=> IF j = i THEN Known(v) ELSE IsKnown(j)
  BY DEF IsKnown
<1>7. /\ DOMAIN reader.prev = {j \in Idents : IsKnown(j) /\ \E d \in Owned : d.ident = j}
      /\ \A j \in DOMAIN reader.prev : reader.prev[j] = nets[j].bits
      /\ \A o \in Owners : reader.counts[o] = SumFunctionOnSet(PathFlips, Of(o))
  BY DEF RfOK
<1>8. /\ DOMAIN prev = {j \in Idents : IsKnown(j)' /\ \E d \in Owned : d.ident = j}
      /\ \A j \in DOMAIN prev : prev[j] = nets'[j].bits
  <2>1. CASE noted
    <3>1. DOMAIN new = {i} /\ new[i] = value
      OBVIOUS
    <3>2. value # None <=> Known(v)
      OBVIOUS
    <3>3. value # None => value = v
      OBVIOUS
    <3>4. prev = Remember(reader.prev, new)
      BY <2>1 DEF prev
    <3> HIDE DEF new, value
    <3>5. DOMAIN prev = {k \in DOMAIN reader.prev \cup {i} : k = i => Known(v)}
      BY <3>1, <3>2, <3>4 DEF Remember
    <3>6. \A k \in DOMAIN prev : prev[k] = IF k = i THEN value ELSE reader.prev[k]
      BY <3>1, <3>4, <3>5 DEF Remember
    <3>7. DOMAIN prev = {j \in Idents : IsKnown(j)' /\ \E d \in Owned : d.ident = j}
      BY <1>6, <1>7, <2>1, <3>5 DEF noted
    <3>8. \A j \in DOMAIN prev : prev[j] = nets'[j].bits
      BY <1>7, <3>2, <3>3, <3>5, <3>6
    <3> QED
      BY <3>7, <3>8
  <2>2. CASE ~noted
    <3>1. prev = reader.prev
      BY <2>2 DEF prev
    <3> QED
      BY <1>6, <1>7, <2>2, <3>1 DEF noted
  <2> QED
    BY <2>1, <2>2
<1>9. ASSUME NEW o \in Owners
      PROVE  counts[o] = SumFunctionOnSet(PathFlips', Of(o))
  <2>1. SumFunctionOnSet(PathFlips', Of(o)) =
          SumFunctionOnSet(PathFlips, Of(o)) + n * Cardinality(T(o))
    <3>1. Of(o) \in SUBSET decls
      BY DEF Of
    <3> QED
      BY <1>4, <3>1, PathsGain
  <2>2. CASE noted
    <3> HIDE DEF T
    <3>1. counts[o] = reader.counts[o] + n * Cardinality(T(o))
      BY <2>2 DEF counts
    <3> QED
      BY <1>7, <2>1, <3>1
  <2>3. CASE ~noted
    <3>1. T(o) = {}
      BY <2>3, OfAreOwned DEF noted
    <3>2. Cardinality(T(o)) = 0
      BY <3>1, FS_EmptySet
    <3>3. IsFiniteSet(Of(o)) /\ \A d \in Of(o) : PathFlips[d] \in Nat
      <4>1. Of(o) \in SUBSET decls /\ \A d \in Of(o) : d \in decls
        BY DEF Of
      <4>2. \A d \in Of(o) : PathFlips[d] \in Nat
        BY <4>1 DEF PathFlips, DeclsOK, DumpOK
      <4> QED
        BY <4>1, <4>2, FS_Subset DEF DeclsOK
    <3>4. SumFunctionOnSet(PathFlips, Of(o)) \in Nat
      BY <3>3, SumIsNat
    <3>5. counts = reader.counts
      BY <2>3 DEF counts
    <3> HIDE DEF T
    <3> QED
      BY <1>7, <2>1, <3>2, <3>4, <3>5
  <2> QED
    BY <2>2, <2>3
<1>10. RfOK'
  <2>1. \A o \in Owners : Of(o)' = Of(o)
    BY <1>4, OwnersAre
  <2> QED
    BY <1>3, <1>4, <1>8, <1>9, <2>1 DEF RfOK
<1> QED
  BY <1>3, <1>10

\* Those of an ALU replay do.
LEMMA AluFollows ==
    ASSUME DeclsOK, DumpOK, ScopesOK, MapsOK, AluOK, reader.in_defs = FALSE,
           NEW i \in Idents, NEW v \in Values(Width[i]), v # None,
           NEW n \in Nat, n = Flipped(nets[i].bits, v),
           nets'[i].bits = v, nets'[i].flips = nets[i].flips + n,
           \A j \in Idents : j # i => nets'[j] = nets[j],
           UNCHANGED <<decls, stack>>,
           reader' = AluChange(reader, [kind |-> "change", ident |-> i, value |-> Shortened(v)])
    PROVE  AluOK' /\ MapsOK' /\ reader'.in_defs = FALSE
<1> DEFINE line == [kind |-> "change", ident |-> i, value |-> Shortened(v)]
           value == IF Known(v) THEN v ELSE None
           hit == {d \in Common : d.ident = i}
           keys == {KeyOf(d) : d \in hit}
           new == [k \in keys |-> value]
           T(o) == {d \in Shared(o) : d.ident = i}
           counts == [o \in Owners |-> reader.counts[o] + n * Cardinality(T(o))]
           prev == Remember(reader.prev, new)
<1>1. reader' = [reader EXCEPT !.prev = prev, !.counts = counts]
  <2> DEFINE m == Flipped(nets[i].bits, v)
  <2>1. m \in Nat => AluChange(reader, line) =
           [reader EXCEPT !.prev = prev,
                          !.counts = [o \in Owners |-> reader.counts[o] + m * Cardinality(T(o))]]
    BY AluChangeIs
  <2>2. reader' = AluChange(reader, line)
    OBVIOUS
  <2>3. m = n
    OBVIOUS
  <2> HIDE DEF prev, T, m, line
  <2> QED
    BY <2>1, <2>2, <2>3
<1> HIDE DEF prev, counts
<1>2. reader' = CountFields(stack, reader.in_defs, reader.id_maps, prev, counts)
  BY <1>1, CountReaderIs
<1>3. /\ MapsOK' /\ reader'.in_defs = FALSE
      /\ reader'.prev = prev /\ reader'.counts = counts
  BY <1>2, MapsKeep
<1>4. Common' = Common /\ decls' = decls
      /\ Shared("gold")' = Shared("gold") /\ Shared("gate")' = Shared("gate")
  BY DEF Of, Common, Shared
<1>6. \A j \in Idents : IsKnown(j)' <=> IF j = i THEN Known(v) ELSE IsKnown(j)
  BY DEF IsKnown
<1>7. /\ DOMAIN reader.prev = {KeyOf(d) : d \in {c \in Common : IsKnown(c.ident)}}
      /\ \A d \in Common : IsKnown(d.ident) => reader.prev[KeyOf(d)] = nets[d.ident].bits
      /\ \A o \in Owners : reader.counts[o] = SumFunctionOnSet(PathFlips, Shared(o))
  BY DEF AluOK
<1>8. \A d \in Common : d.ident \in Idents
  BY FiniteOwned DEF DeclsOK
<1>9. ASSUME NEW c \in Common, NEW d \in Common, KeyOf(c) = KeyOf(d)
      PROVE  c = d
  <2>1. c \in Owned /\ d \in Owned /\ c.path[2] = d.path[2] /\ Tail2(c) = Tail2(d)
    BY <1>9, FiniteOwned DEF KeyOf
  <2> QED
    BY <2>1, KeysTell
<1>10. \A d \in Common : KeyOf(d) \in keys <=> d.ident = i
  BY <1>9
<1>11. /\ DOMAIN prev = {KeyOf(d) : d \in {c \in Common : IsKnown(c.ident)'}}
       /\ \A d \in Common : IsKnown(d.ident)' => prev[KeyOf(d)] = nets'[d.ident].bits
  <2>1. DOMAIN new = keys /\ \A k \in keys : new[k] = value
    OBVIOUS
  <2>2. (value # None <=> Known(v)) /\ (value # None => value = v)
    OBVIOUS
  <2>3. \A k \in keys : \E d \in Common : k = KeyOf(d)
    OBVIOUS
  <2> HIDE DEF keys, hit, new, value
  <2>4. DOMAIN prev = {k \in DOMAIN reader.prev \cup keys : k \in keys => Known(v)}
    BY <2>1, <2>2 DEF prev, Remember
  <2>5. \A k \in DOMAIN prev : prev[k] = IF k \in keys THEN value ELSE reader.prev[k]
    BY <2>1, <2>4 DEF prev, Remember
  <2>6. \A k \in DOMAIN prev : \E d \in Common : k = KeyOf(d)
    BY <1>7, <2>3, <2>4
  <2>7. \A d \in Common : KeyOf(d) \in DOMAIN reader.prev <=> IsKnown(d.ident)
    BY <1>7, <1>9
  <2>8. \A d \in Common : IsKnown(d.ident)' <=> IF d.ident = i THEN Known(v) ELSE IsKnown(d.ident)
    BY <1>6, <1>8
  <2>9. \A d \in Common : KeyOf(d) \in DOMAIN prev <=> IsKnown(d.ident)'
    BY <1>10, <2>4, <2>7, <2>8
  <2>10. DOMAIN prev = {KeyOf(d) : d \in {c \in Common : IsKnown(c.ident)'}}
    BY <2>6, <2>9
  <2>11. ASSUME NEW d \in Common, IsKnown(d.ident)'
         PROVE  prev[KeyOf(d)] = nets'[d.ident].bits
    <3>1. prev[KeyOf(d)] = IF d.ident = i THEN value ELSE reader.prev[KeyOf(d)]
      BY <1>10, <2>5, <2>9, <2>11
    <3>2. CASE d.ident = i
      BY <2>2, <2>8, <2>11, <3>1, <3>2
    <3>3. CASE d.ident # i
      BY <1>7, <1>8, <2>8, <2>11, <3>1, <3>3
    <3> QED
      BY <3>2, <3>3
  <2> QED
    BY <2>10, <2>11
<1>12. ASSUME NEW o \in Owners
       PROVE  counts[o] = SumFunctionOnSet(PathFlips', Shared(o))
  <2>1. SumFunctionOnSet(PathFlips', Shared(o)) =
          SumFunctionOnSet(PathFlips, Shared(o)) + n * Cardinality(T(o))
    <3>1. Shared(o) \in SUBSET decls
      BY DEF Of, Shared
    <3> QED
      BY <1>4, <3>1, PathsGain
  <2> HIDE DEF T
  <2>2. counts[o] = reader.counts[o] + n * Cardinality(T(o))
    BY DEF counts
  <2> QED
    BY <1>7, <2>1, <2>2
<1>13. AluOK'
  <2>1. \A o \in Owners : Shared(o)' = Shared(o)
    BY <1>4, OwnersAre
  <2> QED
    BY <1>3, <1>4, <1>11, <1>12, <2>1 DEF AluOK
<1> QED
  BY <1>3, <1>13

LEMMA CountDumpChange ==
    ASSUME CInv, packet \in AluPackets \cup RfPackets, DumpChange
    PROVE  /\ DeclsOK' /\ DumpOK' /\ ScopesOK' /\ MapsOK' /\ StartOK'
           /\ packet \in RfPackets => RfOK'
           /\ packet \in AluPackets => AluOK'
<1>1. PICK i \in Declared : \E v \in Values(Width[i]) :
        LET old == nets[i].bits
            known == old # None /\ Known(old) /\ Known(v)
            blur == old # None /\ old # v /\ ~known
        IN  /\ nets' = [nets EXCEPT ![i] =
                   [bits |-> v,
                    flips |-> @.flips + (IF known THEN Flips(old, v) ELSE 0),
                    blurs |-> @.blurs + (IF blur THEN 1 ELSE 0)]]
            /\ Read([kind |-> "change", ident |-> i, value |-> Shortened(v)])
  BY DEF DumpChange, Declared
<1>2. PICK v \in Values(Width[i]) :
        LET old == nets[i].bits
            known == old # None /\ Known(old) /\ Known(v)
            blur == old # None /\ old # v /\ ~known
        IN  /\ nets' = [nets EXCEPT ![i] =
                   [bits |-> v,
                    flips |-> @.flips + (IF known THEN Flips(old, v) ELSE 0),
                    blurs |-> @.blurs + (IF blur THEN 1 ELSE 0)]]
            /\ Read([kind |-> "change", ident |-> i, value |-> Shortened(v)])
  BY <1>1
<1> DEFINE line == [kind |-> "change", ident |-> i, value |-> Shortened(v)]
           old == nets[i].bits
           n == Flipped(old, v)
           g == nets[i].flips + n
           b == nets[i].blurs + Blurred(old, v)
<1>3. reader.in_defs = FALSE /\ decls' = decls /\ stack' = stack /\ Declared' = Declared
  BY CountParts DEF DumpChange, Header, MapsOK, Declared
<1>4. nets' = [nets EXCEPT ![i] = [bits |-> v, flips |-> g, blurs |-> b]]
  BY <1>2 DEF Flipped, Blurred
<1>5. i \in Idents
  BY CountParts DEF DeclsOK, Declared
<1>6. b \in Nat
  <2>1. nets[i].blurs \in Nat
    BY <1>5, CountParts DEF DumpOK
  <2> QED
    BY <2>1 DEF Blurred
<1> HIDE DEF b
<1>7. /\ n \in Nat /\ v # None
      /\ nets'[i] = [bits |-> v, flips |-> g, blurs |-> b]
      /\ nets'[i] \in [bits : Values(Width[i]) \cup {None}, flips : Nat, blurs : Nat]
      /\ \A j \in Idents : j # i => nets'[j] = nets[j]
      /\ nets' = [j \in Idents |-> nets'[j]]
  BY <1>4, <1>5, <1>6, CountParts, NetChanges
<1>8. nets'[i].bits = v /\ nets'[i].flips = nets[i].flips + n
  BY <1>7
<1>9. /\ packet \in RfPackets => reader' = RfChange(reader, line)
      /\ packet \in AluPackets => reader' = AluChange(reader, line)
  <2>1. Read(line)
    BY <1>2
  <2> HIDE DEF line
  <2> QED
    BY <1>3, <2>1, CountReadsAlike
<1>10. DeclsOK'
  BY <1>3, CountParts DEF DeclsOK
<1>11. ScopesOK'
  BY <1>3, CountParts DEF ScopesOK
<1>12. ASSUME packet \in RfPackets
       PROVE  RfOK' /\ MapsOK' /\ reader'.in_defs = FALSE
  <2> HIDE DEF n
  <2>1. n = Flipped(nets[i].bits, v)
    BY DEF n
  <2> QED
    BY <1>3, <1>5, <1>7, <1>8, <1>9, <1>12, <2>1, CountParts, RfFollows
<1>13. ASSUME packet \in AluPackets
       PROVE  AluOK' /\ MapsOK' /\ reader'.in_defs = FALSE
  <2> HIDE DEF n
  <2>1. n = Flipped(nets[i].bits, v)
    BY DEF n
  <2> QED
    BY <1>3, <1>5, <1>7, <1>8, <1>9, <1>13, <2>1, CountParts, AluFollows
<1>14. MapsOK' /\ reader'.in_defs = FALSE
  BY <1>12, <1>13
<1>15. DumpOK'
  <2>1. \A j \in Idents : nets'[j] \in [bits : Values(Width[j]) \cup {None}, flips : Nat, blurs : Nat]
    BY <1>7, CountParts DEF DumpOK
  <2>2. \A j \in Idents : nets'[j].bits # None => j \in Declared
    BY <1>7, CountParts DEF DumpOK
  <2> QED
    BY <1>3, <1>7, <1>14, <2>1, <2>2 DEF DumpOK
<1> QED
  BY <1>10, <1>11, <1>12, <1>13, <1>14, <1>15 DEF StartOK

-----------------------------------------------------------------------------
(* The counts of the ALU and register-file replays.                        *)

LEMMA CInvStep == CInv /\ [Next]_vars => CInv'
<1> SUFFICES ASSUME CInv, [Next]_vars PROVE CInv'
  OBVIOUS
<1>1. packet' = packet
  BY DEF Next, vars, OpenScope, CloseScope, DeclareVar, EndDefinitions, DumpChange, Read
<1> SUFFICES ASSUME packet \in AluPackets \cup RfPackets
             PROVE  /\ DeclsOK' /\ DumpOK' /\ ScopesOK' /\ MapsOK' /\ StartOK'
                    /\ packet \in RfPackets => RfOK'
                    /\ packet \in AluPackets => AluOK'
  BY <1>1 DEF CInv
<1>2. CASE OpenScope
  BY <1>2, CountOpenScope
<1>3. CASE CloseScope
  BY <1>3, CountCloseScope
<1>4. CASE DeclareVar
  BY <1>4, CountDeclareVar
<1>5. CASE EndDefinitions
  BY <1>5, CountEndDefinitions
<1>6. CASE DumpChange
  BY <1>6, CountDumpChange
<1>7. CASE UNCHANGED vars
  <2>1. reader' = reader /\ stack' = stack /\ decls' = decls /\ nets' = nets
    BY <1>7 DEF vars
  <2>2. Declared' = Declared /\ Owned' = Owned /\ Maps' = Maps /\ Common' = Common
        /\ PathFlips' = PathFlips
    BY <2>1 DEF Declared, Owned, Of, Maps, Common, Shared, PathFlips
  <2>3. DeclsOK'
    BY <2>1, CountParts DEF DeclsOK
  <2>4. DumpOK'
    BY <2>1, <2>2, CountParts, Zenon DEF DumpOK
  <2>5. ScopesOK' /\ StartOK'
    BY <2>1, CountParts, Zenon DEF ScopesOK, StartOK
  <2>6. MapsOK'
    BY <2>1, <2>2, CountParts, Zenon DEF MapsOK
  <2>7. packet \in RfPackets => RfOK'
    <3>1. \A o : Of(o)' = Of(o)
      BY <2>1 DEF Of
    <3>2. \A j : IsKnown(j)' = IsKnown(j)
      BY <2>1 DEF IsKnown
    <3> QED
      BY <2>1, <2>2, <3>1, <3>2, CountParts DEF RfOK
  <2>8. packet \in AluPackets => AluOK'
    <3>1. \A o : Shared(o)' = Shared(o)
      BY <2>1 DEF Of, Shared
    <3>2. \A j : IsKnown(j)' = IsKnown(j)
      BY <2>1 DEF IsKnown
    <3> QED
      BY <2>1, <2>2, <3>1, <3>2, CountParts DEF AluOK
  <2> QED
    BY <2>3, <2>4, <2>5, <2>6, <2>7, <2>8
<1> QED
  BY <1>2, <1>3, <1>4, <1>5, <1>6, <1>7 DEF Next

LEMMA CountsAreExact == CInv => AluCountsExact /\ RfCountsExact
<1> SUFFICES ASSUME CInv PROVE AluCountsExact /\ RfCountsExact
  OBVIOUS
<1>1. ASSUME packet \in RfPackets, NEW o \in Owners
      PROVE  reader.counts[o] = SumFunctionOnSet(PathFlips, Of(o))
  <2>1. CASE reader.in_defs = TRUE
    <3>1. Of(o) \in SUBSET decls
      BY DEF Of
    <3>2. reader.counts[o] = 0
      BY <1>1, <2>1, CountParts DEF StartOK
    <3> QED
      BY <1>1, <2>1, <3>1, <3>2, CountParts, NothingFlipped
  <2>2. CASE reader.in_defs # TRUE
    BY <1>1, <2>2, CountParts DEF RfOK, MapsOK
  <2> QED
    BY <2>1, <2>2
<1>2. ASSUME packet \in AluPackets, NEW o \in Owners
      PROVE  reader.counts[o] = SumFunctionOnSet(PathFlips, Shared(o))
  <2>1. CASE reader.in_defs = TRUE
    <3>1. Shared(o) \in SUBSET decls
      BY DEF Of, Shared
    <3>2. reader.counts[o] = 0
      BY <1>2, <2>1, CountParts DEF StartOK
    <3> QED
      BY <1>2, <2>1, <3>1, <3>2, CountParts, NothingFlipped
  <2>2. CASE reader.in_defs # TRUE
    BY <1>2, <2>2, CountParts DEF AluOK, MapsOK
  <2> QED
    BY <2>1, <2>2
<1> QED
  BY <1>1, <1>2 DEF AluCountsExact, RfCountsExact, Shared, Other

\* An ALU replay's count of a side is exactly the flips of the nets behind the paths
\* both sides have in one width, whatever the header, the aliases, the widths, the
\* digits left out and the unknown values between: nothing is counted for the wrong
\* side, twice or not at all.
THEOREM SharedPathsCounted == Spec => []AluCountsExact
<1>1. Init => CInv
  BY CInvInit
<1>2. CInv /\ [Next]_vars => CInv'
  BY CInvStep
<1>3. CInv => AluCountsExact
  BY CountsAreExact
<1> QED
  BY <1>1, <1>2, <1>3, PTL DEF Spec

\* A register-file replay's count of a side is the flips of all the side's paths,
\* each alias of a net counted.
THEOREM AllPathsCounted == Spec => []RfCountsExact
<1>1. Init => CInv
  BY CInvInit
<1>2. CInv /\ [Next]_vars => CInv'
  BY CInvStep
<1>3. CInv => RfCountsExact
  BY CountsAreExact
<1> QED
  BY <1>1, <1>2, <1>3, PTL DEF Spec
=============================================================================
