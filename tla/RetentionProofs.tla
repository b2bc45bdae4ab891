---------------------------- MODULE RetentionProofs ----------------------------
(***************************************************************************)
(* Proofs about Retention, for any finite set of streams, any sizes, disk, *)
(* limits and headroom.                                                    *)
(*                                                                         *)
(* The properties hang on sums over sets, so the first part is about what  *)
(* the community modules' sums add up to.  The inductive invariant then    *)
(* relates the room that is left to what the cameras have still to write,  *)
(* what was measured to what was written since, and what is settled to a   *)
(* plan with nothing in it.                                                *)
(***************************************************************************)
EXTENDS Retention, FiniteSetTheorems, WellFoundedInduction, TLAPS

-----------------------------------------------------------------------------
(* Induction over the numbers and over the parts of a finite set, for sets *)
(* instead of predicates                                                   *)

LEMMA EveryNumber ==
  ASSUME NEW G, 0 \in G, \A n \in Nat : n \in G => n + 1 \in G
  PROVE  Nat \subseteq G
<1> DEFINE Bad == {n \in Nat : n \notin G}
<1>1. SUFFICES ASSUME Bad # {}
               PROVE  FALSE
  OBVIOUS
<1>2. PICK m \in Bad : \A k \in Bad : ~ (<<k, m>> \in OpToRel(<, Nat))
  <2>1. Bad \in SUBSET Nat
    OBVIOUS
  <2> HIDE DEF Bad
  <2> QED
    BY <1>1, <2>1, NatLessThanWellFounded, WFMin, Zenon
<1>3. \A k \in Bad : ~ (k < m)
  BY <1>2 DEF OpToRel
<1>4. m # 0 /\ m - 1 \in Nat /\ m - 1 < m /\ m = (m - 1) + 1
  OBVIOUS
<1>5. m - 1 \in G
  BY <1>3, <1>4
<1> QED
  BY <1>4, <1>5

LEMMA EveryPart ==
  ASSUME NEW S, IsFiniteSet(S), NEW G, {} \in G,
         \A T \in SUBSET S : \A x \in S \ T : T \in G => T \cup {x} \in G
  PROVE  S \in G
<1> DEFINE N == {n \in Nat : \A T \in SUBSET S : Cardinality(T) = n => T \in G}
<1>1. \A T \in SUBSET S : IsFiniteSet(T) /\ Cardinality(T) \in Nat
  BY FS_Subset, FS_CardinalityType
<1>2. 0 \in N
  BY <1>1, FS_EmptySet
<1>3. ASSUME NEW n \in Nat, n \in N
      PROVE  n + 1 \in N
  <2>1. SUFFICES ASSUME NEW T \in SUBSET S, Cardinality(T) = n + 1
                 PROVE  T \in G
    OBVIOUS
  <2>2. PICK x \in T : TRUE
    <3>1. Cardinality(T) # 0
      BY <2>1
    <3> QED
      BY <3>1, FS_EmptySet
  <2>3. IsFiniteSet(T) /\ IsFiniteSet(T \ {x}) /\ Cardinality(T \ {x}) = Cardinality(T) - 1
    BY <1>1, FS_RemoveElement
  <2>4. Cardinality(T \ {x}) = n
    BY <2>1, <2>3
  <2>5. T \ {x} \in G /\ x \in S \ (T \ {x}) /\ T = (T \ {x}) \cup {x}
    BY <1>3, <2>4
  <2> QED
    BY <2>5
<1>4. Nat \subseteq N
  <2> HIDE DEF N
  <2> QED
    BY <1>2, <1>3, EveryNumber
<1> QED
  BY <1>1, <1>4

-----------------------------------------------------------------------------
(* Sums over finite sets *)

Pick(T) == CHOOSE x \in T : TRUE

(* g sums f over every part of S. *)
Sums(f, S, g) ==
  g = [T \in SUBSET S |-> IF T = {} THEN 0 ELSE f[Pick(T)] + g[T \ {Pick(T)}]]

LEMMA SumIs ==
  ASSUME NEW f, NEW S
  PROVE  SumFunctionOnSet(f, S) = (CHOOSE g : Sums(f, S, g))[S]
BY DEF SumFunctionOnSet, FoldFunctionOnSet, MapThenFoldSet, Sums, Pick

LEMMA Picked ==
  ASSUME NEW T, T # {}
  PROVE  Pick(T) \in T
BY DEF Pick

(* There is such a g: summing over parts of at most n elements is defined, *)
(* whatever n.                                                             *)
LEMMA SumsExist ==
  ASSUME NEW f, NEW S, IsFiniteSet(S)
  PROVE  \E g : Sums(f, S, g)
<1> DEFINE Small(n) == {T \in SUBSET S : Cardinality(T) <= n}
           SmallSums(n, g) ==
             g = [T \in Small(n) |-> IF T = {} THEN 0 ELSE f[Pick(T)] + g[T \ {Pick(T)}]]
           N == {n \in Nat : \E g : SmallSums(n, g)}
<1>1. \A T \in SUBSET S : IsFiniteSet(T) /\ Cardinality(T) \in Nat
  BY FS_Subset, FS_CardinalityType
<1>2. \A T \in SUBSET S : T # {} =>
        /\ T \ {Pick(T)} \in SUBSET S
        /\ Cardinality(T \ {Pick(T)}) = Cardinality(T) - 1
  BY <1>1, Picked, FS_RemoveElement
<1>3. 0 \in N
  <2>1. PICK g : g = [T \in Small(0) |-> 0]
    OBVIOUS
  <2>2. \A T \in Small(0) : T = {}
    <3>1. \A T \in Small(0) : Cardinality(T) = 0
      BY <1>1
    <3> QED
      BY <1>1, <3>1, FS_EmptySet
  <2>3. SmallSums(0, g)
    BY <2>1, <2>2
  <2> QED
    BY <2>3
<1>4. ASSUME NEW n \in Nat, n \in N
      PROVE  n + 1 \in N
  <2>1. PICK g : SmallSums(n, g)
    BY <1>4
  <2>2. PICK h : h = [T \in Small(n + 1) |->
                        IF T \in Small(n) THEN g[T] ELSE f[Pick(T)] + g[T \ {Pick(T)}]]
    OBVIOUS
  <2>3. ASSUME NEW T \in Small(n + 1)
        PROVE  h[T] = IF T = {} THEN 0 ELSE f[Pick(T)] + h[T \ {Pick(T)}]
    <3>1. CASE T = {}
      <4>1. T \in Small(n)
        BY <1>1, <3>1, FS_EmptySet
      <4> QED
        BY <2>1, <2>2, <3>1, <4>1
    <3>2. CASE T # {}
      <4> DEFINE U == T \ {Pick(T)}
      <4>1. U \in SUBSET S /\ Cardinality(U) = Cardinality(T) - 1
        BY <1>2, <3>2
      <4>2. U \in Small(n) /\ U \in Small(n + 1)
        BY <1>1, <4>1
      <4>3. h[U] = g[U]
        BY <2>2, <4>2
      <4>4. h[T] = f[Pick(T)] + g[U]
        BY <2>1, <2>2, <3>2
      <4> QED
        BY <3>2, <4>3, <4>4
    <3> QED
      BY <3>1, <3>2
  <2>4. h = [T \in Small(n + 1) |-> h[T]]
    BY <2>2
  <2>5. SmallSums(n + 1, h)
    BY <2>3, <2>4
  <2>6. n + 1 \in Nat
    OBVIOUS
  <2> HIDE DEF SmallSums
  <2> QED
    BY <2>5, <2>6
<1>5. Nat \subseteq N
  <2> HIDE DEF N
  <2> QED
    BY <1>3, <1>4, EveryNumber
<1>6. \A T \in SUBSET S : Cardinality(T) <= Cardinality(S)
  BY FS_Subset
<1>7. Small(Cardinality(S)) = SUBSET S
  BY <1>6
<1>8. PICK g : SmallSums(Cardinality(S), g)
  BY <1>1, <1>5
<1> QED
  BY <1>7, <1>8 DEF Sums

(* The sum over a part is that of the function that sums.                  *)
LEMMA SumsAgree ==
  ASSUME NEW f, NEW S, IsFiniteSet(S), NEW g, Sums(f, S, g), NEW T \in SUBSET S
  PROVE  g[T] = SumFunctionOnSet(f, T)
<1>1. PICK h : h = CHOOSE k : Sums(f, T, k)
  OBVIOUS
<1>2. IsFiniteSet(T)
  BY FS_Subset
<1>3. Sums(f, T, h)
  BY <1>1, <1>2, SumsExist
<1> DEFINE N == {n \in Nat : \A U \in SUBSET T : Cardinality(U) = n => g[U] = h[U]}
<1>4. \A U \in SUBSET T : /\ IsFiniteSet(U) /\ Cardinality(U) \in Nat /\ U \in SUBSET S
                          /\ g[U] = (IF U = {} THEN 0 ELSE f[Pick(U)] + g[U \ {Pick(U)}])
                          /\ h[U] = (IF U = {} THEN 0 ELSE f[Pick(U)] + h[U \ {Pick(U)}])
  <2>1. \A U \in SUBSET S : g[U] = (IF U = {} THEN 0 ELSE f[Pick(U)] + g[U \ {Pick(U)}])
    BY DEF Sums
  <2>2. \A U \in SUBSET T : h[U] = (IF U = {} THEN 0 ELSE f[Pick(U)] + h[U \ {Pick(U)}])
    BY <1>3 DEF Sums
  <2> QED
    BY <1>2, <2>1, <2>2, FS_Subset, FS_CardinalityType
<1>5. 0 \in N
  <2>1. \A U \in SUBSET T : Cardinality(U) = 0 => U = {}
    BY <1>4, FS_EmptySet
  <2> QED
    BY <1>4, <2>1
<1>6. ASSUME NEW n \in Nat, n \in N
      PROVE  n + 1 \in N
  <2>1. SUFFICES ASSUME NEW U \in SUBSET T, Cardinality(U) = n + 1
                 PROVE  g[U] = h[U]
    OBVIOUS
  <2>2. U # {}
    <3>1. Cardinality(U) # 0
      BY <2>1
    <3> QED
      BY <3>1, FS_EmptySet
  <2>3. Cardinality(U \ {Pick(U)}) = Cardinality(U) - 1
    BY <1>4, <2>2, Picked, FS_RemoveElement
  <2>4. g[U \ {Pick(U)}] = h[U \ {Pick(U)}]
    BY <1>6, <2>1, <2>3
  <2> QED
    BY <1>4, <2>2, <2>4
<1>7. Nat \subseteq N
  <2> HIDE DEF N
  <2> QED
    BY <1>5, <1>6, EveryNumber
<1>8. Cardinality(T) \in Nat
  BY <1>4
<1>9. g[T] = h[T]
  BY <1>7, <1>8
<1> QED
  BY <1>1, <1>9, SumIs

(* A sum over an empty set, and one element taken off                      *)
LEMMA SumOfNone ==
  ASSUME NEW f
  PROVE  SumFunctionOnSet(f, {}) = 0
<1>1. IsFiniteSet({})
  BY FS_EmptySet
<1>2. PICK g : Sums(f, {}, g)
  BY <1>1, SumsExist
<1>3. g[{}] = 0
  BY <1>2 DEF Sums
<1> QED
  BY <1>1, <1>2, <1>3, SumsAgree

LEMMA SumPicks ==
  ASSUME NEW f, NEW S, IsFiniteSet(S), S # {}
  PROVE  SumFunctionOnSet(f, S) = f[Pick(S)] + SumFunctionOnSet(f, S \ {Pick(S)})
<1>1. PICK g : Sums(f, S, g)
  BY SumsExist
<1>2. g[S] = f[Pick(S)] + g[S \ {Pick(S)}]
  BY <1>1 DEF Sums
<1>3. S \in SUBSET S /\ S \ {Pick(S)} \in SUBSET S
  OBVIOUS
<1>4. g[S] = SumFunctionOnSet(f, S)
  BY <1>1, <1>3, SumsAgree
<1>5. g[S \ {Pick(S)}] = SumFunctionOnSet(f, S \ {Pick(S)})
  BY ZenonT(60), <1>1, <1>3, SumsAgree
<1> QED
  BY <1>2, <1>4, <1>5

(* The parts of a finite set that are one larger than some number          *)
LEMMA OneLarger ==
  ASSUME NEW S, IsFiniteSet(S), NEW n \in Nat, NEW T \in SUBSET S, Cardinality(T) = n + 1
  PROVE  /\ IsFiniteSet(T) /\ T # {} /\ Pick(T) \in T
         /\ \A x \in T : T \ {x} \in SUBSET S /\ Cardinality(T \ {x}) = n
<1>1. IsFiniteSet(T)
  BY FS_Subset
<1>2. T # {}
  <2>1. Cardinality(T) # 0
    OBVIOUS
  <2> QED
    BY <2>1, FS_EmptySet
<1>3. \A x \in T : Cardinality(T \ {x}) = Cardinality(T) - 1
  BY <1>1, FS_RemoveElement
<1>4. \A x \in T : Cardinality(T \ {x}) = n
  BY <1>3
<1> QED
  BY <1>1, <1>2, <1>4, Picked

LEMMA SumInt ==
  ASSUME NEW f, NEW S, IsFiniteSet(S), \A x \in S : f[x] \in Int
  PROVE  SumFunctionOnSet(f, S) \in Int
<1> DEFINE Sum(T) == SumFunctionOnSet(f, T)
           N == {n \in Nat : \A T \in SUBSET S : Cardinality(T) = n => Sum(T) \in Int}
<1>1. \A T \in SUBSET S : IsFiniteSet(T) /\ Cardinality(T) \in Nat
  BY FS_Subset, FS_CardinalityType
<1>2. 0 \in N
  <2>1. \A T \in SUBSET S : Cardinality(T) = 0 => T = {}
    BY <1>1, FS_EmptySet
  <2>2. Sum({}) = 0
    BY SumOfNone
  <2> HIDE DEF Sum
  <2> QED
    BY <2>1, <2>2
<1>3. ASSUME NEW n \in Nat, n \in N
      PROVE  n + 1 \in N
  <2>1. SUFFICES ASSUME NEW T \in SUBSET S, Cardinality(T) = n + 1
                 PROVE  Sum(T) \in Int
    OBVIOUS
  <2>2. /\ IsFiniteSet(T) /\ T # {} /\ Pick(T) \in T
        /\ \A x \in T : T \ {x} \in SUBSET S /\ Cardinality(T \ {x}) = n
    BY <2>1, OneLarger
  <2>3. Sum(T) = f[Pick(T)] + Sum(T \ {Pick(T)})
    BY <2>2, SumPicks
  <2> HIDE DEF Sum
  <2>4. Sum(T \ {Pick(T)}) \in Int
    BY <1>3, <2>2
  <2> QED
    BY <2>2, <2>3, <2>4
<1>4. Nat \subseteq N
  <2> HIDE DEF N
  <2> QED
    BY <1>2, <1>3, EveryNumber
<1> HIDE DEF Sum
<1>5. Sum(S) \in Int
  BY <1>1, <1>4
<1> QED
  BY <1>5 DEF Sum

(* Any element may be the one that is taken off. *)
LEMMA SumTakes ==
  ASSUME NEW f, NEW S, IsFiniteSet(S), \A x \in S : f[x] \in Int, NEW y \in S
  PROVE  SumFunctionOnSet(f, S) = f[y] + SumFunctionOnSet(f, S \ {y})
<1> DEFINE Sum(T) == SumFunctionOnSet(f, T)
           N == {n \in Nat : \A T \in SUBSET S : Cardinality(T) = n =>
                               \A x \in T : Sum(T) = f[x] + Sum(T \ {x})}
<1>1. \A T \in SUBSET S : IsFiniteSet(T) /\ Cardinality(T) \in Nat
  BY FS_Subset, FS_CardinalityType
<1>2. 0 \in N
  <2>1. \A T \in SUBSET S : Cardinality(T) = 0 => T = {}
    BY <1>1, FS_EmptySet
  <2> HIDE DEF Sum
  <2> QED
    BY <2>1
<1>3. ASSUME NEW n \in Nat, n \in N
      PROVE  n + 1 \in N
  <2>1. SUFFICES ASSUME NEW T \in SUBSET S, Cardinality(T) = n + 1, NEW x \in T
                 PROVE  Sum(T) = f[x] + Sum(T \ {x})
    OBVIOUS
  <2> DEFINE c == Pick(T)
  <2>2. /\ IsFiniteSet(T) /\ T # {} /\ c \in T
        /\ \A z \in T : T \ {z} \in SUBSET S /\ Cardinality(T \ {z}) = n
    BY <2>1, OneLarger
  <2>3. Sum(T) = f[c] + Sum(T \ {c})
    BY <2>2, SumPicks
  <2>4. Sum((T \ {c}) \ {x}) \in Int
    <3>1. (T \ {c}) \ {x} \in SUBSET S
      OBVIOUS
    <3>2. \A z \in (T \ {c}) \ {x} : f[z] \in Int
      OBVIOUS
    <3> QED
      BY <1>1, <3>1, <3>2, SumInt
  <2> HIDE DEF Sum, c
  <2>5. CASE x = c
    BY <2>3, <2>5
  <2>6. CASE x # c
    <3>1. Sum(T \ {c}) = f[x] + Sum((T \ {c}) \ {x})
      BY <1>3, <2>2, <2>6
    <3>2. Sum(T \ {x}) = f[c] + Sum((T \ {x}) \ {c})
      BY <1>3, <2>2, <2>6
    <3>3. (T \ {x}) \ {c} = (T \ {c}) \ {x}
      OBVIOUS
    <3>4. Sum(T \ {x}) = f[c] + Sum((T \ {c}) \ {x})
      BY <3>2, <3>3
    <3>5. f[x] \in Int /\ f[c] \in Int
      BY <2>2
    <3> QED
      BY <2>3, <2>4, <3>1, <3>4, <3>5
  <2> QED
    BY <2>5, <2>6
<1>4. Nat \subseteq N
  <2> HIDE DEF N
  <2> QED
    BY <1>2, <1>3, EveryNumber
<1> HIDE DEF Sum
<1>5. Sum(S) = f[y] + Sum(S \ {y})
  BY <1>1, <1>4
<1> QED
  BY <1>5 DEF Sum

LEMMA SumAdds ==
  ASSUME NEW f, NEW S, IsFiniteSet(S), NEW y, y \notin S, \A x \in S \cup {y} : f[x] \in Int
  PROVE  SumFunctionOnSet(f, S \cup {y}) = SumFunctionOnSet(f, S) + f[y]
<1>1. IsFiniteSet(S \cup {y}) /\ (S \cup {y}) \ {y} = S
  BY FS_AddElement
<1>2. PICK T : T = S \cup {y}
  OBVIOUS
<1>3. SumFunctionOnSet(f, T) = f[y] + SumFunctionOnSet(f, T \ {y})
  BY <1>1, <1>2, SumTakes
<1>4. SumFunctionOnSet(f, T) = f[y] + SumFunctionOnSet(f, S)
  BY <1>1, <1>2, <1>3
<1>5. SumFunctionOnSet(f, S) \in Int /\ f[y] \in Int
  BY SumInt
<1> QED
  BY <1>2, <1>4, <1>5

(* What is summed in two parts, and what grows with its summands           *)
LEMMA SumSplits ==
  ASSUME NEW f, NEW S, IsFiniteSet(S), \A x \in S : f[x] \in Int, NEW A \in SUBSET S
  PROVE  SumFunctionOnSet(f, S) = SumFunctionOnSet(f, A) + SumFunctionOnSet(f, S \ A)
<1> DEFINE Sum(T) == SumFunctionOnSet(f, T)
           B == S \ A
           G == {T \in SUBSET A : Sum(B \cup T) = Sum(T) + Sum(B)}
<1>1. IsFiniteSet(A) /\ IsFiniteSet(B)
  BY FS_Subset
<1>2. Sum(B) \in Int /\ Sum({}) = 0
  BY <1>1, SumInt, SumOfNone
<1>3. {} \in G
  <2>1. B \cup {} = B
    OBVIOUS
  <2> HIDE DEF Sum, B
  <2> QED
    BY <1>2, <2>1
<1>4. ASSUME NEW T \in SUBSET A, NEW x \in A \ T, T \in G
      PROVE  T \cup {x} \in G
  <2>1. IsFiniteSet(T) /\ IsFiniteSet(B \cup T)
    BY <1>1, FS_Subset, FS_Union
  <2>2. Sum(T \cup {x}) = Sum(T) + f[x]
    BY <2>1, SumAdds
  <2>3. Sum((B \cup T) \cup {x}) = Sum(B \cup T) + f[x]
    BY <2>1, SumAdds
  <2>4. Sum(T) \in Int /\ f[x] \in Int
    BY <2>1, SumInt
  <2>5. B \cup (T \cup {x}) = (B \cup T) \cup {x}
    OBVIOUS
  <2> HIDE DEF Sum, B
  <2>6. Sum(B \cup (T \cup {x})) = (Sum(T) + Sum(B)) + f[x]
    BY <1>4, <2>3, <2>5
  <2>7. Sum(B \cup (T \cup {x})) = Sum(T \cup {x}) + Sum(B)
    BY <1>2, <2>2, <2>4, <2>6
  <2> QED
    BY <2>7
<1>5. A \in G
  <2> HIDE DEF G
  <2> QED
    BY <1>1, <1>3, <1>4, EveryPart
<1>6. B \cup A = S
  OBVIOUS
<1> HIDE DEF Sum
<1>7. Sum(S) = Sum(A) + Sum(B)
  BY <1>5, <1>6
<1> QED
  BY <1>7 DEF Sum

LEMMA SumNat ==
  ASSUME NEW f, NEW S, IsFiniteSet(S), \A x \in S : f[x] \in Nat
  PROVE  SumFunctionOnSet(f, S) \in Nat
<1> DEFINE Sum(T) == SumFunctionOnSet(f, T)
           G == {T \in SUBSET S : Sum(T) \in Nat}
<1>1. {} \in G
  BY SumOfNone
<1>2. ASSUME NEW T \in SUBSET S, NEW x \in S \ T, T \in G
      PROVE  T \cup {x} \in G
  <2>1. IsFiniteSet(T)
    BY FS_Subset
  <2>2. Sum(T \cup {x}) = Sum(T) + f[x]
    BY <2>1, SumAdds
  <2> HIDE DEF Sum
  <2> QED
    BY <1>2, <2>2
<1>3. S \in G
  <2> HIDE DEF G
  <2> QED
    BY <1>1, <1>2, EveryPart
<1> QED
  BY <1>3

LEMMA SumAtMost ==
  ASSUME NEW f, NEW g, NEW S, IsFiniteSet(S),
         \A x \in S : f[x] \in Int /\ g[x] \in Int /\ f[x] <= g[x]
  PROVE  SumFunctionOnSet(f, S) <= SumFunctionOnSet(g, S)
<1> DEFINE SumF(T) == SumFunctionOnSet(f, T)
           SumG(T) == SumFunctionOnSet(g, T)
           G == {T \in SUBSET S : SumF(T) <= SumG(T)}
<1>1. {} \in G
  BY SumOfNone
<1>2. ASSUME NEW T \in SUBSET S, NEW x \in S \ T, T \in G
      PROVE  T \cup {x} \in G
  <2>1. IsFiniteSet(T)
    BY FS_Subset
  <2>2. SumF(T \cup {x}) = SumF(T) + f[x] /\ SumG(T \cup {x}) = SumG(T) + g[x]
    BY <2>1, SumAdds
  <2>3. SumF(T) \in Int /\ SumG(T) \in Int
    BY <2>1, SumInt
  <2> HIDE DEF SumF, SumG
  <2> QED
    BY <1>2, <2>2, <2>3
<1>3. S \in G
  <2> HIDE DEF G
  <2> QED
    BY <1>1, <1>2, EveryPart
<1> QED
  BY <1>3

-----------------------------------------------------------------------------
(* The inductive invariant *)

Segment == [stream : Streams, start : Nat]
L == largest_segment_by_stream

Types ==
  /\ now \in Nat /\ other \in 0 .. Volume /\ policy \in Policies
  /\ pass \in {"idle", "scanning", "scanned", "measured"}
  /\ fresh \in [Streams -> Nat] /\ since \in [Streams -> Nat] /\ largest \in [Streams -> Nat]
  /\ IsFiniteSet(Files) /\ Files \subseteq Segment /\ files \in [Files -> Nat]
  /\ made \in Nat

(* While the last deletions are to last, there is room for what the        *)
(* cameras have still to write, and they keep within it.                   *)
Room ==
  /\ Free >= 0
  /\ roomy => /\ Free + PreviewSize * made >= Due
              /\ \A k \in Streams : Current(k) <= largest[k]

(* What was measured was the free space, but for what was written since:   *)
(* at most the segments opened since, the last of each stream as far as it *)
(* is written.                                                             *)
Opened == SumFunction([k \in Streams |-> fresh[k] * L[k] + Current(k)])
AsReckoned ==
  /\ \A s \in Files : files[s] <= L[s.stream]
  /\ \A k \in Streams : fresh[k] < HEADROOM_INTERVALS
Measured ==
  pass = "measured" /\ ceiling # Unknown /\ seen # "other" =>
    \E n \in Nat :
      /\ ceiling = async_ceiling(Free + n)
      /\ seen = "nothing" => n = 0
      /\ AsReckoned => n <= Opened

(* Once settled, the free space calls for no deletion.                     *)
Calm ==
  settled =>
    /\ Doomed(async_budget(async_ceiling(Free))) = {}
    /\ pass = "measured" => ceiling \in {Unknown, async_ceiling(Free)}

IInv == TypeOK /\ Types /\ Room /\ Measured /\ Calm

-----------------------------------------------------------------------------
(* Larger and smaller, and the largest segments *)

LEMMA OfTwo ==
  ASSUME NEW a \in Int, NEW b \in Int
  PROVE  /\ Max({a, b}) = (IF b <= a THEN a ELSE b)
         /\ Min({a, b}) = (IF a <= b THEN a ELSE b)
<1>1. \A x \in {a, b} : (\A y \in {a, b} : x >= y) <=> x = (IF b <= a THEN a ELSE b)
  OBVIOUS
<1>2. \A x \in {a, b} : (\A y \in {a, b} : x <= y) <=> x = (IF a <= b THEN a ELSE b)
  OBVIOUS
<1>3. (IF b <= a THEN a ELSE b) \in {a, b} /\ (IF a <= b THEN a ELSE b) \in {a, b}
  OBVIOUS
<1>4. Max({a, b}) = IF b <= a THEN a ELSE b
  BY <1>1, <1>3 DEF Max
<1>5. Min({a, b}) = IF a <= b THEN a ELSE b
  BY <1>2, <1>3 DEF Min
<1> QED
  BY <1>4, <1>5

LEMMA LargestIs ==
  ASSUME NEW S, IsFiniteSet(S), NEW f, \A x \in S : f[x] \in Nat
  PROVE  LET top == Max({0} \cup {f[x] : x \in S}) IN
         /\ top \in Nat
         /\ \A x \in S : f[x] <= top
         /\ top \in {0} \cup {f[x] : x \in S}
<1> DEFINE Values(T) == {0} \cup {f[x] : x \in T}
           G == {T \in SUBSET S : \E m \in Values(T) : \A v \in Values(T) : v <= m}
<1>1. {} \in G
  OBVIOUS
<1>2. ASSUME NEW T \in SUBSET S, NEW y \in S \ T, T \in G
      PROVE  T \cup {y} \in G
  <2>1. PICK m \in Values(T) : \A v \in Values(T) : v <= m
    BY <1>2
  <2>2. Values(T \cup {y}) = Values(T) \cup {f[y]}
    OBVIOUS
  <2>3. m \in Nat /\ f[y] \in Nat /\ \A v \in Values(T) : v \in Nat
    OBVIOUS
  <2> HIDE DEF Values
  <2>4. CASE f[y] <= m
    BY <2>1, <2>2, <2>3, <2>4
  <2>5. CASE m <= f[y]
    <3>1. \A v \in Values(T) \cup {f[y]} : v <= f[y]
      BY <2>1, <2>3, <2>5
    <3> QED
      BY <2>2, <3>1
  <2> QED
    BY <2>3, <2>4, <2>5
<1>3. S \in G
  <2> HIDE DEF G
  <2> QED
    BY <1>1, <1>2, EveryPart
<1>4. PICK m \in Values(S) : \A v \in Values(S) : v <= m
  BY <1>3
<1>5. \A v \in Values(S) : v \in Nat
  OBVIOUS
<1>6. Max(Values(S)) \in Values(S) /\ \A v \in Values(S) : v <= Max(Values(S))
  <2> HIDE DEF Values
  <2>1. \A v \in Values(S) : m >= v
    BY <1>4, <1>5
  <2>2. Max(Values(S)) \in Values(S) /\ \A v \in Values(S) : Max(Values(S)) >= v
    BY <2>1 DEF Max
  <2> QED
    BY <1>5, <2>2
<1> QED
  BY <1>5, <1>6

-----------------------------------------------------------------------------
(* Limits and budgets *)

(* The ceiling, of the space there is and the headroom that is meant       *)
CeilingOf(capacity, headroom) ==
  IF headroom <= capacity \div 2 THEN capacity - headroom ELSE capacity - capacity \div 2

LEMMA CeilingIs ==
  ASSUME NEW free \in Int, total_bytes \in Nat, measured_headroom(L) \in Nat
  PROVE  /\ usable_capacity(free, total_bytes) =
              (IF free >= 0 THEN free ELSE 0) + total_bytes
         /\ async_ceiling(free) =
              CeilingOf(usable_capacity(free, total_bytes), measured_headroom(L))
<1> DEFINE c == usable_capacity(free, total_bytes)
           h == measured_headroom(L)
<1>1. c = (IF free >= 0 THEN free ELSE 0) + total_bytes
  BY OfTwo DEF usable_capacity
<1>2. c \in Nat
  BY <1>1
<1>3. async_ceiling(free) = Max({0, c - headroom_bytes(L, c)})
  BY DEF async_ceiling, effective_budget, L, NoLimit
<1>4. headroom_bytes(L, c) = IF c > 0 THEN Min({h, c \div 2}) ELSE h
  BY DEF headroom_bytes
<1>5. h \in Nat
  OBVIOUS
<1>6. async_ceiling(free) = CeilingOf(c, h)
  <2> HIDE DEF c, h
  <2>1. c \div 2 \in Nat /\ c \div 2 <= c
    BY <1>2
  <2>2. headroom_bytes(L, c) = IF c > 0 THEN (IF h <= c \div 2 THEN h ELSE c \div 2) ELSE h
    <3>1. PICK d \in Int : d = c \div 2
      BY <2>1
    <3>2. h \in Int /\ d \in Int
      BY <1>5, <3>1
    <3>3. Min({h, d}) = IF h <= d THEN h ELSE d
      BY <3>2, OfTwo
    <3> QED
      BY <1>4, <3>1, <3>3
  <2>3. headroom_bytes(L, c) \in Nat
    BY <1>5, <2>1, <2>2
  <2>4. async_ceiling(free) =
          IF c - headroom_bytes(L, c) <= 0 THEN 0 ELSE c - headroom_bytes(L, c)
    BY <1>2, <1>3, <2>3, OfTwo
  <2>5. CASE c > 0
    BY <1>2, <1>5, <2>1, <2>2, <2>4, <2>5 DEF CeilingOf
  <2>6. CASE c = 0
    BY <1>2, <1>5, <2>1, <2>2, <2>4, <2>6 DEF CeilingOf
  <2> QED
    BY <1>2, <2>5, <2>6
<1> QED
  BY <1>1, <1>6

LEMMA BudgetIs ==
  ASSUME policy.total \in (Nat \ {0}) \cup {NoLimit}, NEW top \in Nat \cup {Unknown}
  PROVE  /\ top = Unknown => async_budget(top) = policy.total
         /\ top # Unknown =>
              /\ async_budget(top) \in Nat \ {0}
              /\ policy.total = NoLimit => async_budget(top) = IF top <= 1 THEN 1 ELSE top
              /\ policy.total # NoLimit =>
                   async_budget(top) = IF top <= 1 THEN 1
                                       ELSE IF policy.total <= top THEN policy.total ELSE top
<1> USE DEF NoLimit, Unknown
<1>1. top = Unknown => async_budget(top) = policy.total
  BY DEF async_budget
<1>2. ASSUME top # Unknown
      PROVE  /\ policy.total = NoLimit => async_budget(top) = IF top <= 1 THEN 1 ELSE top
             /\ policy.total # NoLimit =>
                  async_budget(top) = IF top <= 1 THEN 1
                                      ELSE IF policy.total <= top THEN policy.total ELSE top
  <2>1. top \in Nat /\ top - 0 = top
    BY <1>2
  <2>2. Max({0, top - 0}) = top
    BY <2>1, OfTwo
  <2>3. effective_budget(policy.total, top, 0) =
          IF policy.total = NoLimit THEN top ELSE Min({policy.total, top})
    BY <2>2 DEF effective_budget
  <2>4. async_budget(top) = Max({1, effective_budget(policy.total, top, 0)})
    BY <1>2 DEF async_budget
  <2>5. CASE policy.total = NoLimit
    <3>1. async_budget(top) = Max({1, top})
      BY <2>3, <2>4, <2>5
    <3> QED
      BY <2>1, <2>5, <3>1, OfTwo
  <2>6. CASE policy.total # NoLimit
    <3>1. policy.total \in Nat \ {0}
      BY <2>6
    <3>2. Min({policy.total, top}) = IF policy.total <= top THEN policy.total ELSE top
      BY <2>1, <3>1, OfTwo
    <3>3. PICK b \in Nat : b = IF policy.total <= top THEN policy.total ELSE top
      BY <2>1, <3>1
    <3>4. async_budget(top) = IF b <= 1 THEN 1 ELSE b
      BY <2>3, <2>4, <2>6, <3>2, <3>3, OfTwo
    <3> QED
      BY <2>1, <2>6, <3>1, <3>3, <3>4
  <2> QED
    BY <2>5, <2>6
<1> QED
  BY <1>1, <1>2

-----------------------------------------------------------------------------
(* What the sums of the module add up *)

LEMMA SumSame ==
  ASSUME NEW f, NEW g, NEW S, IsFiniteSet(S), \A x \in S : f[x] \in Int /\ f[x] = g[x]
  PROVE  SumFunctionOnSet(f, S) = SumFunctionOnSet(g, S)
<1>1. SumFunctionOnSet(f, S) <= SumFunctionOnSet(g, S)
  BY SumAtMost
<1>2. SumFunctionOnSet(g, S) <= SumFunctionOnSet(f, S)
  BY SumAtMost
<1>3. SumFunctionOnSet(f, S) \in Int /\ SumFunctionOnSet(g, S) \in Int
  BY SumInt
<1> QED
  BY <1>1, <1>2, <1>3

(* What is written in segments                                             *)
LEMMA WrittenIs ==
  ASSUME NEW f, IsFiniteSet(DOMAIN f), \A s \in DOMAIN f : f[s] \in Nat
  PROVE  SumFunction(f) \in Nat
BY SumNat DEF SumFunction

LEMMA OneIsOpened ==
  ASSUME NEW f, IsFiniteSet(DOMAIN f), \A s \in DOMAIN f : f[s] \in Nat,
         NEW s, s \notin DOMAIN f,
         NEW g, g = [t \in DOMAIN f \cup {s} |-> IF t = s THEN 0 ELSE f[t]]
  PROVE  SumFunction(g) = SumFunction(f)
<1>1. DOMAIN g = DOMAIN f \cup {s} /\ g[s] = 0 /\ \A t \in DOMAIN f : g[t] = f[t]
  OBVIOUS
<1>2. \A t \in DOMAIN f \cup {s} : g[t] \in Int
  BY <1>1
<1>3. SumFunctionOnSet(g, DOMAIN f \cup {s}) = SumFunctionOnSet(g, DOMAIN f) + g[s]
  BY <1>2, SumAdds
<1>4. SumFunctionOnSet(f, DOMAIN f) = SumFunctionOnSet(g, DOMAIN f)
  BY <1>1, SumSame
<1>5. SumFunctionOnSet(f, DOMAIN f) \in Int
  BY SumInt
<1> QED
  BY <1>1, <1>3, <1>4, <1>5 DEF SumFunction

LEMMA SomeAreDeleted ==
  ASSUME NEW f, IsFiniteSet(DOMAIN f), \A s \in DOMAIN f : f[s] \in Nat,
         NEW D \in SUBSET DOMAIN f, NEW g, g = Restrict(f, DOMAIN f \ D)
  PROVE  /\ SumFunction(g) = SumFunction(f) - SumFunctionOnSet(f, D)
         /\ SumFunctionOnSet(f, D) \in Nat
<1>1. DOMAIN g = DOMAIN f \ D /\ \A t \in DOMAIN f \ D : g[t] = f[t]
  BY DEF Restrict
<1>2. IsFiniteSet(D) /\ IsFiniteSet(DOMAIN f \ D)
  BY FS_Subset
<1>3. SumFunctionOnSet(f, DOMAIN f) = SumFunctionOnSet(f, D) + SumFunctionOnSet(f, DOMAIN f \ D)
  BY SumSplits
<1>4. SumFunctionOnSet(f, DOMAIN f \ D) = SumFunctionOnSet(g, DOMAIN f \ D)
  BY <1>1, <1>2, SumSame
<1>5. SumFunctionOnSet(f, D) \in Nat /\ SumFunctionOnSet(f, DOMAIN f \ D) \in Nat
  BY <1>2, SumNat
<1> QED
  BY <1>1, <1>3, <1>4, <1>5 DEF SumFunction

(* The rows *)
LEMMA RowsAre ==
  ASSUME TypeOK, Types
  PROVE  /\ IsFiniteSet(Rows) /\ Rows \in SUBSET Segment
         /\ \A s \in Rows : /\ s.stream \in Streams /\ s.start \in Nat /\ files[s] \in Nat
                            /\ rows[s] \in Nat /\ rows[s] <= files[s]
<1>1. IsFiniteSet(Rows) /\ Rows \in SUBSET Segment /\ Rows \in SUBSET Files
  BY FS_Subset DEF Types, TypeOK
<1>2. \A s \in Rows : s.stream \in Streams /\ s.start \in Nat /\ files[s] \in Nat
  BY <1>1 DEF Segment, Types
<1>3. \A s \in Rows : rows[s] \in 0 .. files[s]
  BY DEF TypeOK
<1> QED
  BY <1>1, <1>2, <1>3

LEMMA IndexedIs ==
  ASSUME TypeOK, Types, NEW S \in SUBSET Rows, NEW A \in SUBSET S
  PROVE  /\ Indexed(S) \in Nat /\ Indexed(A) \in Nat /\ Indexed(S \ A) \in Nat
         /\ Indexed(S) = Indexed(A) + Indexed(S \ A)
<1>1. IsFiniteSet(S) /\ IsFiniteSet(A) /\ IsFiniteSet(S \ A)
  BY RowsAre, FS_Subset
<1>2. \A s \in S : rows[s] \in Nat /\ rows[s] \in Int
  BY RowsAre
<1>3. SumFunctionOnSet(rows, S) = SumFunctionOnSet(rows, A) + SumFunctionOnSet(rows, S \ A)
  BY <1>1, <1>2, SumSplits
<1>4. SumFunctionOnSet(rows, S) \in Nat
  BY <1>1, <1>2, SumNat
<1>5. SumFunctionOnSet(rows, A) \in Nat
  BY <1>1, <1>2, SumNat
<1>6. SumFunctionOnSet(rows, S \ A) \in Nat
  BY <1>1, <1>2, SumNat
<1> QED
  BY <1>3, <1>4, <1>5, <1>6 DEF Indexed

(* The index never knows of more than there is.                            *)
LEMMA IndexedAtMost ==
  ASSUME TypeOK, Types, NEW S \in SUBSET Rows
  PROVE  Indexed(S) <= SumFunctionOnSet(files, S)
<1>1. IsFiniteSet(S)
  BY RowsAre, FS_Subset
<1>2. \A s \in S : rows[s] \in Int /\ files[s] \in Int /\ rows[s] <= files[s]
  BY RowsAre
<1> QED
  BY <1>1, <1>2, SumAtMost DEF Indexed

LEMMA HeadroomIs ==
  ASSUME TypeOK, Types
  PROVE  /\ L \in [Streams -> Nat]
         /\ \A s \in Rows : rows[s] <= L[s.stream]
         /\ \A k \in Streams : L[k] = 0 \/ \E s \in OfStream(Rows, k) : rows[s] = L[k]
         /\ SumFunction(L) \in Nat
         /\ measured_headroom(L) \in Nat
         /\ HEADROOM_INTERVALS * SumFunction(L) <= measured_headroom(L)
<1>1. ASSUME NEW k \in Streams
      PROVE  /\ L[k] \in Nat
             /\ \A s \in OfStream(Rows, k) : rows[s] <= L[k]
             /\ L[k] = 0 \/ \E s \in OfStream(Rows, k) : rows[s] = L[k]
  <2>1. IsFiniteSet(OfStream(Rows, k)) /\ \A s \in OfStream(Rows, k) : rows[s] \in Nat
    BY RowsAre, FS_Subset DEF OfStream
  <2>2. PICK S : S = OfStream(Rows, k)
    OBVIOUS
  <2>3. PICK f : f = rows
    OBVIOUS
  <2> DEFINE top == Max({0} \cup {f[x] : x \in S})
  <2>4. top \in Nat /\ (\A s \in S : f[s] <= top) /\ (top = 0 \/ \E s \in S : f[s] = top)
    <3>1. IsFiniteSet(S) /\ \A x \in S : f[x] \in Nat
      BY <2>1, <2>2, <2>3
    <3>2. top \in Nat
      BY <3>1, LargestIs
    <3>3. \A s \in S : f[s] <= top
      BY <3>1, LargestIs
    <3>4. top \in {0} \cup {f[x] : x \in S}
      BY <3>1, LargestIs
    <3>5. top = 0 \/ \E s \in S : f[s] = top
      <4> HIDE DEF top
      <4> QED
        BY <3>4
    <3> QED
      BY <3>2, <3>3, <3>5
  <2>5. L[k] = top
    BY <2>2, <2>3 DEF L, largest_segment_by_stream
  <2> QED
    BY <2>2, <2>3, <2>4, <2>5
<1>2. L \in [Streams -> Nat]
  <2>1. L = [k \in Streams |-> L[k]]
    BY DEF L, largest_segment_by_stream
  <2> QED
    BY <1>1, <2>1
<1>3. \A s \in Rows : rows[s] <= L[s.stream]
  <2>1. \A s \in Rows : s.stream \in Streams /\ s \in OfStream(Rows, s.stream)
    BY RowsAre DEF OfStream
  <2> QED
    BY <1>1, <2>1
<1>4. SumFunction(L) \in Nat
  BY <1>2, SumNat, DiskAssumption DEF SumFunction
<1>5. PICK n \in Nat : n = HEADROOM_INTERVALS * SumFunction(L)
  BY <1>4, LimitsAssumption
<1>6. measured_headroom(L) = Max({MINIMUM_HEADROOM_BYTES, n})
  BY <1>5 DEF measured_headroom
<1>7. measured_headroom(L) \in Nat /\ n <= measured_headroom(L)
  BY <1>5, <1>6, OfTwo, LimitsAssumption
<1> QED
  BY <1>1, <1>2, <1>3, <1>4, <1>5, <1>7

-----------------------------------------------------------------------------
(* The plan *)

Remaining == Rows \ ByAge
Candidates == Remaining \ (ByAge \cup Newest(Rows))
OlderThan(s) == {t \in Candidates : Older(t, s)}

LEMMA PlanIs ==
  ASSUME NEW budget
  PROVE  /\ budget = NoLimit => BySize(budget) = {}
         /\ budget # NoLimit => BySize(budget) =
              {s \in Candidates : Indexed(Remaining) - Indexed(OlderThan(s)) > budget}
         /\ BySize(budget) \subseteq Candidates
         /\ Doomed(budget) = ByAge \cup BySize(budget)
         /\ Doomed(budget) \subseteq Rows \ Newest(Rows)
         /\ Candidates \subseteq Remaining /\ Remaining \subseteq Rows
<1>1. /\ budget = NoLimit => BySize(budget) = {}
      /\ budget # NoLimit => BySize(budget) =
           {s \in Candidates : Indexed(Remaining) - Indexed(OlderThan(s)) > budget}
  BY DEF BySize, RemainingAfter, Candidates, Remaining, OlderThan
<1>2. BySize(budget) \subseteq Candidates
  BY <1>1
<1>3. Doomed(budget) \subseteq Rows \ Newest(Rows)
  BY <1>2 DEF Doomed, ByAge, Candidates, Remaining
<1> QED
  BY <1>1, <1>2, <1>3 DEF Doomed, Candidates, Remaining

(* What size deletes is older than any candidate it spares.                *)
LEMMA OldestGoFirst ==
  ASSUME TypeOK, Types, NEW budget \in Int, budget # NoLimit,
         NEW s \in BySize(budget), NEW t \in Candidates \ BySize(budget)
  PROVE  Older(s, t)
<1>1. s \in Candidates /\ Candidates \subseteq Rows
  BY PlanIs
<1>2. s.start \in Int /\ t.start \in Int
  BY <1>1, RowsAre
<1>3. ASSUME ~Older(s, t)
      PROVE  FALSE
  <2>1. t.start <= s.start
    BY <1>2, <1>3 DEF Older
  <2>2. \A r \in Candidates : r.start \in Int
    BY <1>1, RowsAre
  <2>3. OlderThan(t) \in SUBSET OlderThan(s)
    BY <1>2, <2>1, <2>2 DEF OlderThan, Older
  <2>4. OlderThan(s) \in SUBSET Rows /\ Remaining \in SUBSET Rows
    BY <1>1, PlanIs DEF OlderThan
  <2>5. /\ Indexed(OlderThan(s)) \in Nat /\ Indexed(OlderThan(t)) \in Nat
        /\ Indexed(OlderThan(t)) <= Indexed(OlderThan(s))
    <3>1. PICK A, B : A = OlderThan(s) /\ B = OlderThan(t)
      OBVIOUS
    <3>2. /\ Indexed(A) \in Nat /\ Indexed(B) \in Nat /\ Indexed(A \ B) \in Nat
          /\ Indexed(A) = Indexed(B) + Indexed(A \ B)
      BY <2>3, <2>4, <3>1, IndexedIs
    <3> QED
      BY <3>1, <3>2
  <2>6. Indexed(Remaining) \in Nat
    BY <2>4, IndexedIs
  <2>7. Indexed(Remaining) - Indexed(OlderThan(s)) > budget
    BY PlanIs
  <2>8. ~ (Indexed(Remaining) - Indexed(OlderThan(t)) > budget)
    BY PlanIs
  <2> QED
    BY <2>5, <2>6, <2>7, <2>8
<1> QED
  BY <1>3

(* A larger budget deletes no more.                                        *)
LEMMA LargerSpares ==
  ASSUME TypeOK, Types, NEW small \in Int, small # NoLimit, NEW large \in Int,
         large = NoLimit \/ small <= large
  PROVE  Doomed(large) \subseteq Doomed(small)
<1>1. ASSUME large # NoLimit, NEW s \in BySize(large)
      PROVE  s \in BySize(small)
  <2>1. s \in Candidates /\ Indexed(Remaining) - Indexed(OlderThan(s)) > large
    BY <1>1, PlanIs
  <2>2. OlderThan(s) \in SUBSET Rows /\ Remaining \in SUBSET Rows
    BY PlanIs DEF OlderThan
  <2>3. Indexed(OlderThan(s)) \in Nat /\ Indexed(Remaining) \in Nat
    BY <2>2, IndexedIs
  <2>4. Indexed(Remaining) - Indexed(OlderThan(s)) > small
    BY <1>1, <2>1, <2>3
  <2> QED
    BY <2>1, <2>4, PlanIs
<1>2. BySize(large) \subseteq BySize(small)
  BY <1>1, PlanIs
<1> QED
  BY <1>2, PlanIs

-----------------------------------------------------------------------------
(* Types are kept *)

LEMMA PolicyIs ==
  ASSUME Types
  PROVE  /\ policy.total \in (Nat \ {0}) \cup {NoLimit}
         /\ policy.age \in [Cameras -> (Nat \ {0}) \cup {NoLimit}]
BY LimitsAssumption DEF Types

LEMMA TypesInit == Init => TypeOK /\ Types
<1> SUFFICES ASSUME Init
             PROVE  TypeOK /\ Types
  OBVIOUS
<1>1. /\ IsFiniteSet(Files) /\ Files \subseteq Segment /\ files \in [Files -> Nat]
      /\ \A s \in Files : files[s] \in Nat /\ files[s] <= Sizes[s.stream]
      /\ rows = files /\ Rows = Files /\ previews = {}
  BY ArchivesAssumption DEF Init, Files, Rows, Segment
<1>2. \A s \in Files : s.stream \in Streams /\ s.start \in Nat /\ Sizes[s.stream] \in Nat
  BY <1>1, LimitsAssumption DEF Segment
<1>3. now \in Nat /\ \A s \in Files : s.start < now
  <2>1. PICK f : f = [s \in Files |-> s.start + 1]
    OBVIOUS
  <2>2. \A s \in Files : f[s] \in Nat /\ f[s] = s.start + 1
    BY <1>2, <2>1
  <2>3. {f[s] : s \in Files} = {s.start + 1 : s \in Files}
    BY <2>1
  <2>4. now = Max({0} \cup {f[s] : s \in Files})
    BY <2>3 DEF Init
  <2>5. now \in Nat
    BY <1>1, <2>2, <2>4, LargestIs
  <2>6. \A s \in Files : f[s] <= now
    BY <1>1, <2>2, <2>4, LargestIs
  <2> QED
    BY <1>2, <2>2, <2>5, <2>6
<1>4. TypeOK
  <2>1. \A s \in Files : files[s] \in 0 .. Sizes[s.stream] /\ rows[s] \in 0 .. files[s]
    BY <1>1, <1>2
  <2>2. \A k \in Streams : fresh[k] <= since[k] /\ since[k] <= HEADROOM_INTERVALS
    BY LimitsAssumption DEF Init
  <2> QED
    BY <1>1, <1>2, <1>3, <2>1, <2>2 DEF Init, TypeOK
<1>5. Types
  BY <1>1, <1>3, DiskAssumption DEF Init, Types
<1> QED
  BY <1>4, <1>5

LEMMA CeilingNat ==
  ASSUME TypeOK, Types, NEW free \in Int
  PROVE  async_ceiling(free) \in Nat
<1>1. total_bytes \in Nat
  BY IndexedIs DEF total_bytes
<1>2. measured_headroom(L) \in Nat
  BY HeadroomIs
<1>3. usable_capacity(free, total_bytes) \in Nat
  BY <1>1, <1>2, CeilingIs
<1>4. \A c \in Nat : c \div 2 \in Nat /\ c \div 2 <= c
  OBVIOUS
<1> QED
  BY <1>1, <1>2, <1>3, <1>4, CeilingIs DEF CeilingOf

LEMMA FreeIsInt ==
  ASSUME TypeOK, Types
  PROVE  /\ Free \in Int /\ Written \in Nat /\ IsFiniteSet(previews)
         /\ PreviewSize * Cardinality(previews) \in Nat
<1>1. Written \in Nat
  <2>1. IsFiniteSet(DOMAIN files) /\ \A s \in DOMAIN files : files[s] \in Nat
    BY DEF Types, Files
  <2> QED
    BY <2>1, WrittenIs DEF Written
<1>2. IsFiniteSet(previews) /\ Cardinality(previews) \in Nat
  BY FS_Subset, FS_CardinalityType DEF Types, TypeOK
<1>3. PreviewSize * Cardinality(previews) \in Nat
  BY <1>2, LimitsAssumption
<1>4. Volume \in Int /\ other \in Int
  BY LimitsAssumption DEF Types
<1> QED
  BY <1>1, <1>2, <1>3, <1>4 DEF Free

LEMMA CountedIs ==
  ASSUME NEW n \in Nat
  PROVE  Counted(n) = IF n < HEADROOM_INTERVALS THEN n + 1 ELSE HEADROOM_INTERVALS
<1>1. n + 1 \in Int /\ HEADROOM_INTERVALS \in Int
  BY LimitsAssumption
<1>2. Min({n + 1, HEADROOM_INTERVALS}) =
        IF n + 1 <= HEADROOM_INTERVALS THEN n + 1 ELSE HEADROOM_INTERVALS
  BY <1>1, OfTwo
<1> QED
  BY <1>1, <1>2 DEF Counted

LEMMA OpeningIs ==
  ASSUME TypeOK, Types, NEW k \in Streams, Opens(k)
  PROVE  LET s == [stream |-> k, start |-> now] IN
         /\ s \in Segment /\ s \notin Files
         /\ files' = [t \in Files \cup {s} |-> IF t = s THEN 0 ELSE files[t]]
         /\ Files' = Files \cup {s} /\ files'[s] = 0 /\ \A t \in Files : files'[t] = files[t]
         /\ \A t \in Files : t.start < s.start
<1> DEFINE s == [stream |-> k, start |-> now]
<1>1. s \in Segment /\ s.start = now
  BY DEF Types, Segment
<1>2. \A t \in Files : t.start \in Nat /\ t.start < now
  BY DEF Types, TypeOK, Segment
<1>3. s \notin Files
  BY <1>1, <1>2
<1>4. files' = [t \in Files \cup {s} |-> IF t = s THEN 0 ELSE files[t]]
  BY DEF Opens
<1>5. Files' = Files \cup {s} /\ files'[s] = 0 /\ \A t \in Files : files'[t] = files[t]
  BY <1>3, <1>4 DEF Files
<1> QED
  BY <1>1, <1>2, <1>3, <1>4, <1>5

LEMMA TypesKept ==
  ASSUME TypeOK, Types, [Next]_vars
  PROVE  TypeOK' /\ Types'
<1> USE DEF growthVars
<1>1. ASSUME NEW k \in Streams, Opens(k)
      PROVE  TypeOK' /\ Types'
  <2>1. PICK s : /\ s = [stream |-> k, start |-> now] /\ s \in Segment /\ s \notin Files
                 /\ files' = [t \in Files \cup {s} |-> IF t = s THEN 0 ELSE files[t]]
                 /\ Files' = Files \cup {s} /\ files'[s] = 0
                 /\ \A t \in Files : files'[t] = files[t]
    BY <1>1, OpeningIs
  <2>2. s.stream = k /\ s.start = now /\ Sizes[k] \in Nat
    BY <2>1, LimitsAssumption
  <2>3. Rows' = Rows /\ rows' = rows /\ previews' = previews /\ now' = now + 1 /\ now' \in Nat
    BY <1>1 DEF Opens, Rows, Types
  <2>4. IsFiniteSet(Files') /\ Files' \subseteq Segment
    BY <2>1, FS_AddElement DEF Types
  <2>5. files' \in [Files' -> Nat]
    <3>1. files' = [t \in Files' |-> files'[t]]
      BY <2>1
    <3>2. \A t \in Files' : files'[t] \in Nat
      BY <2>1 DEF Types
    <3> QED
      BY <3>1, <3>2
  <2>6. \A j \in Streams : /\ fresh'[j] \in Nat /\ since'[j] \in Nat
                           /\ fresh'[j] <= since'[j] /\ since'[j] <= HEADROOM_INTERVALS
    <3>1. \A j \in Streams : /\ fresh[j] \in Nat /\ since[j] \in Nat /\ HEADROOM_INTERVALS \in Nat
                             /\ fresh[j] <= since[j] /\ since[j] <= HEADROOM_INTERVALS
      BY LimitsAssumption DEF Types, TypeOK
    <3>2. \A j \in Streams : /\ fresh'[j] = IF j = k THEN Counted(fresh[j]) ELSE fresh[j]
                             /\ since'[j] = IF j = k THEN Counted(since[j]) ELSE since[j]
      BY <1>1 DEF Opens, Types
    <3>3. Counted(fresh[k]) = IF fresh[k] < HEADROOM_INTERVALS THEN fresh[k] + 1 ELSE HEADROOM_INTERVALS
      BY <3>1, CountedIs
    <3>4. Counted(since[k]) = IF since[k] < HEADROOM_INTERVALS THEN since[k] + 1 ELSE HEADROOM_INTERVALS
      BY <3>1, CountedIs
    <3> QED
      BY <3>1, <3>2, <3>3, <3>4
  <2>7. fresh' \in [Streams -> Nat] /\ since' \in [Streams -> Nat]
    <3>1. /\ fresh' = [j \in Streams |-> fresh'[j]] /\ since' = [j \in Streams |-> since'[j]]
      BY <1>1 DEF Opens, Types
    <3> QED
      BY <2>6, <3>1
  <2>8. Types'
    BY <1>1, <2>3, <2>4, <2>5, <2>7 DEF Opens, Types
  <2>9. \A t \in Files' : t.stream \in Streams /\ t.start < now' /\ files'[t] \in 0 .. Sizes[t.stream]
    <3>1. \A t \in Files : t.start \in Nat
      BY DEF Types, Segment
    <3>2. \A t \in Files : t.stream \in Streams /\ t.start < now /\ files'[t] \in 0 .. Sizes[t.stream]
      BY <2>1 DEF TypeOK
    <3>3. now < now' /\ now \in Nat /\ now' \in Nat
      BY <2>3 DEF Types
    <3>4. 0 \in 0 .. Sizes[k]
      BY <2>2
    <3> QED
      BY <2>1, <2>2, <3>1, <3>2, <3>3, <3>4
  <2>10. \A t \in Rows' : rows'[t] \in 0 .. files'[t]
    BY <2>1, <2>3 DEF TypeOK
  <2>11. TypeOK'
    BY <1>1, <2>1, <2>3, <2>6, <2>9, <2>10 DEF Opens, TypeOK
  <2> QED
    BY <2>8, <2>11
<1>2. ASSUME NEW k \in Streams, Writes(k)
      PROVE  TypeOK' /\ Types'
  <2>1. PICK s \in OfStream(Newest(Files), k) :
          /\ files[s] < Sizes[k] /\ files' = [files EXCEPT ![s] = @ + 1]
          /\ UNCHANGED <<previews, rows, other, policy, now, pass, ceiling, fresh, since, largest,
                         made>>
    BY <1>2 DEF Writes
  <2>2. s \in Files /\ s.stream = k /\ Sizes[k] \in Nat /\ files[s] \in Nat
    BY <2>1, LimitsAssumption DEF OfStream, Newest, Types
  <2>3. /\ Files' = Files /\ Rows' = Rows /\ files'[s] = files[s] + 1
        /\ \A t \in Files \ {s} : files'[t] = files[t]
        /\ files' \in [Files' -> Nat]
    BY <2>1, <2>2 DEF Files, Rows, Types
  <2>4. Types'
    BY <2>1, <2>3 DEF Types
  <2>5. \A t \in Files : t.stream \in Streams /\ t.start < now /\ files'[t] \in 0 .. Sizes[t.stream]
    BY <2>1, <2>2, <2>3 DEF TypeOK
  <2>6. \A t \in Rows : rows[t] \in 0 .. files'[t]
    <3>1. \A t \in Rows : t \in Files /\ files[t] \in Nat /\ rows[t] \in 0 .. files[t]
      BY DEF TypeOK, Types
    <3> QED
      BY <2>2, <2>3, <3>1
  <2>7. TypeOK'
    BY <2>1, <2>3, <2>5, <2>6 DEF TypeOK
  <2> QED
    BY <2>4, <2>7
<1>3. CASE OtherChanges
  BY <1>3, DiskAssumption DEF OtherChanges, TypeOK, Types, Rows, Files
<1>4. ASSUME UNCHANGED <<files, previews, other, policy, now, ceiling, growthVars>>,
             pass' \in {"scanning", "scanned"}, Rows' \subseteq Files,
             \A s \in Rows' : rows'[s] \in 0 .. files[s]
      PROVE  TypeOK' /\ Types'
  BY <1>4 DEF TypeOK, Types, Files
<1>5. CASE Scan
  <2>1. /\ rows' = [s \in Files |-> IF s \in Rows \ Newest(Rows) THEN rows[s] ELSE files[s]]
        /\ UNCHANGED <<files, previews, other, policy, now, ceiling, growthVars>>
        /\ pass' = "scanning"
    BY <1>5 DEF Scan
  <2>2. Rows' = Files
    BY <2>1 DEF Rows
  <2>3. \A s \in Files : files[s] \in 0 .. files[s]
    BY DEF Types
  <2>4. \A s \in Rows' : rows'[s] \in 0 .. files[s]
    BY <2>1, <2>2, <2>3 DEF TypeOK
  <2> QED
    BY <1>4, <2>1, <2>2, <2>4
<1>6. CASE ScanRest
  <2>1. PICK late \in SUBSET (Files \ Rows) :
          rows' = [s \in Rows \cup late |-> IF s \in late THEN files[s] ELSE rows[s]]
    BY <1>6 DEF ScanRest
  <2>2. Rows' = Rows \cup late
    BY <2>1 DEF Rows
  <2>3. \A s \in Files : files[s] \in 0 .. files[s]
    BY DEF Types
  <2>4. \A s \in Rows' : rows'[s] \in 0 .. files[s]
    BY <2>1, <2>2, <2>3 DEF TypeOK
  <2>5. Rows' \subseteq Files
    BY <2>2 DEF TypeOK
  <2> QED
    BY <1>4, <1>6, <2>4, <2>5 DEF ScanRest
<1>7. CASE Shoots
  BY <1>7 DEF Shoots, TypeOK, Types, Files, Rows
<1>8. CASE Measure
  <2>1. async_ceiling(Free) \in Nat
    BY CeilingNat, FreeIsInt
  <2>2. \A j \in Streams : 0 <= since[j]
    BY DEF Types
  <2>3. fresh' \in [Streams -> Nat] /\ \A j \in Streams : fresh'[j] = 0
    BY <1>8 DEF Measure
  <2> QED
    BY <1>8, <2>1, <2>2, <2>3 DEF Measure, TypeOK, Types, Files, Rows
<1>9. CASE Retain
  <2>1. PICK doomed : /\ files' = Restrict(files, Files \ doomed) /\ previews' = previews \ doomed
                      /\ rows' = Restrict(rows, Rows \ doomed)
    BY <1>9 DEF Retain
  <2>2. /\ Rows' = Rows \ doomed /\ \A s \in Rows' : rows'[s] = rows[s]
        /\ Files' = Files \ doomed /\ \A s \in Files' : files'[s] = files[s]
        /\ files' \in [Files' -> Nat]
    BY <2>1 DEF Restrict, Rows, Files, Types
  <2>3. L \in [Streams -> Nat]
    BY HeadroomIs
  <2>4. IsFiniteSet(Files') /\ Files' \subseteq Files
    BY <2>2, FS_Subset DEF Types
  <2>5. \A j \in Streams : /\ fresh'[j] <= since'[j] /\ since'[j] <= HEADROOM_INTERVALS
    BY <1>9, LimitsAssumption DEF Retain, TypeOK, Types
  <2>6. TypeOK'
    BY <1>9, <2>1, <2>2, <2>4, <2>5 DEF Retain, TypeOK
  <2>7. Types'
    BY <1>9, <2>2, <2>3, <2>4 DEF Retain, Types, L
  <2> QED
    BY <2>6, <2>7
<1>10. CASE UNCHANGED vars
  BY <1>10 DEF vars, TypeOK, Types, Rows, Files
<1> QED
  BY <1>1, <1>2, <1>3, <1>5, <1>6, <1>7, <1>8, <1>9, <1>10 DEF Next

-----------------------------------------------------------------------------
(* Sums that change, and shares *)

LEMMA SumChanges ==
  ASSUME NEW S, IsFiniteSet(S), NEW f \in [S -> Int], NEW g \in [S -> Int], NEW k \in S,
         \A j \in S \ {k} : g[j] = f[j]
  PROVE  /\ SumFunction(f) \in Int /\ SumFunction(g) \in Int
         /\ SumFunction(g) = SumFunction(f) + g[k] - f[k]
<1>1. IsFiniteSet(S \ {k}) /\ DOMAIN f = S /\ DOMAIN g = S
  BY FS_Subset
<1>2. SumFunctionOnSet(f, S) = f[k] + SumFunctionOnSet(f, S \ {k})
  BY SumTakes
<1>3. SumFunctionOnSet(g, S) = g[k] + SumFunctionOnSet(g, S \ {k})
  BY SumTakes
<1>4. SumFunctionOnSet(f, S \ {k}) = SumFunctionOnSet(g, S \ {k})
  BY <1>1, SumSame
<1>5. SumFunctionOnSet(f, S \ {k}) \in Int
  BY <1>1, SumInt
<1> QED
  BY <1>1, <1>2, <1>3, <1>4, <1>5 DEF SumFunction

LEMMA SumOfSums ==
  ASSUME NEW f, NEW g, NEW h, NEW S, IsFiniteSet(S),
         \A x \in S : g[x] \in Int /\ h[x] \in Int /\ f[x] = g[x] + h[x]
  PROVE  SumFunctionOnSet(f, S) = SumFunctionOnSet(g, S) + SumFunctionOnSet(h, S)
<1> DEFINE F(T) == SumFunctionOnSet(f, T)
           A(T) == SumFunctionOnSet(g, T)
           B(T) == SumFunctionOnSet(h, T)
           G == {T \in SUBSET S : F(T) = A(T) + B(T)}
<1>1. {} \in G
  <2>1. F({}) = 0 /\ A({}) = 0 /\ B({}) = 0
    BY SumOfNone
  <2> HIDE DEF F, A, B
  <2> QED
    BY <2>1
<1>2. ASSUME NEW T \in SUBSET S, NEW x \in S \ T, T \in G
      PROVE  T \cup {x} \in G
  <2>1. IsFiniteSet(T) /\ \A y \in T \cup {x} : f[y] \in Int /\ g[y] \in Int /\ h[y] \in Int
    <3>1. \A y \in S : f[y] \in Int /\ g[y] \in Int /\ h[y] \in Int
      OBVIOUS
    <3> QED
      BY <3>1, FS_Subset
  <2>2. F(T \cup {x}) = F(T) + f[x]
    BY <2>1, SumAdds
  <2>3. A(T \cup {x}) = A(T) + g[x]
    BY <2>1, SumAdds
  <2>4. B(T \cup {x}) = B(T) + h[x]
    BY <2>1, SumAdds
  <2>5. F(T) \in Int /\ A(T) \in Int /\ B(T) \in Int
    BY <2>1, SumInt
  <2> HIDE DEF F, A, B
  <2> QED
    BY <1>2, <2>1, <2>2, <2>3, <2>4, <2>5
<1>3. S \in G
  <2> HIDE DEF G
  <2> QED
    BY <1>1, <1>2, EveryPart
<1> QED
  BY <1>3

LEMMA Distributes ==
  ASSUME NEW n \in Int, NEW a \in Int, NEW b \in Int
  PROVE  /\ (n - a) * b \in Int /\ a * b \in Int /\ n * b \in Int
         /\ (n - a) * b + a * b = n * b
         /\ n * (a + b) = n * a + n * b
         /\ (n - (a + 1)) * b = (n - a) * b - b
OBVIOUS

LEMMA OneMore ==
  ASSUME NEW a \in Int, NEW b \in Int
  PROVE  (a + 1) * b = a * b + b
OBVIOUS

(* Shares of a number of everything add up.                                *)
LEMMA SumShares ==
  ASSUME NEW S, IsFiniteSet(S), NEW n \in Nat, NEW a \in [S -> Nat], NEW b \in [S -> Nat],
         NEW f, f = [k \in S |-> (n - a[k]) * b[k]], NEW g, g = [k \in S |-> a[k] * b[k]]
  PROVE  /\ SumFunction(f) \in Int /\ SumFunction(g) \in Nat /\ SumFunction(b) \in Nat
         /\ SumFunction(f) + SumFunction(g) = n * SumFunction(b)
<1>1. f = [k \in S |-> (n - a[k]) * b[k]]
  OBVIOUS
<1>2. g = [k \in S |-> a[k] * b[k]]
  OBVIOUS
<1>3. \A k \in S : f[k] \in Int /\ g[k] \in Nat /\ f[k] + g[k] = n * b[k]
  <2>1. ASSUME NEW k \in S
        PROVE  f[k] \in Int /\ g[k] \in Nat /\ f[k] + g[k] = n * b[k]
    <3>1. a[k] \in Nat /\ b[k] \in Nat /\ n \in Int
      OBVIOUS
    <3>2. (n - a[k]) * b[k] + a[k] * b[k] = n * b[k] /\ (n - a[k]) * b[k] \in Int
      BY <3>1, Distributes
    <3>3. a[k] * b[k] \in Nat
      BY <3>1
    <3> QED
      BY <1>1, <1>2, <3>2, <3>3
  <2> QED
    BY <2>1
<1> DEFINE F(T) == SumFunctionOnSet(f, T)
           H(T) == SumFunctionOnSet(g, T)
           B(T) == SumFunctionOnSet(b, T)
           G == {T \in SUBSET S : F(T) + H(T) = n * B(T)}
<1>4. \A T \in SUBSET S : IsFiniteSet(T) /\ F(T) \in Int /\ H(T) \in Nat /\ B(T) \in Nat
  <2>1. ASSUME NEW T \in SUBSET S
        PROVE  IsFiniteSet(T) /\ F(T) \in Int /\ H(T) \in Nat /\ B(T) \in Nat
    <3>1. IsFiniteSet(T)
      BY FS_Subset
    <3>2. F(T) \in Int
      BY <1>3, <3>1, SumInt
    <3>3. H(T) \in Nat
      BY <1>3, <3>1, SumNat
    <3>4. B(T) \in Nat
      BY <3>1, SumNat
    <3> QED
      BY <3>1, <3>2, <3>3, <3>4
  <2> QED
    BY <2>1
<1>5. {} \in G
  <2>1. F({}) = 0 /\ H({}) = 0 /\ B({}) = 0
    BY SumOfNone
  <2> HIDE DEF F, H, B
  <2> QED
    BY <2>1
<1>6. ASSUME NEW T \in SUBSET S, NEW x \in S \ T, T \in G
      PROVE  T \cup {x} \in G
  <2>0. IsFiniteSet(T) /\ \A k \in T \cup {x} : f[k] \in Int /\ g[k] \in Int /\ b[k] \in Int
    <3>1. \A k \in S : f[k] \in Int /\ g[k] \in Int /\ b[k] \in Int
      BY <1>3
    <3>2. IsFiniteSet(T)
      BY FS_Subset
    <3> QED
      BY <3>1, <3>2
  <2>1. F(T \cup {x}) = F(T) + f[x]
    BY <2>0, SumAdds
  <2>2. H(T \cup {x}) = H(T) + g[x]
    BY <2>0, SumAdds
  <2>3. B(T \cup {x}) = B(T) + b[x]
    BY <2>0, SumAdds
  <2> HIDE DEF F, H, B
  <2>4. n * (B(T) + b[x]) = n * B(T) + n * b[x]
    <3>1. n \in Int /\ B(T) \in Int /\ b[x] \in Int
      BY <1>4
    <3> QED
      BY <3>1, Distributes
  <2>5. F(T) + H(T) = n * B(T) /\ f[x] + g[x] = n * b[x]
    BY <1>3, <1>6
  <2>6. F(T) \in Int /\ H(T) \in Int /\ f[x] \in Int /\ g[x] \in Int
    BY <1>3, <1>4
  <2>7. F(T \cup {x}) + H(T \cup {x}) = n * B(T \cup {x})
    BY <2>1, <2>2, <2>3, <2>4, <2>5, <2>6
  <2> QED
    BY <2>7
<1>7. S \in G
  <2> HIDE DEF G
  <2> QED
    BY <1>5, <1>6, EveryPart
<1> HIDE DEF F, H, B
<1>8. F(S) + H(S) = n * B(S) /\ F(S) \in Int /\ H(S) \in Nat /\ B(S) \in Nat
  BY <1>4, <1>7
<1>9. F(S) = SumFunction(f) /\ H(S) = SumFunction(g) /\ B(S) = SumFunction(b)
  BY <1>1, <1>2 DEF F, H, B, SumFunction
<1> QED
  BY <1>1, <1>2, <1>8, <1>9

-----------------------------------------------------------------------------
(* The newest segments, and what is written of them *)

(* A stream has a newest segment, the only one, and it stays the newest    *)
(* when others are deleted.                                                *)
LEMMA NewestExists ==
  ASSUME NEW R \in SUBSET Segment, IsFiniteSet(R), NEW s \in R
  PROVE  \E n \in Newest(R) : n.stream = s.stream /\ s.start <= n.start
<1> DEFINE S == OfStream(R, s.stream)
<1>1. /\ IsFiniteSet(S) /\ S \subseteq R /\ s \in S
      /\ \A t \in S : t.start \in Nat /\ t.stream = s.stream
  BY FS_Subset DEF OfStream, Segment
<1> HIDE DEF S
<1>2. PICK f : f = [t \in S |-> t.start]
  OBVIOUS
<1>3. PICK top \in Nat : /\ \A t \in S : f[t] <= top
                         /\ top = 0 \/ \E t \in S : f[t] = top
  <2>1. \A t \in S : f[t] \in Nat
    BY <1>1, <1>2
  <2> DEFINE m == Max({0} \cup {f[x] : x \in S})
  <2>2. m \in Nat
    BY <1>1, <2>1, LargestIs
  <2>3. \A t \in S : f[t] <= m
    BY <1>1, <2>1, LargestIs
  <2>4. m \in {0} \cup {f[x] : x \in S}
    BY <1>1, <2>1, LargestIs
  <2> HIDE DEF m
  <2> QED
    BY <2>2, <2>3, <2>4
<1>4. PICK n \in S : \A t \in S : t.start <= n.start
  <2>1. ASSUME top = 0
        PROVE  \A t \in S : t.start <= s.start
    BY <1>1, <1>2, <1>3, <2>1
  <2> QED
    BY <1>1, <1>2, <1>3, <2>1
<1>5. n \in Newest(R)
  BY <1>1, <1>4 DEF Newest, S
<1> QED
  BY <1>1, <1>4, <1>5

LEMMA NewestStay ==
  ASSUME NEW R \in SUBSET Segment, IsFiniteSet(R), NEW D \in SUBSET (R \ Newest(R))
  PROVE  Newest(R \ D) = Newest(R)
<1>1. ASSUME NEW s \in Newest(R)
      PROVE  s \in Newest(R \ D)
  BY <1>1 DEF Newest, OfStream
<1>2. ASSUME NEW s \in Newest(R \ D)
      PROVE  s \in Newest(R)
  <2>1. s \in R /\ \A t \in OfStream(R \ D, s.stream) : t.start <= s.start
    BY DEF Newest
  <2>2. ASSUME NEW t \in OfStream(R, s.stream)
        PROVE  t.start <= s.start
    <3>1. t \in R /\ t.stream = s.stream
      BY DEF OfStream
    <3>2. PICK n \in Newest(R) : n.stream = s.stream /\ t.start <= n.start
      BY <3>1, NewestExists
    <3>3. n \in OfStream(R \ D, s.stream) /\ n \in R
      BY <3>2 DEF Newest, OfStream
    <3>4. n.start \in Nat /\ s.start \in Nat /\ t.start \in Nat
      BY <2>1, <3>1, <3>3 DEF Segment
    <3>5. n.start <= s.start
      BY <2>1, <3>3, Zenon
    <3> QED
      BY <3>2, <3>4, <3>5
  <2> QED
    BY <2>1, <2>2 DEF Newest
<1> QED
  BY <1>1, <1>2

LEMMA OneNewest ==
  ASSUME NEW R \in SUBSET Segment, NEW s \in Newest(R)
  PROVE  OfStream(Newest(R), s.stream) = {s}
<1>1. ASSUME NEW t \in OfStream(Newest(R), s.stream)
      PROVE  t = s
  <2>1. t \in R /\ s \in R /\ t.stream = s.stream /\ t.start <= s.start /\ s.start <= t.start
    BY DEF Newest, OfStream
  <2>2. t.start = s.start
    BY <2>1 DEF Segment
  <2> QED
    BY <2>1, <2>2 DEF Segment
<1>2. s \in OfStream(Newest(R), s.stream)
  BY DEF OfStream
<1> QED
  BY <1>1, <1>2

(* What is written of the newest segment of a stream, for any files        *)
NewestOf(f, k) == OfStream(Newest(DOMAIN f), k)
CurrentOf(f, k) == Max({0} \cup {f[s] : s \in NewestOf(f, k)})

LEMMA CurrentIsOf ==
  /\ \A k : Current(k) = CurrentOf(files, k)
  /\ Due = SumFunction([k \in Streams |->
             (HEADROOM_INTERVALS - since[k]) * largest[k] - CurrentOf(files, k)])
  /\ Opened = SumFunction([k \in Streams |-> fresh[k] * L[k] + CurrentOf(files, k)])
BY DEF Current, CurrentOf, NewestOf, Files, Due, DueOf, Opened

LEMMA CurrentIs ==
  ASSUME NEW f, DOMAIN f \in SUBSET Segment, \A s \in DOMAIN f : f[s] \in Nat, NEW k
  PROVE  /\ CurrentOf(f, k) \in Nat
         /\ \A s \in NewestOf(f, k) : CurrentOf(f, k) = f[s]
         /\ NewestOf(f, k) = {} => CurrentOf(f, k) = 0
<1>1. CASE NewestOf(f, k) = {}
  <2>1. {0} \cup {f[s] : s \in NewestOf(f, k)} = {0, 0}
    BY <1>1
  <2>2. CurrentOf(f, k) = 0
    BY <2>1, OfTwo DEF CurrentOf
  <2> QED
    BY <1>1, <2>2
<1>2. ASSUME NEW s \in NewestOf(f, k)
      PROVE  /\ CurrentOf(f, k) \in Nat /\ CurrentOf(f, k) = f[s]
             /\ \A t \in NewestOf(f, k) : t = s
  <2>1. s \in Newest(DOMAIN f) /\ s.stream = k /\ s \in DOMAIN f
    BY DEF NewestOf, OfStream, Newest
  <2>2. NewestOf(f, k) = {s}
    BY <2>1, OneNewest DEF NewestOf
  <2>3. {0} \cup {f[t] : t \in NewestOf(f, k)} = {0, f[s]}
    BY <2>2
  <2>4. f[s] \in Nat /\ 0 \in Int /\ f[s] \in Int
    BY <2>1
  <2>5. Max({0, f[s]}) = IF f[s] <= 0 THEN 0 ELSE f[s]
    BY <2>4, OfTwo
  <2> QED
    BY <2>2, <2>3, <2>4, <2>5 DEF CurrentOf
<1> QED
  BY <1>1, <1>2

(* It is nothing once another is opened, one more once one more is written *)
(* and stays when other segments are deleted.                              *)
LEMMA CurrentOpened ==
  ASSUME NEW f, DOMAIN f \in SUBSET Segment, \A s \in DOMAIN f : f[s] \in Nat,
         NEW s \in Segment, \A t \in DOMAIN f : t.start < s.start,
         NEW g, DOMAIN g = DOMAIN f \cup {s}, g[s] = 0, \A t \in DOMAIN f : g[t] = f[t]
  PROVE  /\ CurrentOf(g, s.stream) = 0
         /\ \A k : k # s.stream => CurrentOf(g, k) = CurrentOf(f, k)
<1>1. /\ DOMAIN g = DOMAIN f \cup {s} /\ g[s] = 0 /\ s.start \in Nat
      /\ \A t \in DOMAIN f : t # s /\ g[t] = f[t] /\ t.start \in Nat /\ t.start < s.start
  BY DEF Segment
<1>2. DOMAIN g \in SUBSET Segment /\ \A t \in DOMAIN g : g[t] \in Nat
  BY <1>1
<1>3. s \in NewestOf(g, s.stream)
  BY <1>1 DEF NewestOf, OfStream, Newest
<1>4. ASSUME NEW k, k # s.stream
      PROVE  CurrentOf(g, k) = CurrentOf(f, k)
  <2>1. ASSUME NEW t
        PROVE  t \in NewestOf(g, k) <=> t \in NewestOf(f, k)
    BY <1>1, <1>4 DEF NewestOf, OfStream, Newest
  <2>2. NewestOf(g, k) = NewestOf(f, k)
    BY <2>1 DEF NewestOf, OfStream
  <2>3. \A t \in NewestOf(f, k) : g[t] = f[t]
    BY <1>1 DEF NewestOf, OfStream, Newest
  <2>4. {g[t] : t \in NewestOf(g, k)} = {f[t] : t \in NewestOf(f, k)}
    BY <2>2, <2>3
  <2> QED
    BY <2>4 DEF CurrentOf
<1>5. CurrentOf(g, s.stream) = 0
  BY <1>1, <1>2, <1>3, CurrentIs
<1> QED
  BY <1>4, <1>5

LEMMA CurrentWritten ==
  ASSUME NEW f, DOMAIN f \in SUBSET Segment, \A t \in DOMAIN f : f[t] \in Nat,
         NEW s \in Newest(DOMAIN f), NEW g, DOMAIN g = DOMAIN f, g[s] = f[s] + 1,
         \A t \in DOMAIN f \ {s} : g[t] = f[t]
  PROVE  /\ CurrentOf(f, s.stream) = f[s] /\ CurrentOf(g, s.stream) = f[s] + 1
         /\ \A k : k # s.stream => CurrentOf(g, k) = CurrentOf(f, k)
<1>1. /\ DOMAIN g = DOMAIN f /\ s \in DOMAIN f /\ g[s] = f[s] + 1
      /\ \A t \in DOMAIN f \ {s} : g[t] = f[t]
  BY DEF Newest
<1>2. DOMAIN g \in SUBSET Segment /\ \A t \in DOMAIN g : g[t] \in Nat
  BY <1>1
<1>3. \A k : NewestOf(g, k) = NewestOf(f, k)
  BY <1>1 DEF NewestOf
<1>4. s \in NewestOf(f, s.stream)
  BY DEF NewestOf, OfStream
<1>5. CurrentOf(f, s.stream) = f[s]
  BY <1>4, CurrentIs
<1>6. CurrentOf(g, s.stream) = f[s] + 1
  BY <1>1, <1>2, <1>3, <1>4, CurrentIs
<1>7. ASSUME NEW k, k # s.stream
      PROVE  CurrentOf(g, k) = CurrentOf(f, k)
  <2>1. \A t \in NewestOf(f, k) : g[t] = f[t]
    BY <1>1, <1>7 DEF NewestOf, OfStream, Newest
  <2>2. {g[t] : t \in NewestOf(g, k)} = {f[t] : t \in NewestOf(f, k)}
    BY <1>3, <2>1
  <2> QED
    BY <2>2 DEF CurrentOf
<1> QED
  BY <1>5, <1>6, <1>7

LEMMA CurrentStays ==
  ASSUME NEW f, DOMAIN f \in SUBSET Segment, IsFiniteSet(DOMAIN f),
         NEW D \in SUBSET (DOMAIN f \ Newest(DOMAIN f)),
         NEW g, g = Restrict(f, DOMAIN f \ D), NEW k
  PROVE  CurrentOf(g, k) = CurrentOf(f, k)
<1>1. DOMAIN g = DOMAIN f \ D /\ \A t \in DOMAIN f \ D : g[t] = f[t]
  BY DEF Restrict
<1>2. Newest(DOMAIN g) = Newest(DOMAIN f)
  BY <1>1, NewestStay
<1>3. NewestOf(g, k) = NewestOf(f, k) /\ \A t \in NewestOf(f, k) : g[t] = f[t]
  BY <1>1, <1>2 DEF NewestOf, OfStream, Newest
<1>4. {g[t] : t \in NewestOf(g, k)} = {f[t] : t \in NewestOf(f, k)}
  BY <1>3
<1> QED
  BY <1>4 DEF CurrentOf

(* As of the files on disk                                                 *)
LEMMA FilesAre ==
  ASSUME TypeOK, Types
  PROVE  /\ DOMAIN files = Files /\ DOMAIN files \in SUBSET Segment /\ IsFiniteSet(DOMAIN files)
         /\ \A s \in DOMAIN files : files[s] \in Nat
         /\ \A k : CurrentOf(files, k) \in Nat
<1>1. /\ DOMAIN files = Files /\ DOMAIN files \in SUBSET Segment /\ IsFiniteSet(DOMAIN files)
      /\ \A s \in DOMAIN files : files[s] \in Nat
  BY DEF Types, Files
<1>2. \A k : CurrentOf(files, k) \in Nat
  BY <1>1, CurrentIs
<1> QED
  BY <1>1, <1>2

(* No more of it than of the largest, if all are as reckoned with          *)
LEMMA CurrentAsReckoned ==
  ASSUME TypeOK, Types, \A s \in Files : files[s] <= L[s.stream], L \in [Streams -> Nat],
         NEW k \in Streams
  PROVE  CurrentOf(files, k) <= L[k]
<1>1. \A s \in NewestOf(files, k) : CurrentOf(files, k) = files[s] /\ files[s] <= L[k]
  <2>1. \A s \in NewestOf(files, k) : CurrentOf(files, k) = files[s]
    BY FilesAre, CurrentIs
  <2>2. \A s \in NewestOf(files, k) : s \in Files /\ s.stream = k
    BY DEF NewestOf, OfStream, Newest, Files
  <2> QED
    BY <2>1, <2>2
<1>2. NewestOf(files, k) = {} => CurrentOf(files, k) = 0
  BY FilesAre, CurrentIs
<1>3. L[k] \in Nat
  OBVIOUS
<1> QED
  BY <1>1, <1>2, <1>3

LEMMA WritingIs ==
  ASSUME TypeOK, Types, NEW k \in Streams, Writes(k)
  PROVE  /\ CurrentOf(files', k) = CurrentOf(files, k) + 1
         /\ \A j : j # k => CurrentOf(files', j) = CurrentOf(files, j)
         /\ SumFunction(files') = SumFunction(files) + 1
         /\ roomy' => roomy /\ CurrentOf(files, k) + 1 <= largest[k]
         /\ Files' = Files /\ \A s \in Files : files[s] <= files'[s]
<1>1. PICK s \in OfStream(Newest(Files), k) :
        /\ files' = [files EXCEPT ![s] = @ + 1]
        /\ roomy' = (roomy /\ files[s] + 1 <= largest[k])
  BY DEF Writes
<1>2. s \in Newest(DOMAIN files) /\ s.stream = k /\ s \in Files
  BY <1>1 DEF OfStream, Newest, Files
<1>3. PICK g : g = files'
  OBVIOUS
<1>4. /\ CurrentOf(files, k) = files[s] /\ CurrentOf(g, k) = files[s] + 1
      /\ \A j : j # k => CurrentOf(g, j) = CurrentOf(files, j)
  <2>1. DOMAIN files \in SUBSET Segment /\ \A t \in DOMAIN files : files[t] \in Nat
    BY FilesAre
  <2>2. /\ DOMAIN g = DOMAIN files /\ g[s] = files[s] + 1
        /\ \A t \in DOMAIN files \ {s} : g[t] = files[t]
    BY <1>1, <1>2, <1>3 DEF Files
  <2>3. CurrentOf(files, s.stream) = files[s] /\ CurrentOf(g, s.stream) = files[s] + 1
    BY <1>2, <2>1, <2>2, CurrentWritten
  <2>4. ASSUME NEW j, j # s.stream
        PROVE  CurrentOf(g, j) = CurrentOf(files, j)
    BY <1>2, <2>1, <2>2, <2>4, CurrentWritten
  <2> QED
    BY <1>2, <2>3, <2>4
<1>5. /\ g \in [Files -> Int] /\ files \in [Files -> Int] /\ IsFiniteSet(Files)
      /\ g[s] = files[s] + 1 /\ files[s] \in Nat
      /\ \A t \in Files \ {s} : g[t] = files[t]
      /\ \A t \in Files : files[t] \in Nat
  BY <1>1, <1>2, <1>3 DEF Types
<1>6. SumFunction(g) = SumFunction(files) + g[s] - files[s] /\ SumFunction(files) \in Int
  BY <1>2, <1>5, SumChanges
<1>7. SumFunction(g) = SumFunction(files) + 1
  BY <1>5, <1>6
<1>8. Files' = Files
  BY <1>1 DEF Files
<1>9. \A t \in Files : files[t] <= g[t]
  BY <1>5
<1> QED
  BY <1>1, <1>3, <1>4, <1>7, <1>8, <1>9

-----------------------------------------------------------------------------
(* The room that is left *)

(* Opening a segment takes none of it, and is one of those it is for.      *)
LEMMA OpeningTakesNone ==
  ASSUME TypeOK, Types, NEW k \in Streams, Opens(k)
  PROVE  /\ Free' = Free /\ L' = L /\ total_bytes' = total_bytes
         /\ largest_segment_by_stream' = largest_segment_by_stream
         /\ CurrentOf(files', k) = 0
         /\ \A j : j # k => CurrentOf(files', j) = CurrentOf(files, j)
         /\ Files \subseteq Files' /\ \A s \in Files : files'[s] = files[s]
<1>1. PICK s : /\ s = [stream |-> k, start |-> now] /\ s \in Segment /\ s \notin Files
               /\ files' = [t \in Files \cup {s} |-> IF t = s THEN 0 ELSE files[t]]
               /\ Files' = Files \cup {s} /\ \A t \in Files : files'[t] = files[t]
               /\ \A t \in Files : t.start < s.start
  BY OpeningIs
<1>2. s.stream = k /\ DOMAIN files = Files
  BY <1>1 DEF Files
<1>3. PICK g : g = files'
  OBVIOUS
<1>4. /\ DOMAIN files \in SUBSET Segment /\ IsFiniteSet(DOMAIN files)
      /\ \A t \in DOMAIN files : files[t] \in Nat
  BY FilesAre
<1>5. /\ g = [t \in DOMAIN files \cup {s} |-> IF t = s THEN 0 ELSE files[t]]
      /\ s \notin DOMAIN files /\ \A t \in DOMAIN files : t.start < s.start
  BY <1>1, <1>2, <1>3
<1>6. SumFunction(g) = SumFunction(files)
  BY <1>4, <1>5, OneIsOpened
<1>0. DOMAIN g = DOMAIN files \cup {s} /\ g[s] = 0 /\ \A t \in DOMAIN files : g[t] = files[t]
  BY <1>5
<1>7. CurrentOf(g, s.stream) = 0
  BY <1>0, <1>1, <1>4, <1>5, CurrentOpened
<1>8. ASSUME NEW j, j # s.stream
      PROVE  CurrentOf(g, j) = CurrentOf(files, j)
  BY <1>0, <1>1, <1>4, <1>5, <1>8, CurrentOpened
<1>9. UNCHANGED <<rows, other, previews>>
  BY DEF Opens
<1>10. Free' = Free
  BY <1>3, <1>6, <1>9 DEF Free, Written
<1>11. /\ L' = L /\ total_bytes' = total_bytes
       /\ largest_segment_by_stream' = largest_segment_by_stream
  BY <1>9 DEF L, total_bytes, largest_segment_by_stream, Indexed, Rows
<1> QED
  BY <1>1, <1>2, <1>3, <1>7, <1>8, <1>10, <1>11

(* What is due, of any segments to come and any files                      *)
DueBy(m, big, f) ==
  SumFunction([k \in Streams |-> (HEADROOM_INTERVALS - m[k]) * big[k] - CurrentOf(f, k)])

LEMMA DueIsBy ==
  Due = DueBy(since, largest, files) /\ Due' = DueBy(since', largest', files')
BY DEF Due, DueOf, DueBy, Current, CurrentOf, NewestOf, Files

(* It changes with what changes for a single stream.                       *)
LEMMA DueChanges ==
  ASSUME NEW m \in [Streams -> Nat], NEW n \in [Streams -> Nat], NEW big \in [Streams -> Nat],
         NEW f, NEW g, \A j \in Streams : CurrentOf(f, j) \in Nat /\ CurrentOf(g, j) \in Nat,
         NEW k \in Streams, \A j \in Streams \ {k} : n[j] = m[j] /\ CurrentOf(g, j) = CurrentOf(f, j)
  PROVE  /\ DueBy(m, big, f) \in Int /\ DueBy(n, big, g) \in Int
         /\ n[k] = m[k] => DueBy(n, big, g) = DueBy(m, big, f) + CurrentOf(f, k) - CurrentOf(g, k)
         /\ n[k] = m[k] + 1 =>
              DueBy(n, big, g) = DueBy(m, big, f) - big[k] + CurrentOf(f, k) - CurrentOf(g, k)
<1> DEFINE a == [j \in Streams |-> (HEADROOM_INTERVALS - m[j]) * big[j] - CurrentOf(f, j)]
           b == [j \in Streams |-> (HEADROOM_INTERVALS - n[j]) * big[j] - CurrentOf(g, j)]
<1>1. /\ HEADROOM_INTERVALS \in Int /\ \A j \in Streams : m[j] \in Int /\ n[j] \in Int /\ big[j] \in Int
  BY LimitsAssumption
<1>2. \A j \in Streams : /\ (HEADROOM_INTERVALS - m[j]) * big[j] \in Int
                         /\ (HEADROOM_INTERVALS - n[j]) * big[j] \in Int
  BY <1>1, Distributes
<1>3. a \in [Streams -> Int] /\ b \in [Streams -> Int]
  BY <1>2
<1>4. \A j \in Streams \ {k} : b[j] = a[j]
  OBVIOUS
<1>5. n[k] = m[k] => b[k] = a[k] + CurrentOf(f, k) - CurrentOf(g, k)
  <2>1. PICK x \in Int : x = (HEADROOM_INTERVALS - m[k]) * big[k]
    BY <1>2
  <2> QED
    BY <2>1
<1>6. n[k] = m[k] + 1 => b[k] = a[k] - big[k] + CurrentOf(f, k) - CurrentOf(g, k)
  <2>1. (HEADROOM_INTERVALS - (m[k] + 1)) * big[k] = (HEADROOM_INTERVALS - m[k]) * big[k] - big[k]
    BY <1>1, Distributes
  <2>2. PICK x \in Int : x = (HEADROOM_INTERVALS - m[k]) * big[k]
    BY <1>2
  <2> QED
    BY <1>1, <2>1, <2>2
<1>7. DueBy(m, big, f) = SumFunction(a) /\ DueBy(n, big, g) = SumFunction(b)
  BY DEF DueBy
<1>8. a[k] \in Int /\ b[k] \in Int /\ CurrentOf(f, k) \in Int /\ CurrentOf(g, k) \in Int
      /\ big[k] \in Int
  BY <1>1, <1>3
<1> HIDE DEF a, b
<1>9. /\ SumFunction(a) \in Int /\ SumFunction(b) \in Int
      /\ SumFunction(b) = SumFunction(a) + b[k] - a[k]
  BY <1>3, <1>4, SumChanges, DiskAssumption
<1> QED
  BY <1>5, <1>6, <1>7, <1>8, <1>9

LEMMA OpeningTakesRoom ==
  ASSUME TypeOK, Types, Room, NEW k \in Streams, Opens(k), TypeOK', Types'
  PROVE  Room'
<1>1. /\ Free' = Free /\ CurrentOf(files', k) = 0 /\ largest' = largest /\ made' = made
      /\ \A j : j # k => CurrentOf(files', j) = CurrentOf(files, j)
  BY OpeningTakesNone DEF Opens
<1>2. \A j : CurrentOf(files, j) \in Nat
  BY FilesAre
<1>3. ASSUME roomy'
      PROVE  /\ Free' + PreviewSize * made' >= Due'
             /\ \A j \in Streams : CurrentOf(files', j) <= largest'[j]
  <2>1. roomy /\ since[k] + 1 < HEADROOM_INTERVALS /\ since[k] \in Nat
    BY <1>3 DEF Opens, Types
  <2>2. /\ since \in [Streams -> Nat] /\ largest \in [Streams -> Nat] /\ since' \in [Streams -> Nat]
        /\ since'[k] = since[k] + 1 /\ \A j \in Streams \ {k} : since'[j] = since[j]
    <3>1. since' = [since EXCEPT ![k] = Counted(@)]
      BY DEF Opens
    <3>2. Counted(since[k]) = since[k] + 1
      BY <2>1, CountedIs, LimitsAssumption
    <3> QED
      BY <3>1, <3>2 DEF Types
  <2>3. /\ Free + PreviewSize * made >= Due
        /\ \A j \in Streams : CurrentOf(files, j) <= largest[j]
    BY <2>1, CurrentIsOf DEF Room
  <2>4. PICK g, n : g = files' /\ n = since'
    OBVIOUS
  <2>5. /\ DueBy(since, largest, files) \in Int
        /\ DueBy(n, largest, g) =
             DueBy(since, largest, files) - largest[k] + CurrentOf(files, k) - CurrentOf(g, k)
    <3>1. \A j \in Streams : CurrentOf(files, j) \in Nat /\ CurrentOf(g, j) \in Nat
      BY <1>1, <1>2, <2>4
    <3>2. \A j \in Streams \ {k} : n[j] = since[j] /\ CurrentOf(g, j) = CurrentOf(files, j)
      BY <1>1, <2>2, <2>4
    <3>3. n \in [Streams -> Nat] /\ n[k] = since[k] + 1
      BY <2>2, <2>4
    <3> QED
      BY <2>2, <3>1, <3>2, <3>3, DueChanges
  <2>6. Due' = DueBy(since, largest, files) - largest[k] + CurrentOf(files, k)
        /\ Due = DueBy(since, largest, files)
    <3>1. Due' = DueBy(n, largest, g) /\ Due = DueBy(since, largest, files)
      BY <1>1, <2>4, DueIsBy
    <3> QED
      BY <1>1, <1>2, <2>2, <2>4, <2>5, <3>1
  <2>7. Due' \in Int /\ Due \in Int /\ Due' <= Due
    BY <1>2, <2>2, <2>3, <2>5, <2>6
  <2>8. PICK x \in Int : x = Free + PreviewSize * made
    BY FreeIsInt, LimitsAssumption DEF Types
  <2>9. \A j \in Streams : CurrentOf(files', j) <= largest'[j]
    BY <1>1, <2>2, <2>3
  <2> QED
    BY <1>1, <2>3, <2>7, <2>8, <2>9
<1>4. \A j : CurrentOf(files', j) = Current(j)'
  BY DEF Current, CurrentOf, NewestOf, Files
<1> QED
  BY <1>1, <1>3, <1>4 DEF Room

(* Writing takes one of the room, and of what is due.                      *)
LEMMA WritingTakesOne ==
  ASSUME TypeOK, Types, NEW k \in Streams, Writes(k)
  PROVE  /\ Free' = Free - 1 /\ Free >= 1 /\ L' = L /\ total_bytes' = total_bytes
         /\ largest_segment_by_stream' = largest_segment_by_stream
<1>1. UNCHANGED <<rows, other, previews>> /\ Free >= 1
  BY DEF Writes
<1>2. SumFunction(files') = SumFunction(files) + 1
  BY WritingIs
<1>3. Written' = Written + 1
  BY <1>2 DEF Written
<1>4. Free' = Volume - other - Written' - PreviewSize * Cardinality(previews)
  BY <1>1 DEF Free
<1>5. Free' = Free - 1
  <2>1. PICK x \in Int : x = PreviewSize * Cardinality(previews)
    BY FreeIsInt
  <2>2. Volume \in Int /\ other \in Int /\ Written \in Int
    BY FreeIsInt, LimitsAssumption DEF Types
  <2>3. Free = Volume - other - Written - x
    BY <2>1 DEF Free
  <2> QED
    BY <1>3, <1>4, <2>1, <2>2, <2>3
<1>6. /\ L' = L /\ total_bytes' = total_bytes
      /\ largest_segment_by_stream' = largest_segment_by_stream
  BY <1>1 DEF L, total_bytes, largest_segment_by_stream, Indexed, Rows
<1> QED
  BY <1>1, <1>5, <1>6

LEMMA WritingTakesRoom ==
  ASSUME TypeOK, Types, Room, NEW k \in Streams, Writes(k)
  PROVE  Room'
<1>1. /\ Free' = Free - 1 /\ Free >= 1 /\ Free \in Int
      /\ UNCHANGED <<since, largest, made>>
  BY WritingTakesOne, FreeIsInt DEF Writes
<1>2. /\ CurrentOf(files', k) = CurrentOf(files, k) + 1
      /\ \A j : j # k => CurrentOf(files', j) = CurrentOf(files, j)
      /\ roomy' => roomy /\ CurrentOf(files, k) + 1 <= largest[k]
  BY WritingIs
<1>3. \A j : CurrentOf(files, j) \in Nat
  BY FilesAre
<1>4. ASSUME roomy'
      PROVE  /\ Free' + PreviewSize * made' >= Due'
             /\ \A j \in Streams : CurrentOf(files', j) <= largest'[j]
  <2>1. /\ roomy /\ Free + PreviewSize * made >= Due
        /\ \A j \in Streams : CurrentOf(files, j) <= largest[j]
    BY <1>2, <1>4, CurrentIsOf DEF Room
  <2>2. PICK g : g = files'
    OBVIOUS
  <2>3. /\ DueBy(since, largest, files) \in Int
        /\ DueBy(since, largest, g) =
             DueBy(since, largest, files) + CurrentOf(files, k) - CurrentOf(g, k)
    <3>1. \A j \in Streams : CurrentOf(files, j) \in Nat /\ CurrentOf(g, j) \in Nat
      BY <1>2, <1>3, <2>2
    <3>2. \A j \in Streams \ {k} : since[j] = since[j] /\ CurrentOf(g, j) = CurrentOf(files, j)
      BY <1>2, <2>2
    <3>3. since \in [Streams -> Nat] /\ largest \in [Streams -> Nat]
      BY DEF Types
    <3> QED
      BY <3>1, <3>2, <3>3, DueChanges
  <2>4. Due = DueBy(since, largest, files) /\ Due' = DueBy(since, largest, g)
    BY <1>1, <2>2, DueIsBy
  <2>5. Due' = Due - 1 /\ Due \in Int
    BY <1>2, <1>3, <2>2, <2>3, <2>4
  <2>6. PICK x \in Int : x = PreviewSize * made
    BY LimitsAssumption DEF Types
  <2>7. \A j \in Streams : CurrentOf(files', j) <= largest'[j]
    BY <1>1, <1>2, <1>4, <2>1
  <2> QED
    BY <1>1, <2>1, <2>5, <2>6, <2>7
<1>5. \A j : CurrentOf(files', j) = Current(j)'
  BY DEF Current, CurrentOf, NewestOf, Files
<1> QED
  BY <1>1, <1>4, <1>5 DEF Room

(* A preview takes its size, which is counted.                             *)
LEMMA ShootingTakesRoom ==
  ASSUME TypeOK, Types, Room, Shoots
  PROVE  Room'
<1>1. PICK s : s \notin previews /\ previews' = previews \cup {s}
  BY DEF Shoots
<1>2. /\ UNCHANGED <<files, other, since, largest, roomy>> /\ made' = made + 1
      /\ Free >= PreviewSize
  BY DEF Shoots
<1>3. IsFiniteSet(previews) /\ Cardinality(previews) \in Nat
  BY FreeIsInt, FS_CardinalityType
<1>4. Cardinality(previews') = Cardinality(previews) + 1
  BY <1>1, <1>3, FS_AddElement
<1>5. PreviewSize \in Int /\ made \in Int
  BY LimitsAssumption DEF Types
<1>6. PICK x \in Int, y \in Int : x = PreviewSize * Cardinality(previews) /\ y = PreviewSize * made
  BY <1>3, <1>5
<1>7. PreviewSize * (Cardinality(previews) + 1) = x + PreviewSize
  BY <1>3, <1>5, <1>6
<1>8. PreviewSize * made' = y + PreviewSize
  BY <1>2, <1>5, <1>6
<1>9. Free' = Free - PreviewSize
  <2>1. Volume \in Int /\ other \in Int /\ Written \in Int
    BY FreeIsInt, LimitsAssumption DEF Types
  <2>2. Free' = Volume - other - Written - (x + PreviewSize)
    BY <1>2, <1>4, <1>7 DEF Free, Written
  <2>3. Free = Volume - other - Written - x
    BY <1>6 DEF Free
  <2> QED
    BY <1>5, <1>6, <2>1, <2>2, <2>3
<1>10. Free \in Int /\ Free' >= 0 /\ Free' + PreviewSize * made' = Free + PreviewSize * made
  BY <1>2, <1>5, <1>6, <1>8, <1>9, FreeIsInt
<1>11. Due' = Due /\ \A k : Current(k)' = Current(k)
  BY <1>2 DEF Due, DueOf, Current, Files
<1> QED
  BY <1>2, <1>10, <1>11 DEF Room

(* Deleting what the plan names frees what the index knows of it, or more. *)
LEMMA DeletingFrees ==
  ASSUME TypeOK, Types, NEW D \in SUBSET (Rows \ Newest(Rows)),
         files' = Restrict(files, Files \ D), previews' = previews \ D,
         rows' = Restrict(rows, Rows \ D), other' = other
  PROVE  /\ Free' \in Int /\ Free' >= Free + Indexed(D)
         /\ Rows' = Rows \ D /\ \A s \in Rows' : rows'[s] = rows[s]
         /\ \A S \in SUBSET Rows' : Indexed(S)' = Indexed(S)
         /\ total_bytes' = total_bytes - Indexed(D)
         /\ total_bytes \in Nat /\ Indexed(D) \in Nat /\ total_bytes' \in Nat
         /\ \A k : CurrentOf(files', k) = CurrentOf(files, k)
<1>1. D \subseteq Files /\ D \subseteq Rows /\ Rows \subseteq Files
  BY DEF TypeOK
<1>2. PICK g : g = files'
  OBVIOUS
<1>3. /\ DOMAIN files \in SUBSET Segment /\ IsFiniteSet(DOMAIN files)
      /\ \A t \in DOMAIN files : files[t] \in Nat
      /\ D \in SUBSET DOMAIN files /\ g = Restrict(files, DOMAIN files \ D)
  BY <1>1, <1>2, FilesAre
<1>4. /\ SumFunction(g) = SumFunction(files) - SumFunctionOnSet(files, D)
      /\ SumFunctionOnSet(files, D) \in Nat
  BY <1>3, SomeAreDeleted
<1>5. Indexed(D) <= SumFunctionOnSet(files, D) /\ Indexed(D) \in Nat
  BY <1>1, IndexedAtMost, IndexedIs
<1>6. PICK x \in Nat, y \in Nat :
        /\ x = PreviewSize * Cardinality(previews) /\ y = PreviewSize * Cardinality(previews')
        /\ y <= x
  <2>1. IsFiniteSet(previews)
    BY FreeIsInt
  <2>2. /\ Cardinality(previews) \in Nat /\ Cardinality(previews') \in Nat
        /\ Cardinality(previews') <= Cardinality(previews)
    BY <2>1, FS_Subset, FS_CardinalityType
  <2>3. PICK a \in Nat, b \in Nat : a = Cardinality(previews) /\ b = Cardinality(previews') /\ b <= a
    BY <2>2
  <2>4. PICK p \in Nat : p = PreviewSize
    BY LimitsAssumption
  <2>5. p * a \in Nat /\ p * b \in Nat /\ p * b <= p * a
    <3>1. p * (a - b) \in Nat /\ p * (a - b) = p * a - p * b
      BY <2>3
    <3> QED
      BY <3>1
  <2> QED
    BY <2>3, <2>4, <2>5
<1>7. Free' \in Int /\ Free' >= Free + Indexed(D)
  <2>1. Written' = SumFunction(g) /\ Written = SumFunction(files) /\ Written \in Int
    BY <1>2, FreeIsInt DEF Written
  <2>2. Free' = Volume - other - Written' - y /\ Free = Volume - other - Written - x
    BY <1>6 DEF Free
  <2>3. Volume \in Int /\ other \in Int
    BY LimitsAssumption DEF Types
  <2> QED
    BY <1>4, <1>5, <1>6, <2>1, <2>2, <2>3
<1>8. Rows' = Rows \ D /\ \A s \in Rows' : rows'[s] = rows[s]
  BY DEF Restrict, Rows
<1>9. ASSUME NEW S \in SUBSET Rows'
      PROVE  SumFunctionOnSet(rows', S) = SumFunctionOnSet(rows, S)
  <2>1. IsFiniteSet(S)
    BY <1>8, RowsAre, FS_Subset
  <2>2. \A s \in S : rows'[s] \in Int /\ rows'[s] = rows[s]
    <3>1. \A s \in Rows : rows[s] \in Int
      BY RowsAre
    <3>2. \A s \in S : s \in Rows' /\ s \in Rows
      BY <1>8
    <3> QED
      BY <1>8, <3>1, <3>2
  <2>3. PICK r : r = rows'
    OBVIOUS
  <2> QED
    BY <2>1, <2>2, <2>3, SumSame
<1>10. \A S \in SUBSET Rows' : Indexed(S)' = Indexed(S)
  BY <1>9 DEF Indexed
<1>11. /\ Indexed(Rows) = Indexed(D) + Indexed(Rows \ D)
       /\ Indexed(Rows) \in Nat /\ Indexed(D) \in Nat /\ Indexed(Rows \ D) \in Nat
  BY <1>1, IndexedIs
<1>12. total_bytes' = Indexed(Rows \ D)
  BY <1>8, <1>9 DEF total_bytes, Indexed
<1>13. /\ total_bytes' = total_bytes - Indexed(D)
       /\ total_bytes \in Nat /\ total_bytes' \in Nat
  <2>1. total_bytes = Indexed(Rows)
    BY DEF total_bytes
  <2> QED
    BY <1>11, <1>12, <2>1
<1>14. \A k : CurrentOf(files', k) = CurrentOf(files, k)
  <2>1. D \in SUBSET (DOMAIN files \ Newest(DOMAIN files))
    <3>1. ASSUME NEW s \in D, s \in Newest(Files)
          PROVE  FALSE
      <4>1. s \in Newest(Rows)
        BY <1>1, <3>1 DEF Newest, OfStream
      <4> QED
        BY <4>1
    <3> QED
      BY <1>1, <3>1 DEF Files
  <2>2. \A k : CurrentOf(g, k) = CurrentOf(files, k)
    BY <1>3, <2>1, CurrentStays
  <2> QED
    BY <1>2, <2>2
<1> QED
  BY <1>5, <1>7, <1>8, <1>10, <1>13, <1>14

(* What is due after the deletions, and what was written since the look at *)
(* the disk, are the headroom together.                                    *)
LEMMA DueAndOpened ==
  ASSUME TypeOK, Types
  PROVE  /\ DueBy(fresh, L, files) \in Int /\ Opened \in Int
         /\ DueBy(fresh, L, files) + Opened = HEADROOM_INTERVALS * SumFunction(L)
<1> DEFINE H == HEADROOM_INTERVALS
<1>1. /\ fresh \in [Streams -> Nat] /\ L \in [Streams -> Nat] /\ H \in Nat
      /\ IsFiniteSet(Streams) /\ \A k : CurrentOf(files, k) \in Nat
  BY LimitsAssumption, DiskAssumption, HeadroomIs, FilesAre DEF Types
<1>2. PICK f : f = [k \in Streams |-> (H - fresh[k]) * L[k]]
  OBVIOUS
<1>3. PICK g : g = [k \in Streams |-> fresh[k] * L[k]]
  OBVIOUS
<1>4. PICK c : c = [k \in Streams |-> CurrentOf(files, k)]
  OBVIOUS
<1>5. PICK d : d = [k \in Streams |-> (H - fresh[k]) * L[k] - CurrentOf(files, k)]
  OBVIOUS
<1>6. PICK o : o = [k \in Streams |-> fresh[k] * L[k] + CurrentOf(files, k)]
  OBVIOUS
<1>7. DueBy(fresh, L, files) = SumFunction(d) /\ Opened = SumFunction(o)
  BY <1>5, <1>6, CurrentIsOf DEF DueBy
<1>8. /\ SumFunction(f) \in Int /\ SumFunction(g) \in Nat
      /\ SumFunction(f) + SumFunction(g) = H * SumFunction(L)
  BY <1>1, <1>2, <1>3, SumShares
<1>9. \A k \in Streams : /\ f[k] \in Int /\ g[k] \in Int /\ c[k] \in Int
                         /\ d[k] = f[k] - c[k] /\ o[k] = g[k] + c[k]
  <2>1. ASSUME NEW k \in Streams
        PROVE  /\ f[k] \in Int /\ g[k] \in Int /\ c[k] \in Int
               /\ d[k] = f[k] - c[k] /\ o[k] = g[k] + c[k]
    <3>1. H \in Int /\ fresh[k] \in Int /\ L[k] \in Int
      BY <1>1
    <3>2. (H - fresh[k]) * L[k] \in Int /\ fresh[k] * L[k] \in Int
      BY <3>1, Distributes
    <3> QED
      BY <1>1, <1>2, <1>3, <1>4, <1>5, <1>6, <3>2
  <2> QED
    BY <2>1
<1>10. /\ SumFunction(c) \in Int /\ SumFunction(d) \in Int /\ SumFunction(o) \in Int
       /\ SumFunction(f) = SumFunction(d) + SumFunction(c)
       /\ SumFunction(o) = SumFunction(g) + SumFunction(c)
  <2>1. /\ DOMAIN f = Streams /\ DOMAIN g = Streams /\ DOMAIN c = Streams
        /\ DOMAIN d = Streams /\ DOMAIN o = Streams
    BY <1>2, <1>3, <1>4, <1>5, <1>6
  <2>2. \A k \in Streams : d[k] \in Int /\ o[k] \in Int /\ f[k] = d[k] + c[k]
    BY <1>9
  <2>3. SumFunctionOnSet(f, Streams) = SumFunctionOnSet(d, Streams) + SumFunctionOnSet(c, Streams)
    BY <1>1, <1>9, <2>2, SumOfSums
  <2>4. SumFunctionOnSet(o, Streams) = SumFunctionOnSet(g, Streams) + SumFunctionOnSet(c, Streams)
    BY <1>1, <1>9, <2>2, SumOfSums
  <2>5. /\ SumFunctionOnSet(c, Streams) \in Int /\ SumFunctionOnSet(d, Streams) \in Int
        /\ SumFunctionOnSet(o, Streams) \in Int
    BY <1>1, <1>9, <2>2, SumInt
  <2> QED
    BY <2>1, <2>3, <2>4, <2>5 DEF SumFunction
<1> HIDE DEF H
<1>11. PICK w : w = H * SumFunction(L)
  OBVIOUS
<1>12. SumFunction(d) + SumFunction(o) = w
  BY <1>8, <1>10, <1>11
<1> QED
  BY <1>7, <1>10, <1>11, <1>12 DEF H

(* What is left of what was measured is enough for what is due.            *)
LEMMA RetainingMakesRoom ==
  ASSUME TypeOK, Types, Room, Measured, Retain
  PROVE  Room'
<1> DEFINE budget == async_budget(ceiling)
           D == Doomed(budget)
           W == measured_headroom(L)
<1>1. /\ D \in SUBSET (Rows \ Newest(Rows))
      /\ files' = Restrict(files, Files \ D) /\ previews' = previews \ D
      /\ rows' = Restrict(rows, Rows \ D) /\ other' = other
  BY PlanIs DEF Retain
<1>2. /\ Free' >= Free + Indexed(D) /\ Free' \in Int
      /\ total_bytes \in Nat /\ Indexed(D) \in Nat
      /\ \A k : CurrentOf(files', k) = CurrentOf(files, k)
  <2> HIDE DEF D
  <2> QED
    BY <1>1, DeletingFrees
<1>3. Free \in Int /\ Free >= 0
  BY FreeIsInt DEF Room
<1>4. CASE ~roomy'
  <2> HIDE DEF D
  <2> QED
    BY <1>2, <1>3, <1>4 DEF Room
<1>5. CASE roomy'
  <2>1. /\ ceiling # Unknown /\ Shortfall(budget) = 0 /\ seen # "other" /\ AsReckoned
        /\ 2 * W <= usable_capacity(Free, total_bytes)
        /\ pass = "measured" /\ since' = fresh /\ largest' = L /\ made' = 0
    BY <1>5 DEF Retain, L, AsReckoned
  <2>2. PICK n \in Nat : ceiling = async_ceiling(Free + n) /\ n <= Opened
    BY <2>1 DEF Measured
  <2>3. /\ L \in [Streams -> Nat] /\ SumFunction(L) \in Nat /\ W \in Nat
        /\ HEADROOM_INTERVALS * SumFunction(L) <= W
    BY HeadroomIs
  <2>4. /\ Opened \in Int /\ Due' \in Int
        /\ Due' + Opened = HEADROOM_INTERVALS * SumFunction(L)
    <3>1. /\ DueBy(fresh, L, files) \in Int /\ Opened \in Int
          /\ DueBy(fresh, L, files) + Opened = HEADROOM_INTERVALS * SumFunction(L)
      BY DueAndOpened
    <3>2. Due' = DueBy(fresh, L, files')
      BY <2>1, DueIsBy
    <3>3. DueBy(fresh, L, files') = DueBy(fresh, L, files)
      BY <1>2 DEF DueBy
    <3> QED
      BY <3>1, <3>2, <3>3
  <2> HIDE DEF W, D
  <2>5. /\ usable_capacity(Free, total_bytes) = Free + total_bytes
        /\ ceiling = CeilingOf(Free + n + total_bytes, W)
    <3>1. Free + n \in Int /\ Free + n >= 0
      BY <1>3
    <3>2. /\ usable_capacity(Free, total_bytes) = Free + total_bytes
          /\ usable_capacity(Free + n, total_bytes) = Free + n + total_bytes
          /\ async_ceiling(Free + n) = CeilingOf(usable_capacity(Free + n, total_bytes), W)
      BY <1>2, <1>3, <2>3, <3>1, CeilingIs DEF W
    <3> QED
      BY <2>2, <3>2
  <2>6. ceiling = Free + n + total_bytes - W /\ ceiling \in Nat /\ 2 * W <= Free + total_bytes
    <3>1. PICK c \in Nat : c = Free + n + total_bytes
      BY <1>2, <1>3
    <3>2. 2 * W <= c /\ 2 * W <= Free + total_bytes
      BY <1>2, <1>3, <2>1, <2>3, <2>5, <3>1
    <3>3. W <= c \div 2 /\ W <= c
      BY <2>3, <3>1, <3>2
    <3>4. CeilingOf(c, W) = c - W
      BY <3>3 DEF CeilingOf
    <3>5. ceiling = c - W
      BY <2>5, <3>1, <3>4
    <3> QED
      BY <1>2, <1>3, <2>3, <3>1, <3>2, <3>3, <3>5
  <2>7. budget \in Nat /\ budget <= (IF ceiling <= 1 THEN 1 ELSE ceiling)
    <3>1. policy.total \in (Nat \ {0}) \cup {NoLimit}
      BY PolicyIs
    <3>2. PICK p : p = policy.total
      OBVIOUS
    <3> QED
      BY <2>1, <2>6, <3>1, <3>2, BudgetIs DEF NoLimit
  <2>8. Indexed(Rows \ D) \in Nat /\ total_bytes = Indexed(D) + Indexed(Rows \ D)
    BY <1>1, IndexedIs DEF total_bytes
  <2>9. Indexed(Rows \ D) <= budget
    <3>1. Shortfall(budget) = Max({0, Indexed(Rows \ D) - budget})
      BY <2>7 DEF Shortfall, D, NoLimit
    <3>2. PICK m \in Int : m = Indexed(Rows \ D) - budget
      BY <2>7, <2>8
    <3>3. m <= 0
      <4>1. Max({0, m}) = 0
        BY <2>1, <3>1, <3>2
      <4>2. Max({0, m}) = IF m <= 0 THEN 0 ELSE m
        BY <3>2, OfTwo
      <4> QED
        BY <3>2, <4>1, <4>2
    <3> QED
      BY <2>7, <2>8, <3>2, <3>3
  <2>10. Free' >= W - n
    BY <1>2, <1>3, <2>2, <2>3, <2>6, <2>7, <2>8, <2>9
  <2>11. Due' <= W - n
    <3>1. PICK q \in Int : q = HEADROOM_INTERVALS * SumFunction(L)
      BY <2>3, LimitsAssumption
    <3> QED
      BY <2>2, <2>3, <2>4, <3>1
  <2>12. Free' >= 0 /\ Free' + PreviewSize * made' = Free'
    <3>1. PreviewSize * 0 = 0
      BY LimitsAssumption
    <3> QED
      BY <1>2, <1>3, <2>1, <3>1
  <2>13. \A k \in Streams : Current(k)' <= largest'[k]
    <3>1. ASSUME NEW k \in Streams
          PROVE  CurrentOf(files, k) <= L[k]
      BY <2>1, <2>3, <3>1, CurrentAsReckoned DEF AsReckoned
    <3>2. \A k : Current(k)' = CurrentOf(files', k)
      BY DEF Current, CurrentOf, NewestOf, Files
    <3> QED
      BY <1>2, <2>1, <3>1, <3>2
  <2> QED
    BY <1>2, <2>2, <2>3, <2>4, <2>10, <2>11, <2>12, <2>13 DEF Room
<1> QED
  BY <1>4, <1>5

LEMMA RoomKept ==
  ASSUME TypeOK, Types, Room, Measured, [Next]_vars, TypeOK', Types'
  PROVE  Room'
<1>1. ASSUME NEW k \in Streams, Opens(k)
      PROVE  Room'
  BY <1>1, OpeningTakesRoom
<1>2. ASSUME NEW k \in Streams, Writes(k)
      PROVE  Room'
  BY <1>2, WritingTakesRoom
<1>3. CASE OtherChanges
  <2>1. other' <= other + Free /\ files' = files /\ previews' = previews /\ ~roomy'
    BY <1>3 DEF OtherChanges
  <2>2. Free \in Int /\ other \in Int /\ other' \in Int /\ Volume \in Int /\ Written \in Int
    BY FreeIsInt, LimitsAssumption DEF Types
  <2>3. PICK x \in Int : x = PreviewSize * Cardinality(previews)
    BY FreeIsInt
  <2>4. Free' = Volume - other' - Written - x /\ Free = Volume - other - Written - x
    BY <2>1, <2>3 DEF Free, Written
  <2>5. Free' >= 0
    BY <2>1, <2>2, <2>3, <2>4
  <2> QED
    BY <2>1, <2>5 DEF Room
<1>4. CASE Shoots
  BY <1>4, ShootingTakesRoom
<1>5. CASE Retain
  BY <1>5, RetainingMakesRoom
<1>6. CASE UNCHANGED <<files, previews, other, roomy, since, largest, made>>
  BY <1>6 DEF Room, Due, DueOf, Current, Files, Free, Written
<1> QED
  BY <1>1, <1>2, <1>3, <1>4, <1>5, <1>6 DEF Next, Scan, ScanRest, Measure, vars, growthVars

(* What was written since the look at the disk is what is missing of it.   *)
OpenedBy(m, big, f) == SumFunction([k \in Streams |-> m[k] * big[k] + CurrentOf(f, k)])

LEMMA OpenedIsBy ==
  Opened = OpenedBy(fresh, L, files) /\ Opened' = OpenedBy(fresh', L', files')
BY DEF Opened, OpenedBy, Current, CurrentOf, NewestOf, Files

LEMMA OpenedChanges ==
  ASSUME NEW a \in [Streams -> Nat], NEW b \in [Streams -> Nat], NEW big \in [Streams -> Nat],
         NEW f, NEW g, \A j \in Streams : CurrentOf(f, j) \in Nat /\ CurrentOf(g, j) \in Nat,
         NEW k \in Streams, \A j \in Streams \ {k} : b[j] = a[j] /\ CurrentOf(g, j) = CurrentOf(f, j)
  PROVE  /\ OpenedBy(a, big, f) \in Int /\ OpenedBy(b, big, g) \in Int
         /\ b[k] = a[k] =>
              OpenedBy(b, big, g) = OpenedBy(a, big, f) + CurrentOf(g, k) - CurrentOf(f, k)
         /\ b[k] = a[k] + 1 =>
              OpenedBy(b, big, g) = OpenedBy(a, big, f) + big[k] + CurrentOf(g, k) - CurrentOf(f, k)
<1> DEFINE x == [j \in Streams |-> a[j] * big[j] + CurrentOf(f, j)]
           y == [j \in Streams |-> b[j] * big[j] + CurrentOf(g, j)]
<1>1. \A j \in Streams : /\ a[j] \in Int /\ b[j] \in Int /\ big[j] \in Int
                         /\ a[j] * big[j] \in Int /\ b[j] * big[j] \in Int
                         /\ x[j] = a[j] * big[j] + CurrentOf(f, j)
                         /\ y[j] = b[j] * big[j] + CurrentOf(g, j)
  OBVIOUS
<1>2. x \in [Streams -> Int] /\ y \in [Streams -> Int]
  BY <1>1
<1>3. \A j \in Streams \ {k} : y[j] = x[j]
  BY <1>1
<1>4. b[k] = a[k] => y[k] = x[k] + CurrentOf(g, k) - CurrentOf(f, k)
  <2>1. PICK p \in Int : p = a[k] * big[k]
    BY <1>1
  <2> QED
    BY <1>1, <2>1
<1>5. b[k] = a[k] + 1 => y[k] = x[k] + big[k] + CurrentOf(g, k) - CurrentOf(f, k)
  <2>1. (a[k] + 1) * big[k] = a[k] * big[k] + big[k]
    BY <1>1, OneMore
  <2>2. PICK p \in Int : p = a[k] * big[k]
    BY <1>1
  <2>3. x[k] = p + CurrentOf(f, k) /\ big[k] \in Int
    BY <1>1, <2>2
  <2> QED
    BY <1>1, <2>1, <2>2, <2>3
<1>6. /\ x[k] \in Int /\ y[k] \in Int /\ CurrentOf(f, k) \in Int /\ CurrentOf(g, k) \in Int
      /\ big[k] \in Int
  BY <1>1, <1>2
<1> HIDE DEF x, y
<1>7. /\ SumFunction(x) \in Int /\ SumFunction(y) \in Int
      /\ SumFunction(y) = SumFunction(x) + y[k] - x[k]
  BY <1>2, <1>3, SumChanges, DiskAssumption
<1>8. OpenedBy(a, big, f) = SumFunction(x) /\ OpenedBy(b, big, g) = SumFunction(y)
  BY DEF OpenedBy, x, y
<1> QED
  BY <1>4, <1>5, <1>6, <1>7, <1>8

LEMMA OpenedIs ==
  TypeOK /\ Types =>
    /\ Opened \in Nat
    /\ Opened = SumFunction([k \in Streams |-> fresh[k] * L[k] + CurrentOf(files, k)])
<1> SUFFICES ASSUME TypeOK, Types
             PROVE  Opened \in Nat
  BY CurrentIsOf
<1>1. PICK x : x = [k \in Streams |-> fresh[k] * L[k] + CurrentOf(files, k)]
  OBVIOUS
<1>2. fresh \in [Streams -> Nat] /\ L \in [Streams -> Nat] /\ \A k : CurrentOf(files, k) \in Nat
  BY HeadroomIs, FilesAre DEF Types
<1>3. \A k \in Streams : x[k] \in Nat
  BY <1>1, <1>2
<1>4. SumFunctionOnSet(x, Streams) \in Nat
  BY <1>3, SumNat, DiskAssumption
<1> QED
  BY <1>1, <1>4, CurrentIsOf DEF SumFunction

(* The least that can be said of what was measured: n is still missing.    *)
Missing(n) ==
  /\ ceiling = async_ceiling(Free + n)
  /\ seen = "nothing" => n = 0
  /\ AsReckoned => n <= Opened

LEMMA OpeningMeasured ==
  ASSUME TypeOK, Types, TypeOK', Types', NEW k \in Streams, Opens(k), NEW n \in Nat, Missing(n)
  PROVE  /\ ceiling' = async_ceiling(Free + n)' /\ (seen' = "nothing" => n = 0)
         /\ AsReckoned' => n <= Opened'
<1>1. /\ Free' = Free /\ L' = L /\ total_bytes' = total_bytes
      /\ largest_segment_by_stream' = largest_segment_by_stream
      /\ CurrentOf(files', k) = 0 /\ \A j : j # k => CurrentOf(files', j) = CurrentOf(files, j)
      /\ Files \subseteq Files' /\ \A s \in Files : files'[s] = files[s]
  BY OpeningTakesNone
<1>2. /\ ceiling' = ceiling /\ seen' # "nothing"
      /\ fresh' = [fresh EXCEPT ![k] = Counted(@)]
  BY DEF Opens, Grows
<1>3. async_ceiling(Free + n)' = async_ceiling(Free + n)
  BY <1>1 DEF async_ceiling
<1>4. ASSUME AsReckoned'
      PROVE  n <= Opened'
  <2>1. fresh \in [Streams -> Nat] /\ fresh' \in [Streams -> Nat] /\ L \in [Streams -> Nat]
    BY HeadroomIs DEF Types
  <2>2. fresh'[k] = fresh[k] + 1 /\ \A j \in Streams \ {k} : fresh'[j] = fresh[j]
    <3>1. fresh'[k] = Counted(fresh[k]) /\ fresh[k] \in Nat /\ fresh'[k] < HEADROOM_INTERVALS
      BY <1>2, <1>4, <2>1 DEF AsReckoned
    <3> QED
      BY <1>2, <2>1, <3>1, CountedIs, LimitsAssumption
  <2>3. AsReckoned
    <3>1. \A s \in Files : files[s] <= L[s.stream]
      BY <1>1, <1>4 DEF AsReckoned
    <3>2. \A j \in Streams : fresh[j] <= fresh'[j]
      BY <2>1, <2>2
    <3>3. \A j \in Streams : fresh[j] < HEADROOM_INTERVALS
      BY <1>4, <2>1, <3>2, LimitsAssumption DEF AsReckoned
    <3> QED
      BY <3>1, <3>3 DEF AsReckoned
  <2>4. \A j \in Streams : CurrentOf(files, j) \in Nat /\ CurrentOf(files', j) \in Nat
    BY <1>1, FilesAre
  <2>5. CurrentOf(files, k) <= L[k]
    BY <2>1, <2>3, CurrentAsReckoned DEF AsReckoned
  <2>6. PICK b, g : b = fresh' /\ g = files'
    OBVIOUS
  <2>7. Opened = OpenedBy(fresh, L, files) /\ Opened' = OpenedBy(b, L, g)
    BY <1>1, <2>6, OpenedIsBy
  <2>8. /\ OpenedBy(fresh, L, files) \in Int
        /\ OpenedBy(b, L, g) =
             OpenedBy(fresh, L, files) + L[k] + CurrentOf(g, k) - CurrentOf(files, k)
    <3>1. \A j \in Streams \ {k} : b[j] = fresh[j] /\ CurrentOf(g, j) = CurrentOf(files, j)
      BY <1>1, <2>2, <2>6
    <3>2. b \in [Streams -> Nat] /\ b[k] = fresh[k] + 1
      BY <2>1, <2>2, <2>6
    <3>3. \A j \in Streams : CurrentOf(files, j) \in Nat /\ CurrentOf(g, j) \in Nat
      BY <2>4, <2>6
    <3> QED
      BY <2>1, <3>1, <3>2, <3>3, OpenedChanges
  <2>9. n <= Opened
    BY <2>3 DEF Missing
  <2> QED
    BY <1>1, <2>1, <2>4, <2>5, <2>7, <2>6, <2>8, <2>9
<1> QED
  BY <1>2, <1>3, <1>4 DEF Missing

LEMMA WritingMeasured ==
  ASSUME TypeOK, Types, TypeOK', Types', NEW k \in Streams, Writes(k), NEW n \in Nat, Missing(n)
  PROVE  /\ n + 1 \in Nat
         /\ ceiling' = async_ceiling(Free + (n + 1))' /\ (seen' = "nothing" => n + 1 = 0)
         /\ AsReckoned' => n + 1 <= Opened'
<1>1. /\ Free' = Free - 1 /\ L' = L /\ total_bytes' = total_bytes
      /\ largest_segment_by_stream' = largest_segment_by_stream
  BY WritingTakesOne
<1>2. /\ CurrentOf(files', k) = CurrentOf(files, k) + 1
      /\ \A j : j # k => CurrentOf(files', j) = CurrentOf(files, j)
      /\ Files' = Files /\ \A s \in Files : files[s] <= files'[s]
  BY WritingIs
<1>3. ceiling' = ceiling /\ seen' # "nothing" /\ fresh' = fresh
  BY DEF Writes, Grows
<1>4. Free' + (n + 1) = Free + n
  BY <1>1, FreeIsInt
<1>5. async_ceiling(Free + (n + 1))' = async_ceiling(Free + n)
  BY <1>1, <1>4 DEF async_ceiling
<1>6. ASSUME AsReckoned'
      PROVE  n + 1 <= Opened'
  <2>1. fresh \in [Streams -> Nat] /\ L \in [Streams -> Nat]
    BY HeadroomIs DEF Types
  <2>2. AsReckoned
    <3>1. ASSUME NEW s \in Files
          PROVE  files[s] <= L[s.stream]
      <4>1. files'[s] <= L[s.stream] /\ files[s] <= files'[s]
        BY <1>1, <1>2, <1>6 DEF AsReckoned
      <4>2. files[s] \in Int /\ files'[s] \in Int /\ L[s.stream] \in Int
        BY <1>2, <2>1 DEF Types, Segment
      <4> QED
        BY <4>1, <4>2
    <3> QED
      BY <1>3, <1>6, <3>1 DEF AsReckoned
  <2>3. \A j \in Streams : CurrentOf(files, j) \in Nat /\ CurrentOf(files', j) \in Nat
    BY <1>2, FilesAre
  <2>4. PICK g : g = files'
    OBVIOUS
  <2>5. Opened = OpenedBy(fresh, L, files) /\ Opened' = OpenedBy(fresh, L, g)
    BY <1>1, <1>3, <2>4, OpenedIsBy
  <2>6. /\ OpenedBy(fresh, L, files) \in Int
        /\ OpenedBy(fresh, L, g) =
             OpenedBy(fresh, L, files) + CurrentOf(g, k) - CurrentOf(files, k)
    <3>1. \A j \in Streams \ {k} : fresh[j] = fresh[j] /\ CurrentOf(g, j) = CurrentOf(files, j)
      BY <1>2, <2>4
    <3>2. \A j \in Streams : CurrentOf(files, j) \in Nat /\ CurrentOf(g, j) \in Nat
      BY <2>3, <2>4
    <3> QED
      BY <2>1, <3>1, <3>2, OpenedChanges
  <2>7. n <= Opened
    BY <2>2 DEF Missing
  <2> QED
    BY <1>2, <2>3, <2>5, <2>4, <2>6, <2>7
<1> QED
  BY <1>3, <1>5, <1>6 DEF Missing

LEMMA MeasuredKept ==
  ASSUME TypeOK, Types, Measured, [Next]_vars, TypeOK', Types'
  PROVE  Measured'
<1>1. ASSUME NEW k \in Streams, Opens(k) \/ Writes(k), pass' = "measured", ceiling' # Unknown,
             seen' # "other"
      PROVE  \E n \in Nat : Missing(n)
  <2>1. pass = "measured" /\ ceiling # Unknown /\ seen # "other"
    BY <1>1 DEF Opens, Writes, Grows
  <2> QED
    BY <2>1 DEF Measured, Missing
<1>2. ASSUME NEW k \in Streams, Opens(k)
      PROVE  Measured'
  <2>1. ASSUME pass' = "measured", ceiling' # Unknown, seen' # "other"
        PROVE  \E n \in Nat : /\ ceiling' = async_ceiling(Free + n)'
                              /\ seen' = "nothing" => n = 0
                              /\ AsReckoned' => n <= Opened'
    <3>1. PICK n \in Nat : Missing(n)
      BY <1>1, <1>2, <2>1
    <3> QED
      BY <1>2, <3>1, OpeningMeasured
  <2> QED
    BY <2>1 DEF Measured
<1>3. ASSUME NEW k \in Streams, Writes(k)
      PROVE  Measured'
  <2>1. ASSUME pass' = "measured", ceiling' # Unknown, seen' # "other"
        PROVE  \E n \in Nat : /\ ceiling' = async_ceiling(Free + n)'
                              /\ seen' = "nothing" => n = 0
                              /\ AsReckoned' => n <= Opened'
    <3>1. PICK n \in Nat : Missing(n)
      BY <1>1, <1>3, <2>1
    <3>2. PICK m \in Nat : m = n + 1
      BY <3>1
    <3>3. ceiling' = async_ceiling(Free + m)' /\ (seen' = "nothing" => m = 0)
      BY <1>3, <3>1, <3>2, WritingMeasured
    <3>4. AsReckoned' => m <= Opened'
      BY <1>3, <3>1, <3>2, WritingMeasured
    <3> QED
      BY <3>3, <3>4
  <2> QED
    BY <2>1 DEF Measured
<1>4. CASE Measure
  <2>1. /\ ceiling' \in {async_ceiling(Free), Unknown} /\ seen' = "nothing"
        /\ UNCHANGED <<files, previews, rows, other>>
    BY <1>4 DEF Measure
  <2>2. Free' = Free /\ Free + 0 = Free
    BY <2>1, FreeIsInt DEF Free, Written
  <2>3. async_ceiling(Free + 0)' = async_ceiling(Free)
    BY <2>1, <2>2 DEF async_ceiling, total_bytes, Indexed, largest_segment_by_stream, Rows
  <2>4. Opened' \in Nat
    <3>1. (TypeOK /\ Types =>
             /\ Opened \in Nat
             /\ Opened = SumFunction([k \in Streams |-> fresh[k] * L[k] + CurrentOf(files, k)]))'
      BY OpenedIs, PTL
    <3> QED
      BY <3>1
  <2>5. 0 <= Opened'
    BY <2>4
  <2> QED
    BY <2>1, <2>3, <2>5 DEF Measured
<1>5. CASE OtherChanges
  BY <1>5 DEF OtherChanges, Measured
<1>6. CASE Scan \/ ScanRest \/ Shoots \/ Retain
  BY <1>6 DEF Scan, ScanRest, Shoots, Retain, Measured
<1>7. CASE UNCHANGED vars
  <2>1. UNCHANGED <<pass, ceiling, seen, files, previews, rows, other, fresh>>
    BY <1>7 DEF vars, growthVars
  <2>2. /\ Free' = Free /\ L' = L /\ Rows' = Rows /\ total_bytes' = total_bytes
        /\ largest_segment_by_stream' = largest_segment_by_stream
    BY <2>1 DEF Free, Written, L, largest_segment_by_stream, Rows, total_bytes, Indexed
  <2>3. Opened' = Opened /\ AsReckoned' = AsReckoned
    BY <2>1, <2>2 DEF Opened, AsReckoned, Current, Files
  <2>4. \A n : async_ceiling(Free + n)' = async_ceiling(Free + n)
    BY <2>2 DEF async_ceiling
  <2> QED
    BY <2>1, <2>2, <2>3, <2>4 DEF Measured
<1> QED
  BY <1>2, <1>3, <1>4, <1>5, <1>6, <1>7 DEF Next

-----------------------------------------------------------------------------
(* Deleting calls for no more deleting                                     *)

(* What is deleted leaves no less space to be had, and no more of it to    *)
(* the headroom.                                                           *)
LEMMA HeadroomGrows ==
  ASSUME NEW f, NEW g, SumFunction(f) \in Nat, SumFunction(g) \in Nat,
         SumFunction(f) <= SumFunction(g)
  PROVE  measured_headroom(f) <= measured_headroom(g)
<1>1. PICK h \in Nat, low \in Nat : h = HEADROOM_INTERVALS /\ low = MINIMUM_HEADROOM_BYTES
  BY LimitsAssumption
<1>2. PICK a \in Nat, b \in Nat : a = SumFunction(f) /\ b = SumFunction(g)
  OBVIOUS
<1>3. h * a \in Int /\ h * b \in Int /\ h * a <= h * b
  <2>1. h * (b - a) \in Nat /\ h * (b - a) = h * b - h * a
    BY <1>2
  <2> QED
    BY <2>1
<1>4. PICK x \in Int, y \in Int : x = h * a /\ y = h * b
  BY <1>3
<1>5. measured_headroom(f) = Max({low, x}) /\ measured_headroom(g) = Max({low, y})
  BY <1>1, <1>2, <1>4 DEF measured_headroom
<1>6. Max({low, x}) = (IF x <= low THEN low ELSE x) /\ Max({low, y}) = (IF y <= low THEN low ELSE y)
  BY OfTwo
<1> QED
  BY <1>3, <1>4, <1>5, <1>6

LEMMA CeilingGrows ==
  ASSUME NEW c \in Nat, NEW d \in Nat, c <= d, NEW less \in Nat, NEW more \in Nat, less <= more
  PROVE  /\ CeilingOf(c, more) \in Nat /\ CeilingOf(d, less) \in Nat
         /\ CeilingOf(c, more) <= CeilingOf(d, less)
<1>1. PICK x \in Nat : x = c \div 2 /\ 2 * x <= c /\ c <= 2 * x + 1
  OBVIOUS
<1>2. PICK y \in Nat : y = d \div 2 /\ 2 * y <= d /\ d <= 2 * y + 1
  OBVIOUS
<1>3. CeilingOf(c, more) = IF more <= x THEN c - more ELSE c - x
  BY <1>1 DEF CeilingOf
<1>4. CeilingOf(d, less) = IF less <= y THEN d - less ELSE d - y
  BY <1>2 DEF CeilingOf
<1> QED
  BY <1>1, <1>2, <1>3, <1>4

LEMMA BudgetGrows ==
  ASSUME Types, NEW a \in Nat, NEW b \in Nat, a <= b
  PROVE  /\ async_budget(a) \in Nat \ {0} /\ async_budget(b) \in Nat \ {0}
         /\ async_budget(a) <= async_budget(b)
<1>1. PICK p \in (Nat \ {0}) \cup {NoLimit} : p = policy.total
  BY PolicyIs
<1>2. /\ async_budget(a) \in Nat \ {0} /\ async_budget(b) \in Nat \ {0}
      /\ async_budget(a) = (IF a <= 1 THEN 1 ELSE IF p # NoLimit /\ p <= a THEN p ELSE a)
      /\ async_budget(b) = (IF b <= 1 THEN 1 ELSE IF p # NoLimit /\ p <= b THEN p ELSE b)
  <2>1. a # Unknown /\ b # Unknown
    BY DEF Unknown
  <2> QED
    BY <1>1, <2>1, BudgetIs DEF NoLimit
<1> QED
  BY <1>1, <1>2 DEF NoLimit

Within(limit) ==
  /\ ByAge = {}
  /\ \A s \in Candidates : Indexed(Remaining) - Indexed(OlderThan(s)) <= limit
NothingPlanned == \A limit \in Nat : Within(limit) => Doomed(limit) = {}

LEMMA NoPlan == TypeOK /\ Types => NothingPlanned
<1> SUFFICES ASSUME TypeOK, Types, NEW limit \in Nat, ByAge = {},
                    \A s \in Candidates : Indexed(Remaining) - Indexed(OlderThan(s)) <= limit
             PROVE  Doomed(limit) = {}
  BY DEF NothingPlanned, Within
<1>1. limit # NoLimit
  BY DEF NoLimit
<1>2. \A s \in Candidates : ~(Indexed(Remaining) - Indexed(OlderThan(s)) > limit)
  <2>1. ASSUME NEW s \in Candidates
        PROVE  ~(Indexed(Remaining) - Indexed(OlderThan(s)) > limit)
    <3>1. OlderThan(s) \in SUBSET Rows /\ Remaining \in SUBSET Rows
      BY PlanIs DEF OlderThan
    <3>2. Indexed(OlderThan(s)) \in Nat /\ Indexed(Remaining) \in Nat
      BY <3>1, IndexedIs
    <3>3. Indexed(Remaining) - Indexed(OlderThan(s)) <= limit
      OBVIOUS
    <3> QED
      BY <3>2, <3>3
  <2> QED
    BY <2>1
<1>3. BySize(limit) = {}
  BY <1>1, <1>2, PlanIs
<1> QED
  BY <1>3, PlanIs

LEMMA CeilingHolds ==
  TypeOK /\ Types =>
    /\ L \in [Streams -> Nat] /\ SumFunction(L) \in Nat /\ measured_headroom(L) \in Nat
    /\ \A k \in Streams : L[k] = 0 \/ \E s \in OfStream(Rows, k) : rows[s] = L[k]
    /\ total_bytes \in Nat
    /\ \A free \in Nat :
         async_ceiling(free) = CeilingOf(free + total_bytes, measured_headroom(L))
<1> SUFFICES ASSUME TypeOK, Types
             PROVE  /\ L \in [Streams -> Nat] /\ SumFunction(L) \in Nat
                    /\ measured_headroom(L) \in Nat
                    /\ \A k \in Streams : L[k] = 0 \/ \E s \in OfStream(Rows, k) : rows[s] = L[k]
                    /\ total_bytes \in Nat
                    /\ \A free \in Nat :
                         async_ceiling(free) = CeilingOf(free + total_bytes, measured_headroom(L))
  OBVIOUS
<1>1. total_bytes \in Nat
  BY IndexedIs DEF total_bytes
<1>2. /\ L \in [Streams -> Nat] /\ SumFunction(L) \in Nat /\ measured_headroom(L) \in Nat
      /\ \A k \in Streams : L[k] = 0 \/ \E s \in OfStream(Rows, k) : rows[s] = L[k]
  BY HeadroomIs
<1>3. ASSUME NEW free \in Nat
      PROVE  async_ceiling(free) = CeilingOf(free + total_bytes, measured_headroom(L))
  <2>1. free \in Int /\ free >= 0
    OBVIOUS
  <2>2. usable_capacity(free, total_bytes) = free + total_bytes
    BY <1>1, <1>2, <2>1, CeilingIs
  <2>3. async_ceiling(free) = CeilingOf(usable_capacity(free, total_bytes), measured_headroom(L))
    BY <1>1, <1>2, <2>1, CeilingIs
  <2> QED
    BY <2>2, <2>3
<1> QED
  BY <1>1, <1>2, <1>3

(* The space to be had, and the budget, are no smaller after deletions.    *)
LEMMA BudgetStays ==
  ASSUME TypeOK, Types, Room, TypeOK', Types', policy' = policy, other' = other,
         NEW D \in SUBSET (Rows \ Newest(Rows)), files' = Restrict(files, Files \ D),
         previews' = previews \ D, rows' = Restrict(rows, Rows \ D)
  PROVE  \E b \in Nat : /\ b = async_budget(async_ceiling(Free))'
                        /\ async_budget(async_ceiling(Free)) <= b
<1>1. /\ Free' \in Int /\ Free' >= Free + Indexed(D) /\ total_bytes' = total_bytes - Indexed(D)
      /\ total_bytes \in Nat /\ Indexed(D) \in Nat /\ total_bytes' \in Nat
      /\ Rows' = Rows \ D /\ \A s \in Rows' : rows'[s] = rows[s]
  BY DeletingFrees
<1>2. Free \in Nat /\ Free' \in Nat
  BY <1>1, FreeIsInt DEF Room
<1>3. /\ L \in [Streams -> Nat] /\ SumFunction(L) \in Nat /\ measured_headroom(L) \in Nat
      /\ async_ceiling(Free) = CeilingOf(Free + total_bytes, measured_headroom(L))
  BY <1>2, CeilingHolds
<1>4. /\ L' \in [Streams -> Nat] /\ SumFunction(L)' \in Nat /\ measured_headroom(L)' \in Nat
      /\ \A k \in Streams : L'[k] = 0 \/ \E s \in OfStream(Rows', k) : rows'[s] = L'[k]
      /\ \A free \in Nat :
           async_ceiling(free)' = CeilingOf(free + total_bytes, measured_headroom(L))'
  <2>1. (TypeOK /\ Types =>
           /\ L \in [Streams -> Nat] /\ SumFunction(L) \in Nat /\ measured_headroom(L) \in Nat
           /\ \A k \in Streams : L[k] = 0 \/ \E s \in OfStream(Rows, k) : rows[s] = L[k]
           /\ total_bytes \in Nat
           /\ \A free \in Nat :
                async_ceiling(free) = CeilingOf(free + total_bytes, measured_headroom(L)))'
    BY CeilingHolds, PTL
  <2> QED
    BY <2>1
<1>5. SumFunction(L)' <= SumFunction(L)
  <2>1. ASSUME NEW k \in Streams
        PROVE  L'[k] \in Int /\ L'[k] <= L[k]
    <3>1. ASSUME NEW s \in OfStream(Rows', k), rows'[s] = L'[k]
          PROVE  L'[k] <= L[k]
      BY <1>1, <3>1, HeadroomIs DEF OfStream
    <3>2. L[k] \in Nat /\ L'[k] \in Nat
      BY <1>3, <1>4
    <3>3. L'[k] = 0 \/ \E s \in OfStream(Rows', k) : rows'[s] = L'[k]
      BY <1>4
    <3> QED
      BY <3>1, <3>2, <3>3
  <2>2. PICK f, g : f = L /\ g = L'
    OBVIOUS
  <2>3. SumFunctionOnSet(g, Streams) <= SumFunctionOnSet(f, Streams)
    <3>1. \A k \in Streams : g[k] \in Int /\ f[k] \in Int /\ g[k] <= f[k]
      BY <1>3, <2>1, <2>2
    <3> QED
      BY <3>1, SumAtMost, DiskAssumption
  <2> QED
    BY <1>3, <1>4, <2>2, <2>3 DEF SumFunction
<1>6. measured_headroom(L)' <= measured_headroom(L)
  <2>1. PICK f, g : f = L /\ g = L'
    OBVIOUS
  <2>2. measured_headroom(g) <= measured_headroom(f)
    BY <1>3, <1>4, <1>5, <2>1, HeadroomGrows
  <2> QED
    BY <2>1, <2>2
<1>7. PICK c \in Nat, old \in Nat, new \in Nat :
        /\ c = Free + total_bytes /\ old = measured_headroom(L) /\ new = measured_headroom(L)'
  <2>1. PICK c \in Nat : c = Free + total_bytes
    BY <1>1, <1>2
  <2>2. PICK old \in Nat : old = measured_headroom(L)
    BY <1>3
  <2>3. PICK new \in Nat : new = measured_headroom(L)'
    BY <1>4
  <2> QED
    BY <2>1, <2>2, <2>3
<1>8. PICK d \in Nat : d = Free' + total_bytes' /\ c <= d
  BY <1>1, <1>2, <1>7
<1>9. PICK low \in Nat, top \in Nat :
        low = async_ceiling(Free) /\ top = async_ceiling(Free)' /\ low <= top
  <2>1. /\ CeilingOf(c, old) <= CeilingOf(d, new)
        /\ CeilingOf(c, old) \in Nat /\ CeilingOf(d, new) \in Nat
    <3>1. new <= old
      BY <1>6, <1>7
    <3> QED
      BY <1>8, <3>1, CeilingGrows
  <2>3. async_ceiling(Free) = CeilingOf(c, old)
    BY <1>3, <1>7
  <2>4. async_ceiling(Free)' = CeilingOf(d, new)
    <3>1. async_ceiling(Free)' = CeilingOf(Free' + total_bytes', measured_headroom(L)')
      BY <1>2, <1>4
    <3> QED
      BY <1>7, <1>8, <3>1
  <2> QED
    BY <2>1, <2>3, <2>4
<1>10. async_budget(async_ceiling(Free))' = async_budget(top)
  BY <1>9 DEF async_budget
<1>11. async_budget(low) <= async_budget(top) /\ async_budget(top) \in Nat
  BY <1>9, BudgetGrows
<1> QED
  BY <1>9, <1>10, <1>11

LEMMA RetainingSettles ==
  ASSUME TypeOK, Types, Room, Measured, Retain, TypeOK', Types', settled'
  PROVE  Doomed(async_budget(async_ceiling(Free)))' = {}
<1> DEFINE b == async_budget(ceiling)
           D == Doomed(b)
           Z == BySize(b)
<1>1. /\ D \in SUBSET (Rows \ Newest(Rows)) /\ D = ByAge \cup Z
      /\ Z \subseteq Candidates /\ Candidates \subseteq Remaining /\ Remaining \subseteq Rows
      /\ files' = Restrict(files, Files \ D) /\ previews' = previews \ D
      /\ rows' = Restrict(rows, Rows \ D)
      /\ other' = other /\ policy' = policy /\ now' = now
  BY PlanIs DEF Retain
<1>2. /\ Rows' = Rows \ D
      /\ \A S \in SUBSET Rows' : Indexed(S)' = Indexed(S)
  <2> HIDE DEF D
  <2> QED
    BY <1>1, DeletingFrees
<1>3. Newest(Rows') = Newest(Rows)
  <2> HIDE DEF D
  <2>1. Newest(Rows \ D) = Newest(Rows)
    BY <1>1, RowsAre, NewestStay
  <2> QED
    BY <1>2, <2>1
<1>4. ceiling = async_ceiling(Free) /\ ceiling \in Nat
  <2>1. ceiling # Unknown /\ seen = "nothing" /\ pass = "measured"
    BY DEF Retain
  <2>2. ceiling = async_ceiling(Free + 0)
    BY <2>1 DEF Measured
  <2>3. Free + 0 = Free
    BY FreeIsInt
  <2> QED
    BY <2>1, <2>2, <2>3 DEF TypeOK
<1>5. b \in Nat /\ b # NoLimit
  BY <1>4, BudgetGrows DEF NoLimit
<1>6. PICK b1 \in Nat : b1 = async_budget(async_ceiling(Free))' /\ b <= b1
  <2> HIDE DEF D
  <2> QED
    BY <1>1, <1>4, BudgetStays
<1>7. ByAge' = {}
  <2>1. ByAge' = {s \in Rows' \ Newest(Rows') :
                    /\ policy.age[Camera[s.stream]] # NoLimit
                    /\ s.start < now - policy.age[Camera[s.stream]]}
    BY <1>1 DEF ByAge
  <2>2. ByAge' \subseteq ByAge
    BY <1>2, <1>3, <2>1 DEF ByAge
  <2>3. ByAge' \subseteq Rows \ D
    BY <1>2, <2>1
  <2> QED
    BY <1>1, <2>2, <2>3
<1>8. Remaining' = Remaining \ Z /\ Remaining' \subseteq Rows'
  BY <1>1, <1>2, <1>7 DEF Remaining
<1>9. Candidates' = Candidates \ Z
  BY <1>3, <1>7, <1>8, <1>1 DEF Candidates, Remaining
<1>10. \A s \in Candidates' : Indexed(Remaining)' - Indexed(OlderThan(s))' <= b1
  <2>1. ASSUME NEW s \in Candidates'
        PROVE  Indexed(Remaining)' - Indexed(OlderThan(s))' <= b1
    <3>1. s \in Candidates /\ s \notin Z
      BY <1>9
    <3>2. OlderThan(s)' = OlderThan(s) \ Z
      BY <1>9 DEF OlderThan
    <3>3. Z \in SUBSET OlderThan(s)
      <4>1. ASSUME NEW t \in Z
            PROVE  t \in OlderThan(s)
        <5>1. Older(t, s)
          BY <1>5, <3>1, OldestGoFirst
        <5> QED
          BY <1>1, <5>1 DEF OlderThan
      <4> QED
        BY <4>1
    <3>4. ~(Indexed(Remaining) - Indexed(OlderThan(s)) > b)
      BY <1>5, <3>1, PlanIs
    <3> HIDE DEF D, Z, b
    <3>5. OlderThan(s) \in SUBSET Rows /\ Remaining \in SUBSET Rows /\ Z \in SUBSET Remaining
      BY <1>1 DEF OlderThan
    <3>6. /\ Indexed(OlderThan(s)) \in Nat /\ Indexed(Z) \in Nat
          /\ Indexed(OlderThan(s) \ Z) \in Nat
          /\ Indexed(OlderThan(s)) = Indexed(Z) + Indexed(OlderThan(s) \ Z)
      BY <3>3, <3>5, IndexedIs
    <3>7. /\ Indexed(Remaining) \in Nat /\ Indexed(Remaining \ Z) \in Nat
          /\ Indexed(Remaining) = Indexed(Z) + Indexed(Remaining \ Z)
      BY <3>5, IndexedIs
    <3>8. Indexed(Remaining)' = Indexed(Remaining \ Z)
      <4>1. PICK R : R = Remaining \ Z
        OBVIOUS
      <4>2. R \in SUBSET Rows' /\ Remaining' = R
        BY <1>8, <4>1
      <4> QED
        BY <1>2, <4>1, <4>2 DEF Indexed
    <3>9. Indexed(OlderThan(s))' = Indexed(OlderThan(s) \ Z)
      <4>1. OlderThan(s) \ Z \subseteq Rows'
        BY <1>8, <3>5, <3>1, <1>1, <1>9, <3>2 DEF OlderThan, Candidates, Remaining
      <4> QED
        BY <1>2, <3>2, <4>1 DEF Indexed
    <3> QED
      BY <1>5, <1>6, <3>4, <3>6, <3>7, <3>8, <3>9
  <2> QED
    BY <2>1
<1>11. Doomed(b1)' = {}
  <2>1. (TypeOK /\ Types => NothingPlanned)'
    BY NoPlan, PTL
  <2>2. Within(b1)'
    BY <1>7, <1>10 DEF Within
  <2> QED
    BY <1>6, <2>1, <2>2 DEF NothingPlanned
<1> QED
  BY <1>6, <1>11 DEF Doomed, BySize

LEMMA CalmKept ==
  ASSUME TypeOK, Types, Room, Measured, Calm, TypeOK', Types', [Next]_vars
  PROVE  Calm'
<1>1. CASE Retain
  BY <1>1, RetainingSettles DEF Retain, Calm
<1>2. CASE ~settled'
  BY <1>2 DEF Calm
<1>3. ASSUME UNCHANGED <<files, previews, rows, other, policy, now>>, settled' => settled
      PROVE  /\ async_ceiling(Free)' = async_ceiling(Free)
             /\ settled' => Doomed(async_budget(async_ceiling(Free)))' = {}
  <2>1. /\ Free' = Free /\ Rows' = Rows /\ total_bytes' = total_bytes
        /\ largest_segment_by_stream' = largest_segment_by_stream
    BY <1>3 DEF Free, Written, Rows, total_bytes, Indexed, largest_segment_by_stream
  <2>2. async_ceiling(Free)' = async_ceiling(Free)
    BY <2>1 DEF async_ceiling
  <2>3. async_budget(async_ceiling(Free))' = async_budget(async_ceiling(Free))
    BY <1>3, <2>2 DEF async_budget
  <2>4. ByAge' = ByAge
    BY <1>3, <2>1 DEF ByAge
  <2>5. \A b : Doomed(b)' = Doomed(b)
    BY <1>3, <2>1, <2>4 DEF Doomed, BySize, RemainingAfter, Indexed
  <2>6. Doomed(async_budget(async_ceiling(Free)))' = Doomed(async_budget(async_ceiling(Free)))
    <3>1. PICK b : b = async_budget(async_ceiling(Free))
      OBVIOUS
    <3>2. Doomed(async_budget(async_ceiling(Free)))' = Doomed(b)'
      BY <2>3, <3>1 DEF Doomed, BySize
    <3> QED
      BY <2>5, <3>1, <3>2
  <2> QED
    BY <1>3, <2>2, <2>6 DEF Calm
<1>4. CASE (Scan \/ ScanRest) /\ settled'
  <2>1. /\ UNCHANGED <<files, previews, rows, other, policy, now>>
        /\ settled /\ pass' # "measured"
    BY <1>4 DEF Scan, ScanRest
  <2> QED
    BY <1>3, <2>1 DEF Calm
<1>5. CASE Measure
  <2>1. /\ UNCHANGED <<files, previews, rows, other, policy, now, settled>>
        /\ ceiling' \in {async_ceiling(Free), Unknown}
    BY <1>5 DEF Measure
  <2> QED
    BY <1>3, <2>1 DEF Calm
<1>6. CASE UNCHANGED vars
  <2>1. UNCHANGED <<files, previews, rows, other, policy, now, settled, pass, ceiling>>
    BY <1>6 DEF vars
  <2> QED
    BY <1>3, <2>1 DEF Calm
<1> QED
  BY <1>1, <1>2, <1>4, <1>5, <1>6 DEF Next, Opens, Writes, Grows, OtherChanges, Shoots

-----------------------------------------------------------------------------

LEMMA InvInit == Init => IInv
<1> SUFFICES ASSUME Init
             PROVE  IInv
  OBVIOUS
<1>1. TypeOK /\ Types
  BY TypesInit
<1>2. Room /\ Measured /\ Calm
  BY DEF Init, Room, Measured, Calm
<1> QED
  BY <1>1, <1>2 DEF IInv

LEMMA InvStep == IInv /\ [Next]_vars => IInv'
<1> SUFFICES ASSUME IInv, [Next]_vars
             PROVE  IInv'
  OBVIOUS
<1>1. TypeOK /\ Types /\ Room /\ Measured /\ Calm
  BY DEF IInv
<1>2. TypeOK' /\ Types'
  BY <1>1, TypesKept
<1>3. Room' /\ Measured'
  BY <1>1, <1>2, RoomKept, MeasuredKept
<1>4. Calm'
  BY <1>1, <1>2, CalmKept
<1> QED
  BY <1>2, <1>3, <1>4 DEF IInv

(* Every state the module reaches has the inductive invariant: what the    *)
(* index knows, the room that was made and what was measured are as above. *)
THEOREM Reachable == Spec => []IInv
BY InvInit, InvStep, PTL DEF Spec

(* The headroom lasts: after deletions that could make all of it, and with *)
(* nothing else on the disk growing, the cameras never run out of space:   *)
(* there is always room for the rest of the segments being written and for *)
(* a further one of each stream for every interval of the headroom but     *)
(* one, and only the previews made meanwhile may have taken their size of  *)
(* it (measured_headroom, async_ceiling, plan_retention, the thumbnails of *)
(* maintenance.py); and everything has its type.                           *)
THEOREM HeadroomLasts == Spec => []NeverFull
<1>1. IInv => NeverFull
  BY DEF IInv, Room, NeverFull
<1> QED
  BY <1>1, Reachable, PTL

(* Deleting does not call for more deleting: a pass that finds everything  *)
(* as the one before has left it deletes nothing, whether or not the free  *)
(* space can be read (_async_apply_retention, async_budget).               *)
THEOREM DeletionsSettle == Spec => SettlesAtOnce
<1>1. IInv /\ [Next]_vars =>
        [pass = "measured" /\ pass' = "idle" /\ settled => files' = files]_vars
  <2> SUFFICES ASSUME IInv, [Next]_vars, pass = "measured", pass' = "idle", settled
               PROVE  files' = files
    OBVIOUS
  <2>1. Retain
    BY DEF Next, Opens, Writes, OtherChanges, Scan, ScanRest, Shoots, Measure, vars
  <2>2. /\ files' = Restrict(files, Files \ Doomed(async_budget(ceiling)))
        /\ TypeOK /\ Types /\ Calm
    BY <2>1 DEF Retain, IInv
  <2>3. Doomed(async_budget(ceiling)) = {}
    <3>1. Doomed(async_budget(async_ceiling(Free))) = {}
      BY <2>2 DEF Calm
    <3>2. CASE ceiling = async_ceiling(Free)
      BY <3>1, <3>2
    <3>3. CASE ceiling = Unknown
      <4>1. PICK top \in Nat : top = async_ceiling(Free)
        BY <2>2, CeilingNat, FreeIsInt
      <4>2. PICK p \in (Nat \ {0}) \cup {NoLimit} : p = policy.total
        BY <2>2, PolicyIs
      <4>3. /\ async_budget(top) \in Nat \ {0}
            /\ async_budget(top) = IF top <= 1 THEN 1
                                   ELSE IF p # NoLimit /\ p <= top THEN p ELSE top
        <5>1. top # Unknown
          BY DEF Unknown
        <5> QED
          BY <4>2, <5>1, BudgetIs DEF NoLimit
      <4>4. async_budget(ceiling) = p
        BY <3>3, <4>2, BudgetIs
      <4>5. PICK b \in Nat : b = async_budget(top) /\ (p = NoLimit \/ b <= p)
        BY <4>2, <4>3 DEF NoLimit
      <4>6. Doomed(p) \subseteq Doomed(b)
        <5>1. b \in Int /\ b # NoLimit /\ p \in Int
          BY <4>2, <4>5 DEF NoLimit
        <5> QED
          BY <2>2, <4>5, <5>1, LargerSpares
      <4> QED
        BY <3>1, <4>1, <4>4, <4>5, <4>6
    <3> QED
      BY <2>2, <3>2, <3>3 DEF Calm
  <2>4. files' = Restrict(files, Files) /\ files \in [Files -> Nat]
    <3>1. Files \ {} = Files
      OBVIOUS
    <3> QED
      BY <2>2, <2>3, <3>1 DEF Types
  <2> QED
    BY <2>4 DEF Restrict
<1> QED
  BY <1>1, Reachable, PTL DEF Spec, SettlesAtOnce

(* What size deletes is what the budget has no room for.                   *)
LEMMA SizeDeletesTheRest ==
  ASSUME TypeOK, Types, NEW budget \in Int, budget # NoLimit, NEW s \in BySize(budget)
  PROVE  LET kept == Rows \ Doomed(budget)
             younger == {t \in BySize(budget) : ~Older(t, s)}
         IN  /\ Indexed(kept) + Indexed(younger) > budget
             /\ \A t \in kept \ Newest(Rows) : Older(s, t)
<1> DEFINE Z == BySize(budget)
           kept == Rows \ Doomed(budget)
           younger == {t \in Z : ~Older(t, s)}
<1>1. /\ s \in Candidates /\ Z \subseteq Candidates /\ Candidates \subseteq Remaining
      /\ Remaining \subseteq Rows /\ kept = Remaining \ Z
      /\ Indexed(Remaining) - Indexed(OlderThan(s)) > budget
  BY PlanIs DEF Remaining
<1>2. \A t \in Candidates \ Z : Older(s, t)
  BY OldestGoFirst
<1>3. OlderThan(s) = Z \ younger
  <2>1. ASSUME NEW t \in OlderThan(s)
        PROVE  t \in Z
    <3>1. t \in Candidates /\ Older(t, s)
      BY DEF OlderThan
    <3>2. s.start \in Int /\ t.start \in Int
      BY <1>1, <3>1, RowsAre
    <3>3. ~Older(s, t)
      BY <3>1, <3>2 DEF Older
    <3> QED
      BY <1>2, <3>1, <3>3
  <2> QED
    BY <1>1, <2>1 DEF OlderThan
<1>4. kept \ Newest(Rows) \subseteq Candidates \ Z
  BY <1>1 DEF Candidates, Remaining
<1> HIDE DEF Z, kept
<1>5. Indexed(kept) + Indexed(younger) > budget
  <2>1. Remaining \in SUBSET Rows /\ Z \in SUBSET Remaining /\ Z \in SUBSET Rows
    BY <1>1
  <2>2. younger \in SUBSET Z
    OBVIOUS
  <2> HIDE DEF younger
  <2>3. /\ Indexed(Z) \in Nat /\ Indexed(younger) \in Nat /\ Indexed(Z \ younger) \in Nat
        /\ Indexed(Z) = Indexed(younger) + Indexed(Z \ younger)
    BY <2>1, <2>2, IndexedIs
  <2>4. /\ Indexed(Remaining) \in Nat /\ Indexed(Remaining \ Z) \in Nat
        /\ Indexed(Remaining) = Indexed(Z) + Indexed(Remaining \ Z)
    BY <2>1, IndexedIs
  <2>5. Indexed(kept) = Indexed(Remaining \ Z) /\ Indexed(OlderThan(s)) = Indexed(Z \ younger)
    BY <1>1, <1>3
  <2>6. Indexed(Remaining) - Indexed(Z \ younger) > budget
    BY <1>1, <2>5
  <2> QED
    BY <2>3, <2>4, <2>5, <2>6
<1> QED
  BY <1>2, <1>4, <1>5 DEF Z, kept

(* Nothing is deleted needlessly: what is deleted is too old, or the       *)
(* budget has no room for it, the oldest first, and the newest segment of  *)
(* a stream stays; a free space that cannot be read deletes nothing        *)
(* (plan_retention, async_budget, _async_apply_retention).                 *)
THEOREM NothingIsDeletedNeedlessly == Spec => NothingNeedless
<1> DEFINE Gone == Files \ Files'
           Expired == {s \in Gone : LET age == policy.age[Camera[s.stream]] IN
                                      age # NoLimit /\ s.start + age < now}
           Kept == Rows \cap Files'
           Z == BySize(async_budget(ceiling))
           Bound == IF ceiling = Unknown \/ (policy.total # NoLimit /\ policy.total < ceiling)
                    THEN policy.total ELSE ceiling
<1>1. ASSUME IInv, [Next]_vars, pass = "measured", pass' = "idle"
      PROVE  \A s \in Gone \ Expired :
               /\ ceiling # Unknown \/ policy.total # NoLimit
               /\ LET younger == {t \in Gone \ Expired : ~Older(t, s)} IN
                    Indexed(Kept) + Indexed(younger) > Bound
               /\ \A t \in Kept \ Newest(Rows) : Older(s, t)
  <2> DEFINE budget == async_budget(ceiling)
             D == Doomed(budget)
  <2>1. Retain
    BY <1>1 DEF Next, Opens, Writes, OtherChanges, Scan, ScanRest, Shoots, Measure, vars
  <2>2. /\ TypeOK /\ Types /\ Files' = Files \ D /\ Rows \subseteq Files
        /\ D = ByAge \cup Z /\ D \subseteq Rows \ Newest(Rows)
        /\ Z \subseteq Rows \ (ByAge \cup Newest(Rows))
    <3>1. files' = Restrict(files, Files \ D)
      BY <2>1 DEF Retain
    <3>2. Files' = Files \ D
      BY <3>1 DEF Restrict, Files
    <3> QED
      BY <1>1, <3>2, PlanIs DEF IInv, TypeOK, Candidates, Remaining
  <2>3. Gone = D /\ Kept = Rows \ D
    <3> HIDE DEF D
    <3> QED
      BY <2>2
  <2>4. Gone \ Expired = Z
    <3>1. ASSUME NEW s \in Rows \ Newest(Rows)
          PROVE  s \in ByAge <=>
                   LET age == policy.age[Camera[s.stream]] IN
                     age # NoLimit /\ s.start + age < now
      <4>1. s.start \in Int /\ now \in Int /\ Camera[s.stream] \in Cameras
        BY <2>2, RowsAre, LimitsAssumption DEF Types
      <4>2. PICK age \in Int : age = policy.age[Camera[s.stream]]
        BY <2>2, <4>1, PolicyIs DEF NoLimit
      <4> QED
        BY <4>1, <4>2 DEF ByAge
    <3> HIDE DEF D, Z
    <3> QED
      BY <2>2, <2>3, <3>1
  <2>5. PICK p \in (Nat \ {0}) \cup {NoLimit} : p = policy.total
    BY <2>2, PolicyIs
  <2>6. ASSUME Z # {}
        PROVE  /\ ceiling # Unknown \/ p # NoLimit
               /\ budget \in Int /\ budget # NoLimit /\ Bound \in Int /\ Bound <= budget
    <3>1. budget # NoLimit
      BY <2>6, PlanIs
    <3>2. CASE ceiling = Unknown
      <4>1. budget = p /\ Bound = p
        BY <2>5, <3>2, BudgetIs
      <4> QED
        BY <2>5, <3>1, <4>1 DEF NoLimit
    <3>3. CASE ceiling # Unknown
      <4>1. PICK c \in Nat : c = ceiling /\ c # Unknown
        BY <2>2, <3>3 DEF TypeOK
      <4>2. /\ async_budget(c) \in Nat \ {0}
            /\ async_budget(c) = IF c <= 1 THEN 1 ELSE IF p # NoLimit /\ p <= c THEN p ELSE c
        BY <2>5, <4>1, BudgetIs DEF NoLimit
      <4>3. Bound = IF p # NoLimit /\ p < c THEN p ELSE c
        BY <2>5, <3>3, <4>1
      <4> QED
        BY <2>5, <3>1, <3>3, <4>1, <4>2, <4>3 DEF NoLimit
    <3> QED
      BY <3>2, <3>3
  <2>7. ASSUME NEW s \in Gone \ Expired
        PROVE  /\ ceiling # Unknown \/ policy.total # NoLimit
               /\ LET younger == {t \in Gone \ Expired : ~Older(t, s)} IN
                    Indexed(Kept) + Indexed(younger) > Bound
               /\ \A t \in Kept \ Newest(Rows) : Older(s, t)
    <3>1. s \in Z /\ Z # {}
      BY <2>4
    <3>2. PICK limit \in Int : limit = budget /\ limit # NoLimit /\ Bound <= limit /\ Bound \in Int
      BY <2>6, <3>1
    <3>3. PICK younger : younger = {t \in Gone \ Expired : ~Older(t, s)}
      OBVIOUS
    <3>4. younger = {t \in BySize(limit) : ~Older(t, s)}
      BY <2>4, <3>2, <3>3
    <3>5. Kept = Rows \ Doomed(limit) /\ s \in BySize(limit)
      BY <2>3, <3>1, <3>2
    <3> HIDE DEF Kept, Gone, Expired, Bound, Z, budget, D
    <3>6. /\ Indexed(Kept) + Indexed(younger) > limit
          /\ \A t \in Kept \ Newest(Rows) : Older(s, t)
      BY <2>2, <3>2, <3>4, <3>5, SizeDeletesTheRest
    <3>7. Indexed(Kept) \in Nat /\ Indexed(younger) \in Nat
      <4>1. Kept \in SUBSET Rows /\ younger \in SUBSET Rows
        BY <3>4, <3>5, PlanIs
      <4> QED
        BY <2>2, <4>1, IndexedIs
    <3>8. Indexed(Kept) + Indexed(younger) > Bound
      BY <3>2, <3>6, <3>7
    <3>9. ceiling # Unknown \/ policy.total # NoLimit
      BY <2>5, <2>6, <3>1
    <3> QED
      BY <3>3, <3>6, <3>8, <3>9
  <2> QED
    BY <2>7
<1>2. IInv /\ [Next]_vars =>
        [pass = "measured" /\ pass' = "idle" =>
           \A s \in Gone \ Expired :
             /\ ceiling # Unknown \/ policy.total # NoLimit
             /\ LET younger == {t \in Gone \ Expired : ~Older(t, s)} IN
                  Indexed(Kept) + Indexed(younger) > Bound
             /\ \A t \in Kept \ Newest(Rows) : Older(s, t)]_vars
  BY <1>1
<1> QED
  BY <1>2, Reachable, PTL DEF Spec, NothingNeedless
=============================================================================
