------------------------------ MODULE SumTheorems ------------------------------
(***************************************************************************)
(* Facts about sums over finite sets, for the proofs about credit and      *)
(* weights.  They are proved by taking a smallest counterexample: a set of *)
(* finite sets has a minimal one, a set of naturals a least one.           *)
(***************************************************************************)
EXTENDS Integers, Functions, FiniteSets, FiniteSetTheorems, WellFoundedInduction, TLAPS

\* Every non-empty collection of subsets of a finite set has a minimal member.
LEMMA MinimalSubset ==
    ASSUME NEW S, IsFiniteSet(S), NEW C \in SUBSET SUBSET S, C # {}
    PROVE  \E T \in C : \A U \in C : U \subseteq T => U = T
  <1>1. IsWellFoundedOn(StrictSubsetOrdering(S), FiniteSubsetsOf(S))
    BY FS_StrictSubsetOrderingWellFounded
  <1>2. C \subseteq FiniteSubsetsOf(S)
    BY FS_FiniteSubsetsOfFinite
  <1>3. PICK T \in C : \A U \in C : <<U, T>> \notin StrictSubsetOrdering(S)
    BY <1>1, <1>2, WFMin
  <1> QED
    BY <1>3 DEF StrictSubsetOrdering

\* Every non-empty set of naturals has a least member.
LEMMA LeastNatural ==
    ASSUME NEW C \in SUBSET Nat, C # {}
    PROVE  \E m \in C : \A k \in C : m <= k
  <1>1. PICK n \in C : TRUE
    OBVIOUS
  <1> DEFINE Initial == {0..k : k \in {c \in C : c <= n}}
  <1>2. IsFiniteSet(0..n) /\ 0..n \in Initial
    BY FS_Interval
  <1>3. Initial \in SUBSET SUBSET (0..n)
    <2>1. ASSUME NEW k \in C, k <= n PROVE 0..k \subseteq 0..n
      BY <2>1
    <2> QED
      BY <2>1
  <1>4. PICK T \in Initial : \A U \in Initial : U \subseteq T => U = T
    <2> DEFINE All == 0..n
    <2>1. IsFiniteSet(All) /\ Initial \in SUBSET SUBSET All /\ Initial # {}
      BY <1>2, <1>3
    <2> HIDE DEF Initial, All
    <2> QED
      BY <2>1, MinimalSubset
  <1>5. PICK m \in C : m <= n /\ T = 0..m
    BY <1>4
  <1>6. ASSUME NEW k \in C, k < m PROVE FALSE
    <2>1. 0..k \in Initial /\ 0..k \subseteq 0..m
      BY <1>5, <1>6
    <2>2. 0..k = 0..m
      BY <1>4, <1>5, <2>1
    <2> QED
      BY <1>5, <1>6, <2>2
  <1> QED
    BY <1>6

\* Induction over the subsets of a finite set, the good ones given as a set.
LEMMA GrowingSet ==
    ASSUME NEW S, IsFiniteSet(S), NEW Good \in SUBSET SUBSET S, {} \in Good,
           \A T \in Good : \A x \in S \ T : T \cup {x} \in Good
    PROVE  S \in Good
  <1> DEFINE Failing == (SUBSET S) \ Good
  <1>1. Failing = {}
    <2> SUFFICES ASSUME Failing # {} PROVE FALSE
      OBVIOUS
    <2>1. PICK T \in Failing : \A U \in Failing : U \subseteq T => U = T
      <3>1. Failing \in SUBSET SUBSET S
        OBVIOUS
      <3> HIDE DEF Failing
      <3> QED
        BY <3>1, MinimalSubset
    <2>2. PICK x \in T : TRUE
      OBVIOUS
    <2>3. T \ {x} \in Good /\ x \in S \ (T \ {x}) /\ (T \ {x}) \cup {x} = T
      BY <2>1, <2>2
    <2>4. T \in Good
      <3> DEFINE U == T \ {x}
      <3>1. U \in Good /\ x \in S \ U /\ U \cup {x} = T
        BY <2>3
      <3> HIDE DEF U
      <3> QED
        BY <3>1
    <2> QED
      BY <2>4
  <1> QED
    BY <1>1

-----------------------------------------------------------------------------
Pick(s) == CHOOSE x \in s : TRUE

\* total[s] adds up f over s, for the subsets s of S, one picked element after the other.
SumsUp(f, S, total) ==
    total = [s \in SUBSET S |-> IF s = {} THEN 0 ELSE f[Pick(s)] + total[s \ {Pick(s)}]]

\* The subsets of at most n elements, and what sums up over them.
UpToSize(S, n) == {s \in SUBSET S : Cardinality(s) <= n}

SumsUpTo(f, S, n, total) ==
    total = [s \in UpToSize(S, n) |-> IF s = {} THEN 0 ELSE f[Pick(s)] + total[s \ {Pick(s)}]]

LEMMA Picked ==
    ASSUME NEW S, IsFiniteSet(S), NEW s \in SUBSET S, s # {}
    PROVE  /\ Pick(s) \in s /\ s \ {Pick(s)} \in SUBSET S
           /\ IsFiniteSet(s) /\ Cardinality(s) \in Nat \ {0}
           /\ Cardinality(s \ {Pick(s)}) = Cardinality(s) - 1
  <1>1. Pick(s) \in s
    BY DEF Pick
  <1>2. IsFiniteSet(s)
    BY FS_Subset
  <1> QED
    BY <1>1, <1>2, FS_CardinalityType, FS_EmptySet, FS_RemoveElement

\* The recursion that defines a sum has a solution.
LEMMA SumsExist ==
    ASSUME NEW f, NEW S, IsFiniteSet(S)
    PROVE  \E total : SumsUp(f, S, total)
  <1> DEFINE Failing == {n \in Nat : ~ \E total : SumsUpTo(f, S, n, total)}
  <1>1. SumsUpTo(f, S, 0, [s \in UpToSize(S, 0) |-> 0])
    <2>1. \A s \in UpToSize(S, 0) : s = {}
      <3> SUFFICES ASSUME NEW s \in SUBSET S, Cardinality(s) <= 0, s # {} PROVE FALSE
        BY DEF UpToSize
      <3>1. Cardinality(s) \in Nat \ {0}
        BY Picked
      <3> QED
        BY <3>1
    <2> QED
      BY <2>1 DEF SumsUpTo
  <1>2. ASSUME NEW n \in Nat, NEW lower, SumsUpTo(f, S, n, lower)
        PROVE  \E total : SumsUpTo(f, S, n + 1, total)
    <2> DEFINE total == [s \in UpToSize(S, n + 1) |->
                            IF s = {} THEN 0 ELSE f[Pick(s)] + lower[s \ {Pick(s)}]]
    <2>1. ASSUME NEW s \in UpToSize(S, n + 1), s # {}
          PROVE  s \ {Pick(s)} \in UpToSize(S, n) /\ s \ {Pick(s)} \in UpToSize(S, n + 1)
      <3>1. s \in SUBSET S /\ Cardinality(s) <= n + 1
        BY DEF UpToSize
      <3> QED
        BY <2>1, <3>1, Picked DEF UpToSize
    <2>2. ASSUME NEW s \in UpToSize(S, n)
          PROVE  s \in UpToSize(S, n + 1) /\ total[s] = lower[s]
      <3>1. s \in UpToSize(S, n + 1)
        <4>1. IsFiniteSet(s) /\ s \in SUBSET S /\ Cardinality(s) <= n
          BY FS_Subset DEF UpToSize
        <4> QED
          BY <4>1, FS_CardinalityType DEF UpToSize
      <3> QED
        BY <1>2, <3>1 DEF SumsUpTo
    <2>3. \A s \in UpToSize(S, n + 1) : s # {} => total[s \ {Pick(s)}] = lower[s \ {Pick(s)}]
      BY <2>1, <2>2
    <2>4. SumsUpTo(f, S, n + 1, total)
      BY <2>3 DEF SumsUpTo
    <2> QED
      BY <2>4
  <1>3. Failing = {}
    <2> SUFFICES ASSUME Failing # {} PROVE FALSE
      OBVIOUS
    <2>1. PICK m \in Failing : \A k \in Failing : m <= k
      BY LeastNatural
    <2>2. m # 0
      BY <1>1
    <2>3. m - 1 \in Nat /\ m - 1 \notin Failing
      BY <2>1, <2>2
    <2>4. \E total : SumsUpTo(f, S, m - 1 + 1, total)
      BY <1>2, <2>3
    <2>5. m - 1 + 1 = m
      OBVIOUS
    <2> QED
      BY <2>4, <2>5
  <1>4. UpToSize(S, Cardinality(S)) = SUBSET S /\ Cardinality(S) \in Nat
    BY FS_Subset, FS_CardinalityType DEF UpToSize
  <1>5. PICK total : SumsUpTo(f, S, Cardinality(S), total)
    BY <1>3, <1>4
  <1>6. SumsUp(f, S, total)
    BY <1>4, <1>5 DEF SumsUp, SumsUpTo
  <1> QED
    BY <1>6

-----------------------------------------------------------------------------
\* Whatever element is taken away, what is left is the sum without it.
AnyOrderAdds(f, S, total) ==
    \A s \in SUBSET S : total[s] \in Int /\ \A x \in s : total[s] = f[x] + total[s \ {x}]

LEMMA AnyOrder ==
    ASSUME NEW f, NEW S, IsFiniteSet(S), \A x \in S : f[x] \in Int,
           NEW total, SumsUp(f, S, total)
    PROVE  AnyOrderAdds(f, S, total)
  <1> DEFINE Holds(s) == total[s] \in Int /\ \A x \in s : total[s] = f[x] + total[s \ {x}]
             Failing == {s \in SUBSET S : ~Holds(s)}
  <1>1. \A s \in SUBSET S :
           total[s] = IF s = {} THEN 0 ELSE f[Pick(s)] + total[s \ {Pick(s)}]
    BY DEF SumsUp
  <1>2. ASSUME NEW s \in SUBSET S, \A u \in SUBSET S : u \subseteq s /\ u # s => Holds(u)
        PROVE  Holds(s)
    <2>1. CASE s = {}
      <3>1. total[s] = 0
        BY <1>1, <2>1
      <3>2. \A x \in s : FALSE
        BY <2>1
      <3> QED
        BY <3>1, <3>2
    <2>2. CASE s # {}
      <3> DEFINE c == Pick(s)
      <3>1. c \in s /\ s \ {c} \in SUBSET S /\ s \ {c} # s
        BY <2>2 DEF Pick
      <3>2. total[s] = f[c] + total[s \ {c}]
        BY <1>1, <2>2
      <3>3. total[s \ {c}] \in Int /\ f[c] \in Int
        BY <1>2, <3>1
      <3> HIDE DEF c
      <3>4. ASSUME NEW x \in s, x # c
            PROVE  total[s] = f[x] + total[s \ {x}]
        <4>1. s \ {c} \subseteq s /\ s \ {x} \subseteq s /\ s \ {x} \in SUBSET S
              /\ x \in s \ {c} /\ c \in s \ {x} /\ s \ {x} # s
          BY <3>1, <3>4
        <4>2. total[s \ {c}] = f[x] + total[(s \ {c}) \ {x}]
          BY <1>2, <3>1, <4>1
        <4>3. total[s \ {x}] = f[c] + total[(s \ {x}) \ {c}]
          BY <1>2, <4>1
        <4>4. total[(s \ {c}) \ {x}] = total[(s \ {x}) \ {c}]
          <5>1. (s \ {c}) \ {x} = (s \ {x}) \ {c}
            OBVIOUS
          <5> QED
            BY <5>1, Zenon
        <4>5. (s \ {x}) \ {c} \subseteq s /\ (s \ {x}) \ {c} # s /\ (s \ {x}) \ {c} \in SUBSET S
          BY <3>1
        <4>6. total[(s \ {x}) \ {c}] \in Int /\ f[x] \in Int
          BY <1>2, <4>5
        <4> DEFINE rest == total[(s \ {x}) \ {c}]
                   fx == f[x]  fc == f[c]
                   whole == total[s]  notx == total[s \ {x}]  notc == total[s \ {c}]
        <4>7. /\ whole = fc + notc /\ notc = fx + rest /\ notx = fc + rest
              /\ rest \in Int /\ fx \in Int /\ fc \in Int
          BY <3>2, <3>3, <4>2, <4>3, <4>4, <4>6, Zenon
        <4>8. whole = fx + notx
          <5> HIDE DEF rest, fx, fc, whole, notx, notc
          <5> QED
            BY <4>7
        <4> QED
          BY <4>8
      <3>5. total[s] \in Int
        BY <3>2, <3>3
      <3> QED
        BY <3>2, <3>4, <3>5
    <2> QED
      BY <2>1, <2>2
  <1>3. Failing = {}
    <2> SUFFICES ASSUME Failing # {} PROVE FALSE
      OBVIOUS
    <2>1. PICK s \in Failing : \A u \in Failing : u \subseteq s => u = s
      <3>1. Failing \in SUBSET SUBSET S
        OBVIOUS
      <3> HIDE DEF Failing
      <3> QED
        BY <3>1, MinimalSubset
    <2>2. s \in SUBSET S /\ ~Holds(s)
      OBVIOUS
    <2>3. \A u \in SUBSET S : u \subseteq s /\ u # s => Holds(u)
      BY <2>1
    <2> HIDE DEF Holds
    <2> QED
      BY <1>2, <2>2, <2>3
  <1> QED
    BY <1>3 DEF AnyOrderAdds

LEMMA TakeOneAway ==
    ASSUME NEW f, NEW S, IsFiniteSet(S), \A y \in S : f[y] \in Int,
           NEW total, SumsUp(f, S, total), NEW x \in S
    PROVE  total[S] = f[x] + total[S \ {x}] /\ total[S \ {x}] \in Int
  <1>1. AnyOrderAdds(f, S, total)
    BY AnyOrder
  <1>2. S \in SUBSET S /\ S \ {x} \in SUBSET S
    OBVIOUS
  <1> QED
    BY <1>1, <1>2 DEF AnyOrderAdds

\* Two solutions agree where their functions do.
LEMMA SumsAgree ==
    ASSUME NEW S, IsFiniteSet(S), NEW T \in SUBSET S,
           NEW f, NEW total, SumsUp(f, S, total),
           NEW g, NEW other, SumsUp(g, T, other),
           \A x \in T : f[x] = g[x]
    PROVE  \A s \in SUBSET T : total[s] = other[s]
  <1> DEFINE Failing == {s \in SUBSET T : total[s] # other[s]}
  <1>1. \A s \in SUBSET T : /\ total[s] = IF s = {} THEN 0 ELSE f[Pick(s)] + total[s \ {Pick(s)}]
                            /\ other[s] = IF s = {} THEN 0 ELSE g[Pick(s)] + other[s \ {Pick(s)}]
    BY DEF SumsUp
  <1>2. Failing = {}
    <2> SUFFICES ASSUME Failing # {} PROVE FALSE
      OBVIOUS
    <2>1. PICK s \in Failing : \A u \in Failing : u \subseteq s => u = s
      <3>1. Failing \in SUBSET SUBSET T /\ IsFiniteSet(T)
        BY FS_Subset
      <3> HIDE DEF Failing
      <3> QED
        BY <3>1, MinimalSubset
    <2>2. s \in SUBSET T /\ s # {} /\ total[s] # other[s]
      BY <1>1
    <2>3. Pick(s) \in s
      BY <2>2 DEF Pick
    <2>4. s \ {Pick(s)} \in SUBSET T /\ s \ {Pick(s)} # s /\ f[Pick(s)] = g[Pick(s)]
      BY <2>2, <2>3
    <2>5. total[s \ {Pick(s)}] = other[s \ {Pick(s)}]
      BY <2>1, <2>4
    <2> QED
      BY <1>1, <2>2, <2>4, <2>5
  <1> QED
    BY <1>2

\* The sum of a function over a set is what sums up over it.
LEMMA SumIsTotal ==
    ASSUME NEW f, NEW S, IsFiniteSet(S)
    PROVE  \E total : SumsUp(f, S, total) /\ SumFunctionOnSet(f, S) = total[S]
  <1> DEFINE total == CHOOSE it : SumsUp(f, S, it)
  <1>1. SumsUp(f, S, total)
    BY SumsExist
  <1>2. SumFunctionOnSet(f, S) = total[S]
    BY DEF SumsUp, Pick, SumFunctionOnSet, FoldFunctionOnSet, MapThenFoldSet
  <1> QED
    BY <1>1, <1>2

-----------------------------------------------------------------------------
(* What the proofs use *)

THEOREM SumOfNone == \A f : SumFunctionOnSet(f, {}) = 0
  <1> SUFFICES ASSUME NEW f PROVE SumFunctionOnSet(f, {}) = 0
    OBVIOUS
  <1>1. PICK total : SumsUp(f, {}, total) /\ SumFunctionOnSet(f, {}) = total[{}]
    BY SumIsTotal, FS_EmptySet
  <1> QED
    BY <1>1 DEF SumsUp

THEOREM SumIsInt ==
    ASSUME NEW f, NEW S, IsFiniteSet(S), \A x \in S : f[x] \in Int
    PROVE  SumFunctionOnSet(f, S) \in Int
  <1>1. PICK total : SumsUp(f, S, total) /\ SumFunctionOnSet(f, S) = total[S]
    BY SumIsTotal
  <1> QED
    BY <1>1, AnyOrder DEF AnyOrderAdds

THEOREM SumAgrees ==
    ASSUME NEW f, NEW g, NEW S, IsFiniteSet(S), \A x \in S : f[x] = g[x]
    PROVE  SumFunctionOnSet(f, S) = SumFunctionOnSet(g, S)
  <1>1. PICK total : SumsUp(f, S, total) /\ SumFunctionOnSet(f, S) = total[S]
    BY SumIsTotal
  <1>2. PICK other : SumsUp(g, S, other) /\ SumFunctionOnSet(g, S) = other[S]
    BY SumIsTotal
  <1>3. \A s \in SUBSET S : total[s] = other[s]
    BY <1>1, <1>2, SumsAgree
  <1>4. total[S] = other[S]
    BY <1>3
  <1> QED
    BY <1>1, <1>2, <1>4, Zenon

THEOREM SumOfOneMore ==
    ASSUME NEW f, NEW S, IsFiniteSet(S), NEW x, x \notin S,
           \A y \in S \cup {x} : f[y] \in Int
    PROVE  SumFunctionOnSet(f, S \cup {x}) = SumFunctionOnSet(f, S) + f[x]
  <1> DEFINE S1 == S \cup {x}
  <1>1. IsFiniteSet(S1) /\ S \in SUBSET S1 /\ x \in S1 /\ S1 \ {x} = S
    BY FS_AddElement
  <1>2. PICK total : SumsUp(f, S1, total) /\ SumFunctionOnSet(f, S1) = total[S1]
    BY <1>1, SumIsTotal
  <1>3. PICK other : SumsUp(f, S, other) /\ SumFunctionOnSet(f, S) = other[S]
    BY SumIsTotal
  <1>4. total[S1] = f[x] + total[S1 \ {x}] /\ total[S1 \ {x}] \in Int
    <2> HIDE DEF S1
    <2>1. \A y \in S1 : f[y] \in Int
      BY DEF S1
    <2> QED
      BY <1>1, <1>2, <2>1, TakeOneAway
  <1>5. total[S] = other[S]
    <2> HIDE DEF S1
    <2> QED
      BY <1>1, <1>2, <1>3, SumsAgree
  <1>6. total[S1] = f[x] + total[S] /\ total[S] \in Int
    BY <1>1, <1>4, Zenon
  <1>7. f[x] \in Int
    OBVIOUS
  <1> HIDE DEF S1
  <1>8. SumFunctionOnSet(f, S1) = SumFunctionOnSet(f, S) + f[x]
    BY <1>2, <1>3, <1>5, <1>6, <1>7
  <1> QED
    BY <1>8 DEF S1

THEOREM SumOfUnion ==
    ASSUME NEW f, NEW S, NEW T, IsFiniteSet(S), IsFiniteSet(T), S \cap T = {},
           \A x \in S \cup T : f[x] \in Int
    PROVE  SumFunctionOnSet(f, S \cup T) = SumFunctionOnSet(f, S) + SumFunctionOnSet(f, T)
  <1> DEFINE Good == {U \in SUBSET T :
                        SumFunctionOnSet(f, S \cup U)
                          = SumFunctionOnSet(f, S) + SumFunctionOnSet(f, U)}
  <1>1. {} \in Good
    <2>1. S \cup {} = S
      OBVIOUS
    <2> QED
      BY <2>1, SumOfNone, SumIsInt
  <1>2. ASSUME NEW U \in Good, NEW x \in T \ U
        PROVE  U \cup {x} \in Good
    <2> DEFINE SU == S \cup U
    <2>1. /\ IsFiniteSet(SU) /\ IsFiniteSet(U) /\ x \notin SU /\ x \notin U
          /\ \A y \in SU \cup {x} : f[y] \in Int
          /\ \A y \in U \cup {x} : f[y] \in Int
      BY FS_Union, FS_Subset
    <2>2. SumFunctionOnSet(f, SU \cup {x}) = SumFunctionOnSet(f, SU) + f[x]
      <3> HIDE DEF SU
      <3> QED
        BY <2>1, SumOfOneMore
    <2>3. SumFunctionOnSet(f, U \cup {x}) = SumFunctionOnSet(f, U) + f[x]
      BY <2>1, SumOfOneMore
    <2>4. SumFunctionOnSet(f, SU) = SumFunctionOnSet(f, S) + SumFunctionOnSet(f, U)
      OBVIOUS
    <2>5. SumFunctionOnSet(f, S) \in Int /\ SumFunctionOnSet(f, U) \in Int /\ f[x] \in Int
      BY <2>1, SumIsInt
    <2>6. SU \cup {x} = S \cup (U \cup {x})
      OBVIOUS
    <2>7. SumFunctionOnSet(f, S \cup (U \cup {x}))
            = SumFunctionOnSet(f, S) + SumFunctionOnSet(f, U \cup {x})
      <3> DEFINE all == SumFunctionOnSet(f, SU)
                 left == SumFunctionOnSet(f, S)
                 right == SumFunctionOnSet(f, U)
      <3>1. SumFunctionOnSet(f, S \cup (U \cup {x})) = all + f[x]
        BY <2>2, <2>6, Zenon
      <3>2. all + f[x] = left + (right + f[x])
        <4>1. all = left + right /\ left \in Int /\ right \in Int
          BY <2>4, <2>5
        <4> HIDE DEF SU, all, left, right
        <4> QED
          BY <2>5, <4>1
      <3> HIDE DEF SU
      <3> QED
        BY <2>3, <3>1, <3>2, Zenon
    <2> QED
      BY <2>7
  <1>3. T \in Good
    <2>1. Good \in SUBSET SUBSET T
      OBVIOUS
    <2> HIDE DEF Good
    <2> QED
      BY <1>1, <1>2, <2>1, GrowingSet
  <1> QED
    BY <1>3

\* A sum of natural numbers is one, and no less than a part of it.
THEOREM SumIsNat ==
    ASSUME NEW f, NEW S, IsFiniteSet(S), \A x \in S : f[x] \in Nat
    PROVE  SumFunctionOnSet(f, S) \in Nat
  <1> DEFINE Good == {U \in SUBSET S : SumFunctionOnSet(f, U) \in Nat}
  <1>1. {} \in Good
    BY SumOfNone
  <1>2. ASSUME NEW U \in Good, NEW x \in S \ U
        PROVE  U \cup {x} \in Good
    <2>1. IsFiniteSet(U) /\ \A y \in U \cup {x} : f[y] \in Int
      BY FS_Subset
    <2>2. SumFunctionOnSet(f, U \cup {x}) = SumFunctionOnSet(f, U) + f[x]
      BY <2>1, SumOfOneMore
    <2> QED
      BY <2>2
  <1>3. Good \in SUBSET SUBSET S
    OBVIOUS
  <1>4. S \in Good
    <2> HIDE DEF Good
    <2> QED
      BY <1>1, <1>2, <1>3, GrowingSet
  <1> QED
    BY <1>4

THEOREM SumOfPart ==
    ASSUME NEW f, NEW S, IsFiniteSet(S), \A x \in S : f[x] \in Nat, NEW T \in SUBSET S
    PROVE  SumFunctionOnSet(f, T) <= SumFunctionOnSet(f, S)
  <1> DEFINE rest == S \ T
  <1>1. /\ IsFiniteSet(T) /\ IsFiniteSet(rest) /\ T \cap rest = {} /\ T \cup rest = S
        /\ \A x \in T \cup rest : f[x] \in Int
        /\ \A x \in T : f[x] \in Nat
        /\ \A x \in rest : f[x] \in Nat
    BY FS_Subset
  <1> HIDE DEF rest
  <1>2. SumFunctionOnSet(f, T \cup rest) = SumFunctionOnSet(f, T) + SumFunctionOnSet(f, rest)
    BY <1>1, SumOfUnion
  <1>3. SumFunctionOnSet(f, T) \in Nat /\ SumFunctionOnSet(f, rest) \in Nat
    BY <1>1, SumIsNat
  <1>4. SumFunctionOnSet(f, S) = SumFunctionOnSet(f, T) + SumFunctionOnSet(f, rest)
    BY <1>1, <1>2, Zenon
  <1> QED
    BY <1>3, <1>4

\* A set of even shares with one more for some of its members.
THEOREM SumOfEvenShares ==
    ASSUME NEW f, NEW S, IsFiniteSet(S), NEW base \in Nat, NEW more,
           \A x \in S : f[x] = base + (IF x \in more THEN 1 ELSE 0)
    PROVE  SumFunctionOnSet(f, S) = base * Cardinality(S) + Cardinality(S \cap more)
  <1> DEFINE Good == {U \in SUBSET S :
                SumFunctionOnSet(f, U) = base * Cardinality(U) + Cardinality(U \cap more)}
  <1>1. {} \in Good
    <2>1. {} \cap more = {}
      OBVIOUS
    <2> QED
      BY <2>1, SumOfNone, FS_EmptySet
  <1>2. ASSUME NEW U \in Good, NEW x \in S \ U
        PROVE  U \cup {x} \in Good
    <2>1. IsFiniteSet(U) /\ \A y \in U \cup {x} : f[y] \in Int
      BY FS_Subset
    <2>2. SumFunctionOnSet(f, U \cup {x}) = SumFunctionOnSet(f, U) + f[x]
      BY <2>1, SumOfOneMore
    <2>3. Cardinality(U \cup {x}) = Cardinality(U) + 1 /\ Cardinality(U) \in Nat
      BY <2>1, FS_AddElement, FS_CardinalityType
    <2>4. /\ Cardinality((U \cup {x}) \cap more)
               = Cardinality(U \cap more) + (IF x \in more THEN 1 ELSE 0)
          /\ Cardinality(U \cap more) \in Nat
      <3>1. IsFiniteSet(U \cap more) /\ x \notin U \cap more
        BY <2>1, FS_Intersection
      <3>2. CASE x \in more
        <4>1. (U \cup {x}) \cap more = (U \cap more) \cup {x}
          BY <3>2
        <4> QED
          BY <3>1, <3>2, <4>1, FS_AddElement, FS_CardinalityType
      <3>3. CASE x \notin more
        <4>1. (U \cup {x}) \cap more = U \cap more
          BY <3>3
        <4>2. Cardinality((U \cup {x}) \cap more) = Cardinality(U \cap more)
          BY <4>1, Zenon
        <4> QED
          BY <3>1, <3>3, <4>2, FS_CardinalityType
      <3> QED
        BY <3>2, <3>3
    <2>5. SumFunctionOnSet(f, U) = base * Cardinality(U) + Cardinality(U \cap more)
          /\ f[x] = base + (IF x \in more THEN 1 ELSE 0)
      OBVIOUS
    <2>6. SumFunctionOnSet(f, U \cup {x})
            = base * Cardinality(U \cup {x}) + Cardinality((U \cup {x}) \cap more)
      <3> DEFINE n == Cardinality(U)
                 k == Cardinality(U \cap more)
                 one == IF x \in more THEN 1 ELSE 0
      <3>1. one \in Nat /\ n \in Nat /\ k \in Nat
        BY <2>3, <2>4
      <3> HIDE DEF n, k, one
      <3>2. (base * n + k) + (base + one) = base * (n + 1) + (k + one)
        BY <3>1
      <3> QED
        BY <2>2, <2>3, <2>4, <2>5, <3>2 DEF n, k, one
    <2> QED
      BY <2>6
  <1>3. Good \in SUBSET SUBSET S
    OBVIOUS
  <1>4. S \in Good
    <2> HIDE DEF Good
    <2> QED
      BY <1>1, <1>2, <1>3, GrowingSet
  <1> QED
    BY <1>4

\* The parts of a division add up.
LEMMA DivisionParts ==
    ASSUME NEW b \in Nat, NEW n \in Nat, n # 0
    PROVE  /\ b \div n \in Nat /\ b % n \in Nat /\ b % n < n
           /\ (b \div n) * n + (b % n) = b
<1> DEFINE q == b \div n
           m == b % n
<1>1. q \in Nat /\ m \in Nat /\ m < n /\ n * q + m = b
    OBVIOUS
<1>2. q * n = n * q
  <2> HIDE DEF q
  <2> QED
    BY <1>1
<1> HIDE DEF q, m
<1>3. q \in Nat /\ m \in Nat /\ m < n /\ q * n + m = b
    BY <1>1, <1>2
<1> QED
    BY <1>3 DEF q, m

\* The members of S that come before x, by their keys.
Before(S, key, x) == {y \in S : key[y] < key[x]}

\* Ranks tell the members of a set apart, and go from 0 to one less than its size.
LEMMA RanksIncrease ==
    ASSUME NEW S, IsFiniteSet(S), NEW key \in [S -> Nat], NEW x \in S
    PROVE  /\ IsFiniteSet(Before(S, key, x))
           /\ Cardinality(Before(S, key, x)) \in Nat
           /\ Cardinality(Before(S, key, x)) < Cardinality(S)
           /\ \A y \in S : key[x] < key[y] =>
                 Cardinality(Before(S, key, x)) < Cardinality(Before(S, key, y))
  <1>1. ASSUME NEW t \in S
        PROVE  /\ Before(S, key, t) \in SUBSET S /\ Before(S, key, t) # S
               /\ IsFiniteSet(Before(S, key, t))
    <2>1. Before(S, key, t) \in SUBSET S /\ t \notin Before(S, key, t)
      BY DEF Before
    <2> QED
      BY <2>1, FS_Subset
  <1>2. ASSUME NEW T, IsFiniteSet(T), NEW U \in SUBSET T, U # T
        PROVE  Cardinality(U) \in Nat /\ Cardinality(U) < Cardinality(T)
    BY <1>2, FS_Subset, FS_CardinalityType
  <1>3. ASSUME NEW y \in S, key[x] < key[y]
        PROVE  Before(S, key, x) \in SUBSET Before(S, key, y)
               /\ Before(S, key, x) # Before(S, key, y)
    <2>1. x \in Before(S, key, y) /\ x \notin Before(S, key, x)
      BY <1>3 DEF Before
    <2>2. ASSUME NEW z \in S, key[z] < key[x] PROVE key[z] < key[y]
      <3>1. key[z] \in Nat /\ key[x] \in Nat /\ key[y] \in Nat
        OBVIOUS
      <3> QED
        BY <1>3, <2>2, <3>1
    <2> QED
      BY <2>1, <2>2 DEF Before
  <1> QED
    BY <1>1, <1>2, <1>3

\* The members of least rank: the first k members of a finite set with distinct keys are k.
THEOREM FirstOfRank ==
    ASSUME NEW S, IsFiniteSet(S), NEW key \in [S -> Nat],
           \A x, y \in S : key[x] = key[y] => x = y,
           NEW k \in Nat, k <= Cardinality(S)
    PROVE  Cardinality({x \in S : Cardinality({y \in S : key[y] < key[x]}) < k}) = k
  <1> DEFINE rank == [x \in S |-> Cardinality(Before(S, key, x))]
             n == Cardinality(S)
             first == {r \in S : rank[r] < k}
             ranks == 0..(n - 1)
  <1>1. n \in Nat
    BY FS_CardinalityType
  <1>2. rank \in [S -> ranks]
    BY <1>1, RanksIncrease
  <1>3. \A r, s \in S : rank[r] = rank[s] => r = s
    <2> SUFFICES ASSUME NEW r \in S, NEW s \in S, r # s PROVE rank[r] # rank[s]
      OBVIOUS
    <2>1. key[r] < key[s] \/ key[s] < key[r]
      <3>1. key[r] # key[s] /\ key[r] \in Nat /\ key[s] \in Nat
        OBVIOUS
      <3> QED
        BY <3>1
    <2>2. /\ Cardinality(Before(S, key, r)) \in Nat /\ Cardinality(Before(S, key, s)) \in Nat
          /\ key[r] < key[s] => Cardinality(Before(S, key, r)) < Cardinality(Before(S, key, s))
          /\ key[s] < key[r] => Cardinality(Before(S, key, s)) < Cardinality(Before(S, key, r))
      BY RanksIncrease
    <2> QED
      BY <2>1, <2>2
  <1>4. IsFiniteSet(ranks) /\ Cardinality(ranks) = n
    <2> HIDE DEF n
    <2>1. IsFiniteSet(ranks) /\ Cardinality(ranks) = IF 0 > n - 1 THEN 0 ELSE n - 1 - 0 + 1
      BY <1>1, FS_Interval
    <2> HIDE DEF ranks
    <2> QED
      BY <1>1, <2>1
  <1>5. \A i \in ranks : \E r \in S : rank[r] = i
    <2> HIDE DEF rank, ranks
    <2>1. rank \in Injection(S, ranks)
      BY <1>2, <1>3 DEF Injection, IsInjective
    <2>2. rank \in Surjection(S, ranks)
      BY <1>4, <2>1, FS_Injection
    <2> QED
      BY <2>2 DEF Surjection
  <1>6. ExistsBijection(first, 0..(k - 1))
    <2> DEFINE g == [r \in first |-> rank[r]]
    <2> HIDE DEF rank
    <2>1. g \in [first -> 0..(k - 1)]
      <3>1. \A r \in S : rank[r] \in Nat
        <4>1. \A i \in ranks : i \in Nat
          OBVIOUS
        <4> HIDE DEF ranks
        <4> QED
          BY <1>2, <4>1
      <3>2. ASSUME NEW r \in S, rank[r] < k PROVE rank[r] \in 0..(k - 1)
        BY <3>1, <3>2
      <3>3. \A r \in first : rank[r] \in 0..(k - 1)
        BY <3>2
      <3> HIDE DEF first
      <3> QED
        BY <3>3
    <2>2. \A r, s \in first : g[r] = g[s] => r = s
      BY <1>3
    <2>3. \A i \in 0..(k - 1) : \E r \in first : g[r] = i
      <3> SUFFICES ASSUME NEW i \in 0..(k - 1) PROVE \E r \in first : g[r] = i
        OBVIOUS
      <3>1. i \in ranks
        <4> HIDE DEF n
        <4>1. k <= n
          BY DEF n
        <4> QED
          BY <1>1, <4>1
      <3>2. PICK r \in S : rank[r] = i
        BY <1>5, <3>1
      <3> QED
        BY <3>2
    <2> HIDE DEF g, first
    <2>4. g \in Bijection(first, 0..(k - 1))
      BY <2>1, <2>2, <2>3 DEF Bijection, Injection, Surjection, IsInjective
    <2> QED
      BY <2>4 DEF ExistsBijection
  <1>7. IsFiniteSet(first)
    BY FS_Subset
  <1>8. Cardinality(0..(k - 1)) = k
    BY FS_Interval
  <1>9. Cardinality(first) = k
    <2> HIDE DEF first
    <2> QED
      BY <1>6, <1>7, <1>8, FS_Bijection
  <1>10. first = {x \in S : Cardinality({y \in S : key[y] < key[x]}) < k}
    BY DEF Before
  <1> QED
    BY <1>9, <1>10, Zenon

\* Renaming what is summed over leaves the sum alone.
THEOREM SumOfImage ==
    ASSUME NEW S, IsFiniteSet(S), NEW g, \A x, y \in S : g[x] = g[y] => x = y,
           NEW f, NEW h, \A x \in S : h[x] = f[g[x]] /\ h[x] \in Int
    PROVE  /\ IsFiniteSet({g[x] : x \in S})
           /\ SumFunctionOnSet(f, {g[x] : x \in S}) = SumFunctionOnSet(h, S)
  <1> DEFINE Im(U) == {g[x] : x \in U}
             Good == {U \in SUBSET S :
                 IsFiniteSet(Im(U)) /\ SumFunctionOnSet(f, Im(U)) = SumFunctionOnSet(h, U)}
  <1>1. {} \in Good
    <2>1. Im({}) = {}
      OBVIOUS
    <2> QED
      BY <2>1, SumOfNone, FS_EmptySet
  <1>2. ASSUME NEW U \in Good, NEW z \in S \ U
        PROVE  U \cup {z} \in Good
    <2> DEFINE V == Im(U)
    <2>1. Im(U \cup {z}) = V \cup {g[z]}
      OBVIOUS
    <2>2. IsFiniteSet(V) /\ g[z] \notin V /\ \A y \in V \cup {g[z]} : f[y] \in Int
      OBVIOUS
    <2>3. IsFiniteSet(U) /\ z \notin U /\ \A y \in U \cup {z} : h[y] \in Int
      BY FS_Subset
    <2>4. SumFunctionOnSet(f, V) = SumFunctionOnSet(h, U)
      OBVIOUS
    <2> HIDE DEF V, Good, Im
    <2>5. SumFunctionOnSet(f, V \cup {g[z]}) = SumFunctionOnSet(f, V) + f[g[z]]
          /\ IsFiniteSet(V \cup {g[z]})
      BY <2>2, SumOfOneMore, FS_AddElement
    <2>6. SumFunctionOnSet(h, U \cup {z}) = SumFunctionOnSet(h, U) + h[z]
      BY <2>3, SumOfOneMore
    <2>7. SumFunctionOnSet(f, V \cup {g[z]}) = SumFunctionOnSet(h, U \cup {z})
      BY <2>4, <2>5, <2>6
    <2>8. IsFiniteSet(Im(U \cup {z}))
          /\ SumFunctionOnSet(f, Im(U \cup {z})) = SumFunctionOnSet(h, U \cup {z})
      BY <2>1, <2>5, <2>7, Zenon
    <2> QED
      BY <2>8 DEF Good
  <1>3. Good \in SUBSET SUBSET S
    OBVIOUS
  <1>4. S \in Good
    <2> HIDE DEF Good
    <2> QED
      BY <1>1, <1>2, <1>3, GrowingSet
  <1> QED
    BY <1>4

\* A non-empty finite set of naturals has a greatest member.
THEOREM GreatestMember ==
    ASSUME NEW S \in SUBSET Nat, IsFiniteSet(S), S # {}
    PROVE  \E m \in S : \A x \in S : x <= m
  <1> DEFINE From(x) == {y \in S : x <= y}
             Tails == {From(x) : x \in S}
  <1>1. PICK T \in Tails : \A U \in Tails : U \subseteq T => U = T
    <2> DEFINE All == S
    <2>1. Tails \in SUBSET SUBSET All /\ IsFiniteSet(All)
      OBVIOUS
    <2>2. Tails # {}
      OBVIOUS
    <2> HIDE DEF From, Tails, All
    <2> QED
      BY <2>1, <2>2, MinimalSubset
  <1>2. PICK m \in S : T = From(m)
    <2> HIDE DEF From
    <2> QED
      OBVIOUS
  <1>3. ASSUME NEW x \in S, m < x PROVE FALSE
    <2>1. From(x) \subseteq From(m) /\ m \in From(m) /\ m \notin From(x)
      <3>1. m \in Nat /\ x \in Nat
        OBVIOUS
      <3>2. \A y \in S : x <= y => m <= y
        <4>1. ASSUME NEW y \in S, x <= y PROVE m <= y
          <5>1. y \in Nat
            OBVIOUS
          <5> QED
            BY <1>3, <3>1, <4>1, <5>1
        <4> QED
          BY <4>1
      <3>3. From(x) \subseteq From(m)
        BY <3>2
      <3>4. m <= m /\ ~(x <= m)
        BY <1>3, <3>1
      <3> QED
        BY <3>3, <3>4
    <2>2. From(x) \in Tails
      OBVIOUS
    <2> HIDE DEF From, Tails
    <2> QED
      BY <1>1, <1>2, <2>1, <2>2
  <1> QED
    BY <1>3

\* Every number from 1 to n is in a set that each next one joins.
LEMMA CountingUp ==
    ASSUME NEW n \in Nat, NEW Good \in SUBSET (1..n), n > 0 => 1 \in Good,
           \A m \in Good : m < n => m + 1 \in Good
    PROVE  Good = 1..n
<1> SUFFICES ASSUME Good # 1..n PROVE FALSE
    OBVIOUS
<1> DEFINE Failing == (1..n) \ Good
<1>0. \E m \in 1..n : m \notin Good
    BY Zenon
<1>1. Failing \in SUBSET Nat /\ Failing # {}
    BY <1>0
<1>2. PICK m \in Failing : \A k \in Failing : m <= k
  <2> HIDE DEF Failing
  <2> QED
    BY <1>1, LeastNatural
<1>3. m # 1 /\ m \in 1..n
    BY <1>2
<1>4. m - 1 \in 1..n /\ m - 1 \notin Failing
    BY <1>2, <1>3
<1>5. m - 1 \in Good /\ m - 1 < n
    BY <1>3, <1>4
<1>6. (m - 1) + 1 \in Good
    BY <1>5
<1> QED
    BY <1>2, <1>3, <1>6

-----------------------------------------------------------------------------
\* A common factor is a factor of the sum.
THEOREM SumOfMultiples ==
    ASSUME NEW S, IsFiniteSet(S), NEW m \in Int, NEW f, NEW h,
           \A x \in S : f[x] \in Int /\ h[x] = m * f[x]
    PROVE  SumFunctionOnSet(h, S) = m * SumFunctionOnSet(f, S)
  <1> DEFINE Good == {U \in SUBSET S : SumFunctionOnSet(h, U) = m * SumFunctionOnSet(f, U)}
  <1>1. {} \in Good
    <2>1. m * 0 = 0
      OBVIOUS
    <2> QED
      BY <2>1, SumOfNone
  <1>2. ASSUME NEW U \in Good, NEW x \in S \ U
        PROVE  U \cup {x} \in Good
    <2>1. /\ IsFiniteSet(U) /\ U \cup {x} \in SUBSET S
          /\ \A y \in U \cup {x} : f[y] \in Int
          /\ \A y \in U \cup {x} : h[y] \in Int
      BY FS_Subset
    <2>2. SumFunctionOnSet(h, U \cup {x}) = SumFunctionOnSet(h, U) + h[x]
      BY <2>1, SumOfOneMore
    <2>3. SumFunctionOnSet(f, U \cup {x}) = SumFunctionOnSet(f, U) + f[x]
      BY <2>1, SumOfOneMore
    <2>4. SumFunctionOnSet(f, U) \in Int
      BY <2>1, SumIsInt
    <2>5. SumFunctionOnSet(h, U) = m * SumFunctionOnSet(f, U) /\ h[x] = m * f[x] /\ f[x] \in Int
      OBVIOUS
    <2> DEFINE a == SumFunctionOnSet(f, U)
               b == f[x]
    <2>6. m * a + m * b = m * (a + b)
      <3> HIDE DEF a, b
      <3>1. a \in Int /\ b \in Int
        BY <2>4, <2>5 DEF a, b
      <3> QED
        BY <3>1
    <2> QED
      BY <2>1, <2>2, <2>3, <2>5, <2>6
  <1>3. Good \in SUBSET SUBSET S
    OBVIOUS
  <1>4. S \in Good
    <2> HIDE DEF Good
    <2> QED
      BY <1>1, <1>2, <1>3, GrowingSet
  <1> QED
    BY <1>4

\* Nothing but one member counts.
THEOREM SumOfOnly ==
    ASSUME NEW S, IsFiniteSet(S), NEW x \in S, NEW f, f[x] \in Int, \A y \in S \ {x} : f[y] = 0
    PROVE  SumFunctionOnSet(f, S) = f[x]
  <1> DEFINE rest == S \ {x}
             zero == 0
             none == [y \in rest |-> 0]
  <1>1. IsFiniteSet(rest) /\ x \notin rest /\ rest \cup {x} = S /\ \A y \in rest \cup {x} : f[y] \in Int
    BY FS_Subset
  <1>2. SumFunctionOnSet(f, rest) = 0
    <2>1. zero \in Int /\ \A y \in rest : f[y] = zero * f[y] /\ f[y] \in Int
      OBVIOUS
    <2> HIDE DEF rest, zero
    <2>2. SumFunctionOnSet(f, rest) = zero * SumFunctionOnSet(f, rest)
      BY <1>1, <2>1, SumOfMultiples
    <2>3. SumFunctionOnSet(f, rest) \in Int
      BY <1>1, <2>1, SumIsInt
    <2> QED
      BY <2>2, <2>3 DEF zero
  <1> HIDE DEF rest
  <1>3. SumFunctionOnSet(f, rest \cup {x}) = SumFunctionOnSet(f, rest) + f[x]
    BY <1>1, SumOfOneMore
  <1>4. SumFunctionOnSet(f, S) = SumFunctionOnSet(f, rest) + f[x]
    BY <1>1, <1>3, Zenon
  <1> QED
    BY <1>2, <1>4

\* The sum over the pairs of one first component.
PairOf(x, y) == <<x, y>>
RowSum(h, x, T) == SumFunctionOnSet(h, {x} \X T)

LEMMA SumOfRow ==
    ASSUME NEW T, IsFiniteSet(T), NEW x, NEW h, NEW along,
           \A y \in T : along[y] = h[PairOf(x, y)] /\ along[y] \in Int
    PROVE  RowSum(h, x, T) = SumFunctionOnSet(along, T)
  <1> DEFINE pair == [y \in T |-> PairOf(x, y)]
             row == {pair[y] : y \in T}
  <1>1. \A y, z \in T : pair[y] = pair[z] => y = z
    BY DEF PairOf
  <1>2. \A y \in T : along[y] = h[pair[y]] /\ along[y] \in Int
    OBVIOUS
  <1>3. row = {x} \X T
    BY DEF PairOf
  <1> HIDE DEF pair
  <1>4. SumFunctionOnSet(h, {pair[y] : y \in T}) = SumFunctionOnSet(along, T)
    BY <1>1, <1>2, SumOfImage
  <1> QED
    BY <1>3, <1>4, Zenon DEF RowSum, row

\* The sum over pairs of a product of what depends on one of each.
PairsOf(S, T) == S \X T

THEOREM SumOfProducts ==
    ASSUME NEW S, IsFiniteSet(S), NEW T, IsFiniteSet(T),
           NEW f, \A x \in S : f[x] \in Int, NEW g, \A y \in T : g[y] \in Int,
           NEW h, \A x \in S, y \in T : h[PairOf(x, y)] = f[x] * g[y]
    PROVE  /\ IsFiniteSet(PairsOf(S, T))
           /\ SumFunctionOnSet(h, PairsOf(S, T)) = SumFunctionOnSet(f, S) * SumFunctionOnSet(g, T)
  <1> DEFINE total == SumFunctionOnSet(g, T)
             Good == {U \in SUBSET S : /\ IsFiniteSet(U \X T)
                                       /\ SumFunctionOnSet(h, U \X T) = SumFunctionOnSet(f, U) * total}
  <1>0. total \in Int
    BY SumIsInt
  <1>5. \A x \in S, y \in T : h[<<x, y>>] = f[x] * g[y]
    BY DEF PairOf
  <1>1. {} \in Good
    <2>1. {} \X T = {} /\ IsFiniteSet({})
      BY FS_EmptySet
    <2>2. 0 * total = 0
      BY <1>0
    <2> HIDE DEF total
    <2> QED
      BY <2>1, <2>2, SumOfNone
  <1>2. ASSUME NEW U \in Good, NEW x \in S \ U
        PROVE  U \cup {x} \in Good
    <2> DEFINE row == {x} \X T
               along == [y \in T |-> h[<<x, y>>]]
               old == U \X T
    <2>1. IsFiniteSet(U) /\ U \in SUBSET S /\ IsFiniteSet(old) /\ (U \cup {x}) \X T = old \cup row /\ old \cap row = {}
      BY FS_Subset
    <2>2. IsFiniteSet(row) /\ SumFunctionOnSet(h, row) = SumFunctionOnSet(along, T)
      <3>1. \A y \in T : along[y] = h[<<x, y>>] /\ along[y] \in Int
        BY <1>5
      <3>2. \A y \in T : along[y] = h[PairOf(x, y)] /\ along[y] \in Int
        BY <3>1 DEF PairOf
      <3> HIDE DEF along, row
      <3>3. RowSum(h, x, T) = SumFunctionOnSet(along, T)
        BY <3>2, SumOfRow
      <3>4. IsFiniteSet(row)
        BY FS_Singleton, FS_Product DEF row
      <3> QED
        BY <3>3, <3>4 DEF row, RowSum
    <2>3. SumFunctionOnSet(along, T) = f[x] * total
      <3> DEFINE m == f[x]
      <3>1. m \in Int /\ \A y \in T : g[y] \in Int /\ along[y] = m * g[y]
        BY <1>5
      <3> HIDE DEF m, along
      <3> QED
        BY <3>1, SumOfMultiples DEF m
    <2>4. \A p \in old \cup row : h[p] \in Int
      <3> SUFFICES ASSUME NEW p \in old \cup row PROVE h[p] \in Int
        OBVIOUS
      <3>1. PICK a \in S, b \in T : p = <<a, b>>
        BY <2>1
      <3>2. f[a] \in Int /\ g[b] \in Int /\ h[p] = f[a] * g[b]
        BY <1>5, <3>1
      <3> QED
        BY <3>2
    <2>5. SumFunctionOnSet(f, U) \in Int /\ SumFunctionOnSet(f, U \cup {x}) = SumFunctionOnSet(f, U) + f[x]
      <3>1. \A y \in U \cup {x} : f[y] \in Int
        BY <2>1
      <3> QED
        BY <2>1, <3>1, SumOfOneMore, SumIsInt
    <2> HIDE DEF row, old
    <2>6. SumFunctionOnSet(h, old \cup row) = SumFunctionOnSet(h, old) + SumFunctionOnSet(h, row)
      BY <2>1, <2>2, <2>4, SumOfUnion
    <2>7. IsFiniteSet(old \cup row)
      BY <2>1, <2>2, FS_Union
    <2>8. SumFunctionOnSet(h, old) = SumFunctionOnSet(f, U) * total /\ f[x] \in Int
      BY DEF old
    <2> DEFINE a == SumFunctionOnSet(f, U)
               b == f[x]
    <2>9. a * total + b * total = (a + b) * total
      <3>1. a \in Int /\ b \in Int
        BY <2>5, <2>8
      <3> HIDE DEF a, b, total
      <3> QED
        BY <1>0, <3>1
    <2>10. SumFunctionOnSet(h, old \cup row) = SumFunctionOnSet(f, U \cup {x}) * total
      <3> HIDE DEF total
      <3> QED
        BY <2>2, <2>3, <2>5, <2>6, <2>8, <2>9
    <2>11. U \cup {x} \in SUBSET S
      BY <2>1
    <2> HIDE DEF total
    <2> QED
      BY <2>1, <2>7, <2>10, <2>11
  <1>3. Good \in SUBSET SUBSET S
    OBVIOUS
  <1>4. S \in Good
    <2> HIDE DEF Good
    <2> QED
      BY <1>1, <1>2, <1>3, GrowingSet
  <1> QED
    BY <1>4 DEF PairsOf

\* Added up by where they lead to, the members that lead into a set.
Fibre(X, to, t) == {x \in X : to[x] = t}
Fibres(X, to, T) == {x \in X : to[x] \in T}

THEOREM SumByFibres ==
    ASSUME NEW X, IsFiniteSet(X), NEW f, \A x \in X : f[x] \in Int, NEW to,
           NEW T, IsFiniteSet(T),
           NEW g, \A t \in T : g[t] = SumFunctionOnSet(f, Fibre(X, to, t))
    PROVE  SumFunctionOnSet(g, T) = SumFunctionOnSet(f, Fibres(X, to, T))
  <1> DEFINE Into(U) == Fibres(X, to, U)
             Good == {U \in SUBSET T : SumFunctionOnSet(g, U) = SumFunctionOnSet(f, Into(U))}
  <1>0. \A t \in T : g[t] \in Int
    <2> SUFFICES ASSUME NEW t \in T PROVE g[t] \in Int
      OBVIOUS
    <2> DEFINE fibre == Fibre(X, to, t)
    <2>1. IsFiniteSet(fibre) /\ \A x \in fibre : f[x] \in Int
      BY FS_Subset DEF Fibre
    <2> HIDE DEF fibre
    <2>2. SumFunctionOnSet(f, fibre) \in Int
      BY <2>1, SumIsInt
    <2> QED
      BY <2>2 DEF fibre
  <1>1. {} \in Good
    <2>1. Into({}) = {}
      BY DEF Fibres
    <2> HIDE DEF Into
    <2> QED
      BY <2>1, SumOfNone
  <1>2. ASSUME NEW U \in Good, NEW t \in T \ U
        PROVE  U \cup {t} \in Good
    <2> DEFINE old == Into(U)
               fibre == Fibre(X, to, t)
    <2>1. /\ IsFiniteSet(old) /\ IsFiniteSet(fibre) /\ old \cap fibre = {} /\ old \cup fibre = Into(U \cup {t})
          /\ \A x \in old \cup fibre : f[x] \in Int
      BY FS_Subset DEF Fibre, Fibres
    <2>2. IsFiniteSet(U) /\ U \cup {t} \in SUBSET T /\ t \notin U /\ \A u \in U \cup {t} : g[u] \in Int
      BY <1>0, FS_Subset
    <2>3. g[t] = SumFunctionOnSet(f, fibre) /\ SumFunctionOnSet(g, U) = SumFunctionOnSet(f, old)
      OBVIOUS
    <2> HIDE DEF old, fibre, Into
    <2>4. SumFunctionOnSet(f, old \cup fibre) = SumFunctionOnSet(f, old) + SumFunctionOnSet(f, fibre)
      BY <2>1, SumOfUnion
    <2>5. SumFunctionOnSet(g, U \cup {t}) = SumFunctionOnSet(g, U) + g[t]
      BY <2>2, SumOfOneMore
    <2> QED
      BY <2>1, <2>2, <2>3, <2>4, <2>5
  <1>3. Good \in SUBSET SUBSET T
    OBVIOUS
  <1>4. T \in Good
    <2> HIDE DEF Good
    <2> QED
      BY <1>1, <1>2, <1>3, GrowingSet
  <1> QED
    BY <1>4
=============================================================================
