-------------------------- MODULE SiteUpdateProofs --------------------------
(***************************************************************************)
(* What holds of a project's records in every behaviour of SiteUpdateRun,   *)
(* for any project, any reports and any commands of people.                *)
(***************************************************************************)
EXTENDS SiteUpdateRun, TLAPS, FiniteSetTheorems, WellFoundedInduction, SequenceTheorems

-----------------------------------------------------------------------------
(***************************************************************************)
(* Recursive functions.  An induction is about the set of the numbers for  *)
(* which a fact holds: the least number outside of it leads to a contra-   *)
(* diction.                                                                *)
(***************************************************************************)
\* A set with 0 and all successors has every natural number.
LEMMA SetInduction ==
  ASSUME NEW S, 0 \in S, \A n \in Nat : n \in S => n + 1 \in S
  PROVE  Nat \subseteq S
<1>. DEFINE T == {n \in Nat : n \notin S}
<1>. SUFFICES ASSUME T # {} PROVE FALSE  OBVIOUS
<1>1. PICK x \in T : \A y \in T : ~(<<y, x>> \in OpToRel(<, Nat))
  <2>1. T \subseteq Nat  OBVIOUS
  <2>. QED BY <2>1, NatLessThanWellFounded, WFMin
<1>2. x \in Nat /\ x # 0 /\ x \notin S  OBVIOUS
<1>3. x - 1 \in Nat /\ x - 1 < x BY <1>2
<1>4. <<x - 1, x>> \in OpToRel(<, Nat)  BY <1>2, <1>3 DEF OpToRel
<1>5. x - 1 \in S  BY <1>1, <1>3, <1>4
<1>. QED BY <1>2, <1>3, <1>5

\* The elements of two lists together.
LEMMA ConcatSet ==
  ASSUME NEW S, NEW s \in Seq(S), NEW t \in Seq(S)
  PROVE  ToSet(s \o t) = ToSet(s) \cup ToSet(t)
<1>1. /\ Len(s) \in Nat /\ DOMAIN s = 1..Len(s) /\ Len(t) \in Nat /\ DOMAIN t = 1..Len(t)
      /\ s \o t \in Seq(S) /\ Len(s \o t) = Len(s) + Len(t)
      /\ \A i \in 1..(Len(s) + Len(t)) : (s \o t)[i] = IF i <= Len(s) THEN s[i] ELSE t[i - Len(s)]
  BY ConcatProperties
<1>2. DOMAIN (s \o t) = 1..(Len(s) + Len(t))  BY <1>1
<1>3. ASSUME NEW x \in ToSet(s \o t) PROVE x \in ToSet(s) \cup ToSet(t)
  <2>1. PICK i \in 1..(Len(s) + Len(t)) : x = (s \o t)[i]  BY <1>2 DEF ToSet
  <2>. QED BY <1>1, <2>1 DEF ToSet
<1>4. ASSUME NEW x \in ToSet(s) PROVE x \in ToSet(s \o t)
  <2>1. PICK i \in 1..Len(s) : x = s[i]  BY <1>1 DEF ToSet
  <2>2. i \in 1..(Len(s) + Len(t)) /\ (s \o t)[i] = x  BY <1>1, <2>1
  <2>. QED BY <1>2, <2>2 DEF ToSet
<1>5. ASSUME NEW x \in ToSet(t) PROVE x \in ToSet(s \o t)
  <2>1. PICK i \in 1..Len(t) : x = t[i]  BY <1>1 DEF ToSet
  <2>2. i + Len(s) \in 1..(Len(s) + Len(t)) /\ (s \o t)[i + Len(s)] = x  BY <1>1, <2>1
  <2>. QED BY <1>2, <2>2 DEF ToSet
<1>. QED BY <1>3, <1>4, <1>5

\* A flattened list is the last of the lists that its parts add up to.
LEMMA FlattenSteps ==
  ASSUME NEW S, NEW ss \in Seq(Seq(S))
  PROVE  \E F \in [1..Len(ss) -> Seq(S)] :
           /\ \A i \in 1..Len(ss) : F[i] = IF i = 1 THEN ss[i] ELSE F[i - 1] \o ss[i]
           /\ FlattenSeq(ss) = IF Len(ss) = 0 THEN <<>> ELSE F[Len(ss)]
<1>. DEFINE N == Len(ss)
            Body(f, i) == IF i = 1 THEN ss[i] ELSE f[i - 1] \o ss[i]
            Upto(n) == \E f \in [1..n -> Seq(S)] : \A i \in 1..n : f[i] = Body(f, i)
            Done == {n \in Nat : n <= N => Upto(n)}
<1>0. N \in Nat /\ \A i \in 1..N : ss[i] \in Seq(S)  OBVIOUS
<1>1. 0 \in Done
  <2>1. 1..0 = {}  OBVIOUS
  <2>2. Upto(0)
    <3>1. [i \in {} |-> <<>>] \in [1..0 -> Seq(S)]  BY <2>1
    <3>2. \A i \in 1..0 : FALSE  BY <2>1
    <3>. QED BY <3>1, <3>2
  <2>. HIDE DEF Upto
  <2>. QED BY <2>2
<1>2. ASSUME NEW n \in Nat, n \in Done PROVE n + 1 \in Done
  <2>. SUFFICES ASSUME n + 1 <= N PROVE Upto(n + 1)
    <3>. HIDE DEF Upto
    <3>. QED OBVIOUS
  <2>0. Upto(n)
    <3>. HIDE DEF Upto
    <3>. QED BY <1>2, <1>0
  <2>1. PICK f \in [1..n -> Seq(S)] : \A i \in 1..n : f[i] = Body(f, i)  BY <2>0
  <2>. DEFINE g == [i \in 1..(n + 1) |-> IF i <= n THEN f[i] ELSE IF i = 1 THEN ss[i] ELSE f[i - 1] \o ss[i]]
  <2>2. ASSUME NEW i \in 1..(n + 1) PROVE g[i] \in Seq(S)
    <3>1. CASE i <= n  BY <3>1, <2>1
    <3>2. CASE i = n + 1 /\ i = 1  BY <3>2, <1>0
    <3>3. CASE i = n + 1 /\ i # 1
      <4>1. f[i - 1] \in Seq(S) /\ ss[i] \in Seq(S)  BY <3>3, <2>1, <1>0
      <4>. QED BY <3>3, <4>1
    <3>. QED BY <3>1, <3>2, <3>3
  <2>3. g \in [1..(n + 1) -> Seq(S)]  BY <2>2
  <2>4. ASSUME NEW i \in 1..(n + 1) PROVE g[i] = Body(g, i)
    <3>0. g[i] = IF i <= n THEN f[i] ELSE IF i = 1 THEN ss[i] ELSE f[i - 1] \o ss[i]  OBVIOUS
    <3>1. CASE i <= n /\ i # 1
      <4>1. i - 1 \in 1..(n + 1) /\ i - 1 <= n /\ i \in 1..n  BY <3>1
      <4>2. g[i - 1] = f[i - 1] /\ g[i] = f[i]  BY <4>1, <3>1
      <4>3. f[i] = f[i - 1] \o ss[i]  BY <4>1, <3>1, <2>1
      <4>. QED BY <4>2, <4>3, <3>1
    <3>2. CASE i = 1
      <4>1. ASSUME i <= n PROVE f[i] = ss[i]
        <5>1. i \in 1..n  BY <4>1
        <5>2. f[i] = Body(f, i)  BY <5>1, <2>1
        <5>. QED BY <5>2, <3>2
      <4>. QED BY <4>1, <3>0, <3>2
    <3>3. CASE i = n + 1 /\ i # 1
      <4>1. i - 1 \in 1..(n + 1) /\ i - 1 <= n /\ ~(i <= n)  BY <3>3
      <4>2. g[i - 1] = f[i - 1] BY <4>1
      <4>. QED BY <4>2, <4>1, <3>0, <3>3
    <3>. QED BY <3>1, <3>2, <3>3
  <2>. QED BY <2>3, <2>4
<1>3. Upto(N)
  <2>. HIDE DEF Done, Upto
  <2>1. Nat \subseteq Done  BY <1>1, <1>2, SetInduction
  <2>2. N \in Done  BY <2>1, <1>0
  <2>. QED BY <2>2, <1>0 DEF Done
<1>. DEFINE F == CHOOSE f : f = [i \in 1..N |-> Body(f, i)]
<1>4. F = [i \in 1..N |-> Body(F, i)]
  <2>1. PICK f \in [1..N -> Seq(S)] : \A i \in 1..N : f[i] = Body(f, i)  BY <1>3
  <2>2. f = [i \in 1..N |-> Body(f, i)]  BY <2>1
  <2>. QED BY <2>2
<1>. HIDE DEF F
<1>. DEFINE Typed == {n \in Nat : \A i \in 1..N : i <= n => F[i] \in Seq(S)}
<1>5. 0 \in Typed  OBVIOUS
<1>6. ASSUME NEW n \in Nat, n \in Typed PROVE n + 1 \in Typed
  <2>. SUFFICES ASSUME NEW i \in 1..N, i = n + 1 PROVE F[i] \in Seq(S)  BY <1>6
  <2>1. F[i] = IF i = 1 THEN ss[i] ELSE F[i - 1] \o ss[i]  BY <1>4
  <2>2. ss[i] \in Seq(S) /\ (i # 1 => F[i - 1] \in Seq(S))  BY <1>6, <1>0
  <2>. QED BY <2>1, <2>2
<1>7. Nat \subseteq Typed
  <2>. HIDE DEF Typed
  <2>. QED BY <1>5, <1>6, SetInduction
<1>8. ASSUME NEW i \in 1..N PROVE F[i] \in Seq(S)
  <2>1. i \in Nat /\ i <= i  BY <1>0
  <2>2. i \in Typed  BY <1>7, <2>1
  <2>. QED BY <2>1, <2>2
<1>9. F \in [1..N -> Seq(S)] /\ \A i \in 1..N : F[i] = Body(F, i)
  <2>1. F = [i \in 1..N |-> F[i]]  BY <1>4
  <2>. QED BY <1>4, <1>8, <2>1
<1>10. FlattenSeq(ss) = IF N = 0 THEN <<>> ELSE F[N]
  <2>1. CASE N = 0  BY <2>1, <1>0 DEF FlattenSeq
  <2>2. CASE N # 0  BY <2>2 DEF FlattenSeq, F
  <2>. QED BY <2>1, <2>2
<1>. QED BY <1>9, <1>10

LEMMA FlattenSeqType ==
  ASSUME NEW S, NEW ss \in Seq(Seq(S))
  PROVE  FlattenSeq(ss) \in Seq(S)
<1>1. PICK F \in [1..Len(ss) -> Seq(S)] :
         FlattenSeq(ss) = IF Len(ss) = 0 THEN <<>> ELSE F[Len(ss)]
  BY FlattenSteps
<1>2. Len(ss) \in Nat /\ (Len(ss) # 0 => Len(ss) \in 1..Len(ss))  OBVIOUS
<1>3. Len(ss) # 0 => F[Len(ss)] \in Seq(S)  BY <1>1, <1>2
<1>4. <<>> \in Seq(S)  OBVIOUS
<1>. QED BY <1>1, <1>3, <1>4

\* Whatever holds of the empty list and of two lists together holds of a flattened one.
LEMMA FlattenClosed ==
  ASSUME NEW S, NEW C, C \subseteq Seq(S), <<>> \in C, \A s, t \in C : s \o t \in C,
         NEW ss \in Seq(Seq(S)), \A i \in 1..Len(ss) : ss[i] \in C
  PROVE  FlattenSeq(ss) \in C
<1>. DEFINE N == Len(ss)
<1>0. N \in Nat  OBVIOUS
<1>1. PICK F \in [1..N -> Seq(S)] :
         /\ \A i \in 1..N : F[i] = IF i = 1 THEN ss[i] ELSE F[i - 1] \o ss[i]
         /\ FlattenSeq(ss) = IF N = 0 THEN <<>> ELSE F[N]
  BY FlattenSteps
<1>. DEFINE In == {n \in Nat : \A i \in 1..N : i <= n => F[i] \in C}
<1>2. 0 \in In  OBVIOUS
<1>3. ASSUME NEW n \in Nat, n \in In PROVE n + 1 \in In
  <2>1. ASSUME NEW i \in 1..N, i <= n + 1 PROVE F[i] \in C
    <3>1. CASE i <= n  BY <1>3, <3>1
    <3>2. CASE i = 1  BY <1>1, <3>2
    <3>3. CASE i = n + 1 /\ i # 1
      <4>1. i - 1 \in 1..N /\ i - 1 <= n  BY <3>3, <1>0
      <4>2. F[i - 1] \in C  BY <1>3, <4>1
      <4>. QED BY <1>1, <3>3, <4>2
    <3>. QED BY <1>0, <2>1, <3>1, <3>2, <3>3
  <2>2. n + 1 \in Nat  OBVIOUS
  <2>. QED BY <2>1, <2>2, Zenon
<1>4. Nat \subseteq In
  <2>. HIDE DEF In
  <2>. QED BY <1>2, <1>3, SetInduction
<1>5. N # 0 => F[N] \in C
  <2>1. N \in In  BY <1>4, <1>0
  <2>2. N # 0 => N \in 1..N /\ N <= N  BY <1>0
  <2>. QED BY <2>1, <2>2
<1>. QED BY <1>1, <1>5

LEMMA FlattenCovers ==
  ASSUME NEW S, NEW ss \in Seq(Seq(S)), NEW j \in 1..Len(ss), NEW x \in ToSet(ss[j])
  PROVE  x \in ToSet(FlattenSeq(ss))
<1>. DEFINE N == Len(ss)
<1>0. N \in Nat /\ \A i \in 1..N : ss[i] \in Seq(S)  OBVIOUS
<1>1. PICK F \in [1..N -> Seq(S)] :
         /\ \A i \in 1..N : F[i] = IF i = 1 THEN ss[i] ELSE F[i - 1] \o ss[i]
         /\ FlattenSeq(ss) = IF N = 0 THEN <<>> ELSE F[N]
  BY FlattenSteps
<1>. DEFINE In == {n \in Nat : \A i \in 1..N : i <= n /\ j <= i => x \in ToSet(F[i])}
<1>2. 0 \in In  OBVIOUS
<1>3. ASSUME NEW n \in Nat, n \in In PROVE n + 1 \in In
  <2>. SUFFICES ASSUME NEW i \in 1..N, i = n + 1, j <= i PROVE x \in ToSet(F[i])  BY <1>3
  <2>1. CASE i = 1
    <3>1. j = i  BY <2>1
    <3>. QED BY <1>1, <2>1, <3>1
  <2>2. CASE i # 1
    <3>0. i - 1 \in 1..N  BY <1>0, <2>2
    <3>1. i - 1 \in 1..N /\ F[i] = F[i - 1] \o ss[i]  BY <1>1, <2>2, <3>0
    <3>2. F[i - 1] \in Seq(S) /\ ss[i] \in Seq(S)  BY <1>0, <1>1, <3>1
    <3>3. ToSet(F[i]) = ToSet(F[i - 1]) \cup ToSet(ss[i])  BY <3>1, <3>2, ConcatSet
    <3>4. j # i => x \in ToSet(F[i - 1])  BY <1>3, <3>1
    <3>. QED BY <3>3, <3>4
  <2>. QED BY <2>1, <2>2
<1>4. Nat \subseteq In
  <2>. HIDE DEF In
  <2>. QED BY <1>2, <1>3, SetInduction
<1>5. N # 0 /\ x \in ToSet(F[N])
  <2>1. N \in In /\ N \in 1..N /\ j <= N  BY <1>4, <1>0
  <2>. QED BY <2>1
<1>. QED BY <1>1, <1>5

AnyOf(s) == CHOOSE x \in s : TRUE

Totals(S, w, f) ==
  f = [s \in SUBSET S |-> IF s = {} THEN 0 ELSE w[AnyOf(s)] + f[s \ {AnyOf(s)}]]

LEMMA Smaller ==
  ASSUME NEW S, IsFiniteSet(S), NEW s \in SUBSET S
  PROVE  /\ IsFiniteSet(s) /\ Cardinality(s) \in Nat /\ (Cardinality(s) = 0 <=> s = {})
         /\ \A x \in s : /\ s \ {x} \in SUBSET S
                         /\ Cardinality(s \ {x}) = Cardinality(s) - 1
         /\ s # {} => AnyOf(s) \in s
<1>1. IsFiniteSet(s)  BY FS_Subset
<1>2. Cardinality(s) \in Nat  BY <1>1, FS_CardinalityType
<1>3. Cardinality(s) = 0 <=> s = {}  BY <1>1, FS_EmptySet
<1>4. ASSUME NEW x \in s PROVE Cardinality(s \ {x}) = Cardinality(s) - 1
  BY <1>1, FS_RemoveElement
<1>5. s # {} => AnyOf(s) \in s  BY DEF AnyOf
<1>. QED BY <1>1, <1>2, <1>3, <1>4, <1>5

LEMMA TotalsExist ==
  ASSUME NEW S, IsFiniteSet(S), NEW w \in [S -> Int]
  PROVE  \E f : Totals(S, w, f)
<1>. DEFINE Body(f, s) == IF s = {} THEN 0 ELSE w[AnyOf(s)] + f[s \ {AnyOf(s)}]
            Upto(n) == \E f \in [SUBSET S -> Int] :
                          \A s \in SUBSET S : Cardinality(s) <= n => f[s] = Body(f, s)
            Done == {n \in Nat : Upto(n)}
<1>1. Upto(0)
  <2>. DEFINE f == [s \in SUBSET S |-> 0]
  <2>1. f \in [SUBSET S -> Int]  OBVIOUS
  <2>2. ASSUME NEW s \in SUBSET S, Cardinality(s) <= 0 PROVE f[s] = Body(f, s)
    <3>1. s = {}  BY <2>2, Smaller
    <3>. QED BY <3>1
  <2>. QED BY <2>1, <2>2
<1>2. ASSUME NEW n \in Nat, Upto(n) PROVE Upto(n + 1)
  <2>1. PICK f \in [SUBSET S -> Int] :
               \A s \in SUBSET S : Cardinality(s) <= n => f[s] = Body(f, s)  BY <1>2
  <2>. DEFINE g == [s \in SUBSET S |-> Body(f, s)]
  <2>2. ASSUME NEW s \in SUBSET S PROVE Body(f, s) \in Int
    <3>1. CASE s = {}  BY <3>1
    <3>2. CASE s # {}
      <4>1. AnyOf(s) \in s /\ s \ {AnyOf(s)} \in SUBSET S  BY <3>2, Smaller
      <4>2. w[AnyOf(s)] \in Int /\ f[s \ {AnyOf(s)}] \in Int  BY <4>1
      <4>. QED BY <4>2, <3>2
    <3>. QED BY <3>1, <3>2
  <2>3. g \in [SUBSET S -> Int]
    <3>. HIDE DEF Body
    <3>. QED BY <2>2
  <2>4. ASSUME NEW s \in SUBSET S, Cardinality(s) <= n + 1 PROVE g[s] = Body(g, s)
    <3>1. CASE s = {}  BY <3>1
    <3>2. CASE s # {}
      <4>. DEFINE r == s \ {AnyOf(s)}
      <4>1. r \in SUBSET S /\ Cardinality(r) <= n
        <5>1. AnyOf(s) \in s /\ Cardinality(s) \in Nat  BY <3>2, Smaller
        <5>2. r \in SUBSET S /\ Cardinality(r) = Cardinality(s) - 1  BY <5>1, Smaller
        <5>. QED BY <5>1, <5>2, <2>4
      <4>2. f[r] = Body(f, r)  BY <4>1, <2>1
      <4>3. g[r] = Body(f, r)  BY <4>1
      <4>4. g[s] = w[AnyOf(s)] + f[r]  BY <3>2
      <4>. QED BY <4>2, <4>3, <4>4, <3>2
    <3>. QED BY <3>1, <3>2
  <2>. QED BY <2>3, <2>4
<1>3. Upto(Cardinality(S))
  <2>. HIDE DEF Upto
  <2>1. 0 \in Done  BY <1>1
  <2>2. \A n \in Nat : n \in Done => n + 1 \in Done  BY <1>2
  <2>3. Nat \subseteq Done
    <3>. HIDE DEF Done
    <3>. QED BY <2>1, <2>2, SetInduction
  <2>. QED BY <2>3, FS_CardinalityType
<1>4. PICK f \in [SUBSET S -> Int] :
             \A s \in SUBSET S : Cardinality(s) <= Cardinality(S) => f[s] = Body(f, s)
  BY <1>3
<1>5. ASSUME NEW s \in SUBSET S PROVE f[s] = Body(f, s)
  <2>1. Cardinality(s) <= Cardinality(S)  BY FS_Subset
  <2>. QED BY <2>1, <1>4
<1>6. f = [s \in SUBSET S |-> Body(f, s)]
  <2>. HIDE DEF Body
  <2>. QED BY <1>4, <1>5
<1>. QED BY <1>6 DEF Totals

Sums(S, w, f) ==
  /\ f \in [SUBSET S -> Int] /\ f[{}] = 0
  /\ \A s \in SUBSET S : \A x \in s : f[s] = w[x] + f[s \ {x}]

LEMMA TotalsLaw ==
  ASSUME NEW S, IsFiniteSet(S), NEW w \in [S -> Int], NEW f, Totals(S, w, f)
  PROVE  Sums(S, w, f)
<1>1. f[{}] = 0  BY DEF Totals
<1>2. ASSUME NEW s \in SUBSET S, s # {} PROVE f[s] = w[AnyOf(s)] + f[s \ {AnyOf(s)}]
  BY <1>2 DEF Totals
<1>. DEFINE Typed == {n \in Nat : \A s \in SUBSET S : Cardinality(s) = n => f[s] \in Int}
            Lawful(s) == \A x \in s : f[s] = w[x] + f[s \ {x}]
            Done == {n \in Nat : \A s \in SUBSET S : Cardinality(s) = n => Lawful(s)}
<1>3. 0 \in Typed
  <2>. SUFFICES ASSUME NEW s \in SUBSET S, Cardinality(s) = 0 PROVE f[s] \in Int  OBVIOUS
  <2>1. s = {}  BY Smaller
  <2>. QED BY <2>1, <1>1
<1>4. ASSUME NEW n \in Nat, n \in Typed PROVE n + 1 \in Typed
  <2>. SUFFICES ASSUME NEW s \in SUBSET S, Cardinality(s) = n + 1 PROVE f[s] \in Int  OBVIOUS
  <2>1. s # {}  BY Smaller
  <2>2. AnyOf(s) \in s /\ AnyOf(s) \in S  BY <2>1, Smaller
  <2>3. s \ {AnyOf(s)} \in SUBSET S /\ Cardinality(s \ {AnyOf(s)}) = n  BY <2>2, Smaller
  <2>4. f[s \ {AnyOf(s)}] \in Int  BY <2>3, <1>4
  <2>5. w[AnyOf(s)] \in Int  BY <2>2
  <2>. QED BY <1>2, <2>1, <2>4, <2>5
<1>5. ASSUME NEW s \in SUBSET S PROVE f[s] \in Int
  <2>. HIDE DEF Typed
  <2>1. Nat \subseteq Typed  BY <1>3, <1>4, SetInduction
  <2>2. Cardinality(s) \in Typed  BY <2>1, Smaller
  <2>. QED BY <2>2 DEF Typed
<1>6. f \in [SUBSET S -> Int]
  <2>1. f = [s \in SUBSET S |-> f[s]]  BY DEF Totals
  <2>. QED BY <2>1, <1>5
<1>7. 0 \in Done
  <2>. SUFFICES ASSUME NEW s \in SUBSET S, Cardinality(s) = 0 PROVE Lawful(s)  OBVIOUS
  <2>1. s = {}  BY Smaller
  <2>. QED BY <2>1
<1>8. ASSUME NEW n \in Nat, n \in Done PROVE n + 1 \in Done
  <2>. SUFFICES ASSUME NEW s \in SUBSET S, Cardinality(s) = n + 1, NEW x \in s
                PROVE  f[s] = w[x] + f[s \ {x}]  OBVIOUS
  <2>. DEFINE p == AnyOf(s)
  <2>1. p \in s  BY Smaller
  <2>2. f[s] = w[p] + f[s \ {p}]  BY <1>2
  <2>3. CASE x = p  BY <2>2, <2>3
  <2>4. CASE x # p
    <3>. HIDE DEF p
    <3>1. s \ {p} \in SUBSET S /\ Cardinality(s \ {p}) = n  BY <2>1, Smaller
    <3>2. s \ {x} \in SUBSET S /\ Cardinality(s \ {x}) = n  BY Smaller
    <3>3. f[s \ {p}] = w[x] + f[(s \ {p}) \ {x}]
      <4>1. x \in s \ {p}  BY <2>4
      <4>. QED BY <4>1, <3>1, <1>8
    <3>4. f[s \ {x}] = w[p] + f[(s \ {x}) \ {p}]
      <4>1. p \in s \ {x}  BY <2>4, <2>1
      <4>. QED BY <4>1, <3>2, <1>8
    <3>. DEFINE q == (s \ {p}) \ {x}
    <3>5. (s \ {x}) \ {p} = q /\ q \in SUBSET S  OBVIOUS
    <3>6. w[x] \in Int /\ w[p] \in Int /\ f[q] \in Int  BY <2>1, <3>5, <1>5
    <3>7. f[s \ {p}] = w[x] + f[q] /\ f[s \ {x}] = w[p] + f[q]  BY <3>3, <3>4, <3>5
    <3>. HIDE DEF q
    <3>. QED BY <2>2, <3>6, <3>7
  <2>. QED BY <2>3, <2>4
<1>9. ASSUME NEW s \in SUBSET S PROVE Lawful(s)
  <2>. HIDE DEF Done, Lawful
  <2>1. Nat \subseteq Done  BY <1>7, <1>8, SetInduction
  <2>2. Cardinality(s) \in Done  BY <2>1, Smaller
  <2>. QED BY <2>2 DEF Done
<1>. QED BY <1>1, <1>6, <1>9 DEF Sums

\* Two totals agree where the weights do.
LEMMA TotalsAgree ==
  ASSUME NEW S, IsFiniteSet(S), NEW w \in [S -> Int], NEW f, Totals(S, w, f),
         NEW T, IsFiniteSet(T), NEW v \in [T -> Int], NEW g, Totals(T, v, g),
         NEW U, U \subseteq S, U \subseteq T, \A x \in U : w[x] = v[x]
  PROVE  f[U] = g[U]
<1>. DEFINE Done == {n \in Nat : \A s \in SUBSET U : Cardinality(s) = n => f[s] = g[s]}
<1>0. IsFiniteSet(U)  BY FS_Subset
<1>10. Sums(S, w, f) /\ Sums(T, v, g)  BY TotalsLaw
<1>11. f[{}] = 0 /\ g[{}] = 0  BY <1>10 DEF Sums
<1>12. \A s \in SUBSET U : \A x \in s : /\ s \ {x} \in SUBSET U
                                        /\ Cardinality(s \ {x}) = Cardinality(s) - 1
  BY <1>0, Smaller
<1>2. 0 \in Done
  <2>. SUFFICES ASSUME NEW s \in SUBSET U, Cardinality(s) = 0 PROVE f[s] = g[s]  OBVIOUS
  <2>1. s = {}  BY <1>0, Smaller
  <2>. QED BY <2>1, <1>10, <1>11
<1>3. ASSUME NEW n \in Nat, n \in Done PROVE n + 1 \in Done
  <2>. SUFFICES ASSUME NEW s \in SUBSET U, Cardinality(s) = n + 1 PROVE f[s] = g[s]  OBVIOUS
  <2>1. PICK x \in s : TRUE
    <3>1. s # {}  BY <1>0, Smaller
    <3>. QED BY <3>1
  <2>2. s \ {x} \in SUBSET U /\ Cardinality(s \ {x}) = n  BY <1>12
  <2>3. f[s \ {x}] = g[s \ {x}]  BY <2>2, <1>3
  <2>4. f[s] = w[x] + f[s \ {x}] BY <1>10 DEF Sums
  <2>5. g[s] = v[x] + g[s \ {x}] BY <1>10 DEF Sums
  <2>6. w[x] = v[x]  OBVIOUS
  <2>. QED BY <2>3, <2>4, <2>5, <2>6
<1>. HIDE DEF Done
<1>4. Nat \subseteq Done  BY <1>2, <1>3, SetInduction
<1>5. Cardinality(U) \in Done  BY <1>4, <1>0, FS_CardinalityType
<1>. QED BY <1>5 DEF Done

\* With one more element comes its weight.
LEMMA TotalGrows ==
  ASSUME NEW S, IsFiniteSet(S), NEW v \in [S -> Int], NEW f, Totals(S, v, f),
         NEW x, x \notin S, NEW T, T = S \cup {x}, NEW w \in [T -> Int], NEW g, Totals(T, w, g),
         \A y \in S : w[y] = v[y]
  PROVE  f[S] \in Int /\ g[T] = w[x] + f[S]
<1>1. IsFiniteSet(T) /\ S \subseteq T /\ T \in SUBSET T /\ x \in T /\ T \ {x} = S
  BY FS_AddElement
<1>2. Sums(S, v, f) /\ Sums(T, w, g)  BY <1>1, TotalsLaw
<1>3. g[T] = w[x] + g[S]
  <2>1. g[T] = w[x] + g[T \ {x}]  BY <1>1, <1>2 DEF Sums
  <2>. QED BY <2>1, <1>1
<1>4. g[S] = f[S]  BY <1>1, TotalsAgree
<1>5. f[S] \in Int  BY <1>2 DEF Sums
<1>. QED BY <1>3, <1>4, <1>5

(***************************************************************************)
(* The sums of the model.                                                  *)
(***************************************************************************)
Deltas(S) == [e \in S |-> e.delta]
Balance(S) == FoldSet(LAMBDA e, n : e.delta + n, 0, S)

Quantities(S) == [a \in S |-> a.env.arg.quantity]
Brought(S) == FoldSet(LAMBDA a, n : a.env.arg.quantity + n, 0, S)

Total(m, S) == MapThenSumSet(LAMBDA t : Needs[m][t], S)

LEMMA BalanceIsTotal ==
  ASSUME NEW S, IsFiniteSet(S), \A e \in S : e.delta \in Int
  PROVE  \E f : Totals(S, Deltas(S), f) /\ Balance(S) = f[S]
<1>. DEFINE Fold(g) == [s \in SUBSET S |->
                          IF s = {} THEN 0
                          ELSE (CHOOSE x \in s : TRUE).delta + g[s \ {CHOOSE x \in s : TRUE}]]
            F == CHOOSE f : f = Fold(f)
<1>1. Deltas(S) \in [S -> Int]  BY DEF Deltas
<1>2. PICK f : Totals(S, Deltas(S), f)  BY <1>1, TotalsExist
<1>3. ASSUME NEW g PROVE Totals(S, Deltas(S), g) <=> g = Fold(g)
  <2>1. ASSUME NEW s \in SUBSET S, s # {} PROVE Deltas(S)[AnyOf(s)] = AnyOf(s).delta
    BY <2>1 DEF Deltas, AnyOf
  <2>. DEFINE a == [s \in SUBSET S |-> IF s = {} THEN 0 ELSE Deltas(S)[AnyOf(s)] + g[s \ {AnyOf(s)}]]
              b == [s \in SUBSET S |-> IF s = {} THEN 0 ELSE AnyOf(s).delta + g[s \ {AnyOf(s)}]]
  <2>2. a = b  BY <2>1
  <2>. QED BY <2>2 DEF Totals, AnyOf
<1>4. Totals(S, Deltas(S), F)
  <2>1. f = Fold(f)  BY <1>2, <1>3
  <2>. HIDE DEF Fold
  <2>2. F = Fold(F)  BY <2>1
  <2>. QED BY <2>2, <1>3
<1>5. Balance(S) = F[S]  BY DEF Balance, FoldSet, MapThenFoldSet
<1>. QED BY <1>4, <1>5

LEMMA BroughtIsTotal ==
  ASSUME NEW S, IsFiniteSet(S), \A a \in S : a.env.arg.quantity \in Int
  PROVE  \E f : Totals(S, Quantities(S), f) /\ Brought(S) = f[S]
<1>. DEFINE Fold(g) == [s \in SUBSET S |->
                          IF s = {} THEN 0
                          ELSE (CHOOSE x \in s : TRUE).env.arg.quantity
                               + g[s \ {CHOOSE x \in s : TRUE}]]
            F == CHOOSE f : f = Fold(f)
<1>1. Quantities(S) \in [S -> Int]  BY DEF Quantities
<1>2. PICK f : Totals(S, Quantities(S), f)  BY <1>1, TotalsExist
<1>3. ASSUME NEW g PROVE Totals(S, Quantities(S), g) <=> g = Fold(g)
  <2>1. ASSUME NEW s \in SUBSET S, s # {}
        PROVE  Quantities(S)[AnyOf(s)] = AnyOf(s).env.arg.quantity
    BY <2>1 DEF Quantities, AnyOf
  <2>. DEFINE a == [s \in SUBSET S |-> IF s = {} THEN 0
                                      ELSE Quantities(S)[AnyOf(s)] + g[s \ {AnyOf(s)}]]
              b == [s \in SUBSET S |-> IF s = {} THEN 0
                                      ELSE AnyOf(s).env.arg.quantity + g[s \ {AnyOf(s)}]]
  <2>2. a = b  BY <2>1
  <2>. QED BY <2>2 DEF Totals, AnyOf
<1>4. Totals(S, Quantities(S), F)
  <2>1. f = Fold(f)  BY <1>2, <1>3
  <2>. HIDE DEF Fold
  <2>2. F = Fold(F)  BY <2>1
  <2>. QED BY <2>2, <1>3
<1>5. Brought(S) = F[S]  BY DEF Brought, FoldSet, MapThenFoldSet
<1>. QED BY <1>4, <1>5

LEMMA TotalIsTotal ==
  ASSUME NEW m \in Material, NEW S, S \subseteq Task
  PROVE  \E f : Totals(S, [t \in S |-> Needs[m][t]], f) /\ Total(m, S) = f[S]
<1>. DEFINE Fold(g) == [s \in SUBSET S |->
                          IF s = {} THEN 0
                          ELSE Needs[m][CHOOSE x \in s : TRUE] + g[s \ {CHOOSE x \in s : TRUE}]]
            F == CHOOSE f : f = Fold(f)
            w == [t \in S |-> Needs[m][t]]
<1>0. IsFiniteSet(S)  BY RecordsAssumption, FS_Subset
<1>1. w \in [S -> Int]  BY SiteUpdateAssumption
<1>2. PICK f : Totals(S, w, f)
  <2>. HIDE DEF w
  <2>. QED BY <1>0, <1>1, TotalsExist
<1>3. ASSUME NEW g PROVE Totals(S, w, g) <=> g = Fold(g)
  <2>1. ASSUME NEW s \in SUBSET S, s # {} PROVE w[AnyOf(s)] = Needs[m][AnyOf(s)]
    BY <2>1 DEF AnyOf
  <2>. DEFINE a == [s \in SUBSET S |-> IF s = {} THEN 0 ELSE w[AnyOf(s)] + g[s \ {AnyOf(s)}]]
              b == [s \in SUBSET S |-> IF s = {} THEN 0 ELSE Needs[m][AnyOf(s)] + g[s \ {AnyOf(s)}]]
  <2>2. a = b
    <3>. HIDE DEF w
    <3>. QED BY <2>1
  <2>. QED BY <2>2 DEF Totals, AnyOf
<1>4. Totals(S, w, F)
  <2>1. f = Fold(f)  BY <1>2, <1>3
  <2>. HIDE DEF Fold
  <2>2. F = Fold(F)  BY <2>1
  <2>. QED BY <2>2, <1>3
<1>5. Total(m, S) = F[S]  BY DEF Total, MapThenSumSet, MapThenFoldSet
<1>. QED BY <1>4, <1>5

\* The balance of entries: what one entry more makes of it.
LEMMA BalanceGrows ==
  ASSUME NEW S, IsFiniteSet(S), \A e \in S : e.delta \in Int, NEW x, x \notin S, x.delta \in Int
  PROVE  Balance(S) \in Int /\ Balance(S \cup {x}) = x.delta + Balance(S)
<1>1. PICK f : Totals(S, Deltas(S), f) /\ Balance(S) = f[S]  BY BalanceIsTotal
<1>. DEFINE T == S \cup {x}
<1>2. IsFiniteSet(T) /\ \A e \in T : e.delta \in Int  BY FS_AddElement
<1>3. PICK g : Totals(T, Deltas(T), g) /\ Balance(T) = g[T]
  <2>. HIDE DEF T
  <2>. QED BY <1>2, BalanceIsTotal
<1>4. /\ Deltas(S) \in [S -> Int] /\ Deltas(T) \in [T -> Int]
      /\ \A y \in S : Deltas(T)[y] = Deltas(S)[y]
      /\ Deltas(T)[x] = x.delta
  BY DEF Deltas
<1>5. f[S] \in Int /\ g[T] = Deltas(T)[x] + f[S]
  <2>. DEFINE v == Deltas(S)
              w == Deltas(T)
  <2>1. v \in [S -> Int] /\ w \in [T -> Int]  BY <1>4
  <2>2. Totals(S, v, f) /\ Totals(T, w, g)  BY <1>1, <1>3
  <2>3. \A y \in S : w[y] = v[y]  BY <1>4
  <2>4. T = S \cup {x}  OBVIOUS
  <2>. HIDE DEF v, w, T
  <2>5. f[S] \in Int /\ g[T] = w[x] + f[S]  BY <2>1, <2>2, <2>3, <2>4, TotalGrows
  <2>. QED BY <2>5 DEF w
<1>. QED BY <1>1, <1>3, <1>4, <1>5

LEMMA BroughtGrows ==
  ASSUME NEW S, IsFiniteSet(S), \A a \in S : a.env.arg.quantity \in Int,
         NEW x, x \notin S, x.env.arg.quantity \in Int
  PROVE  Brought(S) \in Int /\ Brought(S \cup {x}) = x.env.arg.quantity + Brought(S)
<1>1. PICK f : Totals(S, Quantities(S), f) /\ Brought(S) = f[S]  BY BroughtIsTotal
<1>. DEFINE T == S \cup {x}
<1>2. IsFiniteSet(T) /\ \A a \in T : a.env.arg.quantity \in Int  BY FS_AddElement
<1>3. PICK g : Totals(T, Quantities(T), g) /\ Brought(T) = g[T]
  <2>. HIDE DEF T
  <2>. QED BY <1>2, BroughtIsTotal
<1>4. /\ Quantities(S) \in [S -> Int] /\ Quantities(T) \in [T -> Int]
      /\ \A y \in S : Quantities(T)[y] = Quantities(S)[y]
      /\ Quantities(T)[x] = x.env.arg.quantity
  BY DEF Quantities
<1>5. f[S] \in Int /\ g[T] = Quantities(T)[x] + f[S]
  <2>. DEFINE v == Quantities(S)
              w == Quantities(T)
  <2>1. v \in [S -> Int] /\ w \in [T -> Int]  BY <1>4
  <2>2. Totals(S, v, f) /\ Totals(T, w, g)  BY <1>1, <1>3
  <2>3. \A y \in S : w[y] = v[y]  BY <1>4
  <2>4. T = S \cup {x}  OBVIOUS
  <2>. HIDE DEF v, w, T
  <2>5. f[S] \in Int /\ g[T] = w[x] + f[S]  BY <2>1, <2>2, <2>3, <2>4, TotalGrows
  <2>. QED BY <2>5 DEF w
<1>. QED BY <1>1, <1>3, <1>4, <1>5

LEMMA NothingSumsToZero == Balance({}) = 0 /\ Brought({}) = 0
<1>1. IsFiniteSet({})  BY FS_EmptySet
<1>2. PICK f : Totals({}, Deltas({}), f) /\ Balance({}) = f[{}]
  BY <1>1, BalanceIsTotal
<1>3. PICK g : Totals({}, Quantities({}), g) /\ Brought({}) = g[{}]
  BY <1>1, BroughtIsTotal
<1>. QED BY <1>2, <1>3 DEF Totals

LEMMA TotalType ==
  ASSUME NEW m \in Material, NEW S, S \subseteq Task
  PROVE  Total(m, S) \in Int
<1>. DEFINE w == [t \in S |-> Needs[m][t]]
<1>0. IsFiniteSet(S)  BY RecordsAssumption, FS_Subset
<1>1. w \in [S -> Int]  BY SiteUpdateAssumption
<1>2. PICK f : Totals(S, w, f) /\ Total(m, S) = f[S]  BY TotalIsTotal
<1>3. Sums(S, w, f)
  <2>. HIDE DEF w
  <2>. QED BY <1>0, <1>1, <1>2, TotalsLaw
<1>. QED BY <1>2, <1>3 DEF Sums

-----------------------------------------------------------------------------
(***************************************************************************)
(* Lists.                                                                  *)
(***************************************************************************)
LEMMA ListOf ==
  ASSUME NEW S, NEW s
  PROVE  s \in Seq(S) <=> IsList(s) /\ ToSet(s) \subseteq S
<1>1. ASSUME s \in Seq(S) PROVE IsList(s) /\ ToSet(s) \subseteq S
  <2>1. s = [i \in 1..Len(s) |-> s[i]] /\ Len(s) \in Nat /\ DOMAIN s = 1..Len(s)  BY <1>1
  <2>2. \A i \in 1..Len(s) : s[i] \in S /\ s[i] \in ToSet(s)  BY <1>1, <2>1 DEF ToSet
  <2>3. s \in [1..Len(s) -> ToSet(s)]  BY <2>1, <2>2
  <2>4. s \in Seq(ToSet(s))  BY <2>1, <2>3
  <2>. QED BY <2>1, <2>2, <2>4 DEF IsList, ToSet
<1>2. ASSUME IsList(s), ToSet(s) \subseteq S PROVE s \in Seq(S)
  <2>1. s \in Seq(ToSet(s))  BY <1>2 DEF IsList
  <2>2. Len(s) \in Nat /\ s \in [1..Len(s) -> ToSet(s)]  BY <2>1
  <2>3. s \in [1..Len(s) -> S]  BY <1>2, <2>2
  <2>. QED BY <2>2, <2>3
<1>. QED BY <1>1, <1>2

\* What a list is made of.
LEMMA ListShape ==
  ASSUME NEW s, IsList(s)
  PROVE  /\ Len(s) \in Nat /\ DOMAIN s = 1..Len(s)
         /\ s = [i \in 1..Len(s) |-> s[i]]
         /\ \A i \in 1..Len(s) : s[i] \in ToSet(s)
         /\ \A x \in ToSet(s) : \E i \in 1..Len(s) : x = s[i]
<1>1. s \in Seq(ToSet(s))  BY DEF IsList
<1>2. Len(s) \in Nat /\ DOMAIN s = 1..Len(s) /\ s = [i \in 1..Len(s) |-> s[i]]  BY <1>1
<1>. QED BY <1>2 DEF ToSet

\* A function on an initial segment of the numbers is a list.
LEMMA FunctionIsList ==
  ASSUME NEW N \in Nat, NEW s, DOMAIN s = 1..N, s = [i \in 1..N |-> s[i]]
  PROVE  IsList(s)
<1>1. s \in [1..N -> ToSet(s)]  BY DEF ToSet
<1>. QED BY <1>1 DEF IsList

LEMMA ConcatList ==
  ASSUME NEW s, NEW t, IsList(s), IsList(t)
  PROVE  IsList(s \o t) /\ ToSet(s \o t) \subseteq ToSet(s) \cup ToSet(t)
<1>. DEFINE S == ToSet(s) \cup ToSet(t)
<1>1. s \in Seq(S) /\ t \in Seq(S)  BY ListOf
<1>. HIDE DEF S
<1>2. s \o t \in Seq(S)  BY <1>1
<1>. QED BY <1>2, ListOf DEF S

LEMMA SingleList ==
  ASSUME NEW x
  PROVE  IsList(<<x>>) /\ ToSet(<<x>>) = {x} /\ IsList(<<>>) /\ ToSet(<<>>) = {}
<1>1. IsList(<<x>>) /\ ToSet(<<x>>) \subseteq {x}
  <2>1. <<x>> \in Seq({x})  OBVIOUS
  <2>. QED BY <2>1, ListOf
<1>3. IsList(<<>>) /\ ToSet(<<>>) \subseteq {}
  <2>1. DOMAIN <<>> = {}  OBVIOUS
  <2>2. ToSet(<<>>) = {}  BY <2>1 DEF ToSet
  <2>3. <<>> \in Seq({})  OBVIOUS
  <2>. QED BY <2>2, <2>3 DEF IsList
<1>2. x \in ToSet(<<x>>)
  <2>1. DOMAIN <<x>> = 1..1 /\ <<x>>[1] = x  OBVIOUS
  <2>. QED BY <2>1 DEF ToSet
<1>. QED BY <1>1, <1>2, <1>3

LEMMA TailList ==
  ASSUME NEW s, IsList(s), s # <<>>
  PROVE  IsList(Tail(s)) /\ ToSet(Tail(s)) \subseteq ToSet(s) /\ Head(s) \in ToSet(s)
<1>1. s \in Seq(ToSet(s))  BY DEF IsList
<1>2. Tail(s) \in Seq(ToSet(s)) /\ Head(s) \in ToSet(s)  BY <1>1
<1>. QED BY <1>2, ListOf

\* A flattened list has the elements of its parts and no others.
LEMMA FlattenLists ==
  ASSUME NEW ss, IsList(ss), \A i \in 1..Len(ss) : IsList(ss[i])
  PROVE  /\ IsList(FlattenSeq(ss))
         /\ \A x \in ToSet(FlattenSeq(ss)) : \E i \in 1..Len(ss) : x \in ToSet(ss[i])
<1>. DEFINE S == UNION {ToSet(ss[i]) : i \in 1..Len(ss)}
<1>1. \A i \in 1..Len(ss) : ss[i] \in Seq(S)
  <2>. TAKE i \in 1..Len(ss)
  <2>1. ToSet(ss[i]) \subseteq S  OBVIOUS
  <2>. HIDE DEF S
  <2>. QED BY <2>1, ListOf
<1>. HIDE DEF S
<1>2. ss \in Seq(Seq(S))
  <2>1. ToSet(ss) \subseteq Seq(S)  BY <1>1, ListShape
  <2>. QED BY <2>1, ListOf
<1>3. FlattenSeq(ss) \in Seq(S)  BY <1>2, FlattenSeqType
<1>4. IsList(FlattenSeq(ss)) /\ ToSet(FlattenSeq(ss)) \subseteq S  BY <1>3, ListOf
<1>. QED BY <1>4 DEF S

\* Stops, Actionable, Resolved and First choose some elements of a list.
LEMMA StopsList ==
  ASSUME NEW facts, IsList(facts.safety)
  PROVE  IsList(Stops(facts))
<1>. DEFINE s == facts.safety
            ss == [i \in DOMAIN s |-> IF s[i] \in {"high", "critical"} THEN <<s[i]>> ELSE <<>>]
<1>1. Len(s) \in Nat /\ DOMAIN s = 1..Len(s)  BY ListShape
<1>2. IsList(ss) /\ Len(ss) = Len(s)
  <2>1. DOMAIN ss = 1..Len(s) /\ ss = [i \in 1..Len(s) |-> ss[i]]  BY <1>1
  <2>. HIDE DEF ss
  <2>2. IsList(ss)  BY <2>1, <1>1, FunctionIsList
  <2>. QED BY <2>1, <2>2, <1>1, ListShape
<1>3. ASSUME NEW i \in 1..Len(ss) PROVE IsList(ss[i])
  BY <1>1, <1>2, SingleList
<1>4. Stops(facts) = FlattenSeq(ss)  BY DEF Stops, Kept
<1>. HIDE DEF ss
<1>. QED BY <1>2, <1>3, <1>4, FlattenLists

LEMMA ActionableList ==
  ASSUME NEW s, IsList(s)
  PROVE  IsList(Actionable(s)) /\ ToSet(Actionable(s)) \subseteq ToSet(s)
<1>. DEFINE ss == [i \in DOMAIN s |-> IF s[i].sure THEN <<s[i]>> ELSE <<>>]
<1>1. Len(s) \in Nat /\ DOMAIN s = 1..Len(s) /\ \A i \in 1..Len(s) : s[i] \in ToSet(s)
  BY ListShape
<1>2. IsList(ss) /\ Len(ss) = Len(s)
  <2>1. DOMAIN ss = 1..Len(s) /\ ss = [i \in 1..Len(s) |-> ss[i]]  BY <1>1
  <2>. HIDE DEF ss
  <2>2. IsList(ss)  BY <2>1, <1>1, FunctionIsList
  <2>. QED BY <2>1, <2>2, <1>1, ListShape
<1>3. ASSUME NEW i \in 1..Len(ss) PROVE IsList(ss[i]) /\ ToSet(ss[i]) \subseteq ToSet(s)
  BY <1>1, <1>2, SingleList
<1>4. Actionable(s) = FlattenSeq(ss)  BY DEF Actionable, Kept
<1>. HIDE DEF ss
<1>. QED BY <1>2, <1>3, <1>4, FlattenLists

LEMMA ResolvedList ==
  ASSUME NEW s, IsList(s), NEW seen
  PROVE  /\ IsList(Resolved(s, seen))
         /\ \A f \in ToSet(Resolved(s, seen)) : f \in ToSet(s) /\ f.task \in Visible(seen)
<1>. DEFINE ss == [i \in DOMAIN s |-> IF s[i].sure /\ s[i].task \in Visible(seen) THEN <<s[i]>> ELSE <<>>]
<1>1. Len(s) \in Nat /\ DOMAIN s = 1..Len(s) /\ \A i \in 1..Len(s) : s[i] \in ToSet(s)
  BY ListShape
<1>2. IsList(ss) /\ Len(ss) = Len(s)
  <2>1. DOMAIN ss = 1..Len(s) /\ ss = [i \in 1..Len(s) |-> ss[i]]  BY <1>1
  <2>. HIDE DEF ss
  <2>2. IsList(ss)  BY <2>1, <1>1, FunctionIsList
  <2>. QED BY <2>1, <2>2, <1>1, ListShape
<1>3. ASSUME NEW i \in 1..Len(ss)
      PROVE  IsList(ss[i]) /\ \A f \in ToSet(ss[i]) : f \in ToSet(s) /\ f.task \in Visible(seen)
  BY <1>1, <1>2, SingleList
<1>4. Resolved(s, seen) = FlattenSeq(ss)  BY DEF Resolved, Kept
<1>. HIDE DEF ss
<1>. QED BY <1>2, <1>3, <1>4, FlattenLists

LEMMA FirstList ==
  ASSUME NEW s, IsList(s)
  PROVE  IsList(First(s)) /\ ToSet(First(s)) \subseteq ToSet(s)
<1>. DEFINE ss == [i \in DOMAIN s |-> IF \E j \in 1..i - 1 : s[j].task = s[i].task
                                     THEN <<>> ELSE <<s[i]>>]
<1>1. Len(s) \in Nat /\ DOMAIN s = 1..Len(s) /\ \A i \in 1..Len(s) : s[i] \in ToSet(s)
  BY ListShape
<1>2. IsList(ss) /\ Len(ss) = Len(s)
  <2>1. DOMAIN ss = 1..Len(s) /\ ss = [i \in 1..Len(s) |-> ss[i]]  BY <1>1
  <2>. HIDE DEF ss
  <2>2. IsList(ss)  BY <2>1, <1>1, FunctionIsList
  <2>. QED BY <2>1, <2>2, <1>1, ListShape
<1>3. ASSUME NEW i \in 1..Len(ss) PROVE IsList(ss[i]) /\ ToSet(ss[i]) \subseteq ToSet(s)
  BY <1>1, <1>2, SingleList
<1>4. First(s) = FlattenSeq(ss)  BY DEF First
<1>. HIDE DEF ss
<1>. QED BY <1>2, <1>3, <1>4, FlattenLists

\* What waits for one of S and is not over.
WaitsFor(S, seen) ==
  {d \in Visible(seen) : seen.task[d].status \notin Terminal /\ Depends[d] \cap S # {}}

\* Downstream goes from task to task.
LEMMA DownstreamSteps ==
  ASSUME NEW t \in Task, NEW seen
  PROVE  \E F : /\ \A n \in 0..Cardinality(Task) :
                      F[n] = IF n = 0 THEN {t} ELSE F[n - 1] \cup WaitsFor(F[n - 1], seen)
                /\ Downstream(t, seen) = F[Cardinality(Task)] \ {t}
<1>. DEFINE N == Cardinality(Task)
            Waiting(S) == {d \in Visible(seen) : seen.task[d].status \notin Terminal
                                                /\ Depends[d] \cap S # {}}
            Body(f, n) == IF n = 0 THEN {t} ELSE f[n - 1] \cup Waiting(f[n - 1])
            Upto(n) == \E f : DOMAIN f = 0..n /\ \A i \in 0..n : f[i] = Body(f, i)
            Done == {n \in Nat : Upto(n)}
<1>0. N \in Nat  BY RecordsAssumption, FS_CardinalityType
<1>1. Upto(0)
  <2>. DEFINE f == [i \in 0..0 |-> {t}]
  <2>1. DOMAIN f = 0..0 /\ f[0] = {t} /\ \A i \in 0..0 : i = 0  OBVIOUS
  <2>. HIDE DEF f, Waiting
  <2>2. \A i \in 0..0 : f[i] = Body(f, i)  BY <2>1
  <2>. QED BY <2>1, <2>2
<1>2. ASSUME NEW n \in Nat, Upto(n) PROVE Upto(n + 1)
  <2>1. PICK f : DOMAIN f = 0..n /\ \A i \in 0..n : f[i] = Body(f, i)  BY <1>2
  <2>. DEFINE g == [i \in 0..(n + 1) |-> IF i <= n THEN f[i] ELSE f[n] \cup Waiting(f[n])]
  <2>2. ASSUME NEW i \in 0..(n + 1) PROVE g[i] = Body(g, i)
    <3>. HIDE DEF Waiting
    <3>1. CASE i = 0
      <4>1. f[0] = Body(f, 0) /\ g[0] = f[0]  BY <2>1
      <4>. QED BY <4>1, <3>1
    <3>2. CASE i # 0 /\ i <= n
      <4>1. i - 1 \in 0..(n + 1) /\ i - 1 <= n /\ i \in 0..n  BY <3>2
      <4>2. g[i - 1] = f[i - 1] /\ g[i] = f[i]  BY <4>1, <3>2
      <4>3. f[i] = Body(f, i)  BY <4>1, <2>1
      <4>. QED BY <4>2, <4>3, <3>2
    <3>3. CASE i = n + 1
      <4>1. i - 1 = n /\ i - 1 \in 0..(n + 1) /\ ~(i <= n) /\ i # 0  BY <3>3
      <4>2. g[i - 1] = f[n] /\ g[i] = f[n] \cup Waiting(f[n])  BY <4>1
      <4>. QED BY <4>1, <4>2
    <3>. QED BY <3>1, <3>2, <3>3
  <2>3. DOMAIN g = 0..(n + 1)  OBVIOUS
  <2>. HIDE DEF g, Body
  <2>. QED BY <2>2, <2>3
<1>3. Upto(N)
  <2>. HIDE DEF Upto
  <2>1. 0 \in Done  BY <1>1
  <2>2. \A n \in Nat : n \in Done => n + 1 \in Done  BY <1>2
  <2>3. Nat \subseteq Done
    <3>. HIDE DEF Done
    <3>. QED BY <2>1, <2>2, SetInduction
  <2>. QED BY <2>3, <1>0
<1>. DEFINE F == CHOOSE f : f = [n \in 0..N |-> Body(f, n)]
<1>4. F = [n \in 0..N |-> Body(F, n)]
  <2>1. PICK f : DOMAIN f = 0..N /\ \A i \in 0..N : f[i] = Body(f, i)  BY <1>3
  <2>. DEFINE h == [i \in 0..N |-> f[i]]
  <2>2. ASSUME NEW i \in 0..N PROVE h[i] = Body(h, i)
    <3>. HIDE DEF Waiting
    <3>1. f[i] = Body(f, i)  BY <2>1
    <3>2. i # 0 => i - 1 \in 0..N  BY <1>0
    <3>. QED BY <3>1, <3>2
  <2>3. h = [i \in 0..N |-> Body(h, i)]
    <3>. HIDE DEF Body
    <3>. QED BY <2>2
  <2>. HIDE DEF h, Body
  <2>. QED BY <2>3
<1>5. \A n \in 0..N : F[n] = IF n = 0 THEN {t} ELSE F[n - 1] \cup Waiting(F[n - 1])
  <2>. HIDE DEF F, Waiting
  <2>. QED BY <1>4
<1>6. \A S : Waiting(S) = WaitsFor(S, seen)  BY DEF WaitsFor
<1>7. Downstream(t, seen) = F[N] \ {t}  BY DEF Downstream, F
<1>. HIDE DEF F, Waiting, N
<1>. QED BY <1>5, <1>6, <1>7 DEF N

LEMMA DownstreamIsTasks ==
  ASSUME NEW t \in Task, NEW seen
  PROVE  Downstream(t, seen) \subseteq Task
<1>. DEFINE N == Cardinality(Task)
<1>0. N \in Nat  BY RecordsAssumption, FS_CardinalityType
<1>1. PICK F : /\ \A n \in 0..N : F[n] = IF n = 0 THEN {t} ELSE F[n - 1] \cup WaitsFor(F[n - 1], seen)
               /\ Downstream(t, seen) = F[N] \ {t}
  BY DownstreamSteps
<1>. DEFINE In == {n \in Nat : n <= N => F[n] \subseteq Task}
<1>2. 0 \in In
  <2>1. 0 \in 0..N  BY <1>0
  <2>2. F[0] = {t}  BY <1>1, <2>1
  <2>. QED BY <2>2
<1>3. ASSUME NEW n \in Nat, n \in In PROVE n + 1 \in In
  <2>. SUFFICES ASSUME n + 1 <= N PROVE F[n + 1] \subseteq Task  OBVIOUS
  <2>1. n + 1 \in 0..N /\ n + 1 # 0 /\ (n + 1) - 1 = n /\ n <= N  BY <1>0
  <2>2. F[n + 1] = F[n] \cup WaitsFor(F[n], seen)  BY <1>1, <2>1
  <2>3. WaitsFor(F[n], seen) \subseteq Task  BY DEF WaitsFor, Visible
  <2>4. F[n] \subseteq Task  BY <1>3, <2>1
  <2>. QED BY <2>2, <2>3, <2>4
<1>4. N \in In
  <2>. HIDE DEF In, N
  <2>1. Nat \subseteq In  BY <1>2, <1>3, SetInduction
  <2>. QED BY <2>1, <1>0
<1>. QED BY <1>0, <1>1, <1>4

LEMMA RequiredType ==
  ASSUME NEW m \in Material, NEW focus, focus \subseteq Task, NEW minimum \in Nat
  PROVE  Required(m, focus, minimum) \in Int
<1>1. Required(m, focus, minimum) \in {Total(m, focus), 0, minimum}
  BY DEF Required, Total
<1>. QED BY <1>1, TotalType

-----------------------------------------------------------------------------
(***************************************************************************)
(* The shape of the records and of what is sent to change them.            *)
(***************************************************************************)
TaskRecord == [status : Statuses, percent : 0..Whole, start : {Never} \cup Nat,
               end : {Never} \cup Nat, version : Nat]
StockRecord == [available : Int, minimum : Nat, version : {Never} \cup Nat]

Original == {r.key : r \in Setup.request}

IsCommand(c) ==
  /\ c = [key |-> c.key, env |-> c.env, expected |-> c.expected, at |-> c.at, quantity |-> c.quantity]
  /\ c.env = [op |-> c.env.op, id |-> c.env.id, arg |-> c.env.arg]
  /\ c.at \in Nat

\* A command that people may send or an attempt sends.
Fits(c) ==
  /\ IsCommand(c)
  /\ \/ IsRequest(c) /\ (c.env.op = "purchase" => c.key \notin Original)
     \/ /\ c.env.op = "complete" /\ c.env.id \in Task
        /\ c.env.arg.target = None /\ c.env.arg.percent = Whole
        /\ c.env.arg.human = FALSE /\ c.env.arg.reconciled = TRUE
     \/ c.env.op = "issue" /\ c.env.arg.tasks \subseteq Task
     \/ c.env.op = "follow_up" /\ c.env.id \in Task
     \/ /\ c.env.op = "shortage" /\ c.env.id \in Material /\ c.env.arg.quantity \in Nat
        /\ c.key \notin Original
     \/ c.env.op = "report"

IsContext(seen) ==
  /\ seen = [task |-> seen.task, stock |-> seen.stock]
  /\ seen.task \in [Task -> TaskRecord] /\ seen.stock \in [Material -> StockRecord]

\* Sent with the version that was read.
AsSeen(c, seen) ==
  /\ c.env.op \in {"progress", "complete"} =>
       c.env.id \in Visible(seen) /\ c.expected = seen.task[c.env.id].version
  /\ c.env.op = "adjust" => c.expected = seen.stock[c.env.id].version

IsAssessment(c) ==
  /\ c = [env |-> c.env, reported |-> c.reported, evidence |-> c.evidence, minimum |-> c.minimum]
  /\ c.env.op = "assess" /\ c.env.id \in Material /\ c.reported \in Nat /\ c.minimum \in Nat

IsStep(c, seen) ==
  \/ IsAssessment(c)
  \/ c.env.op # "assess" /\ Fits(c) /\ AsSeen(c, seen)

Planned(c, seen) == IsStep(c, seen) /\ c.env.op # "report"

LEMMA IssueFits ==
  ASSUME NEW u \in Update, NEW scope, NEW type, NEW tasks, tasks \subseteq Task, NEW evidence, NEW seen
  PROVE  Planned(IssueCommand(u, scope, type, tasks, evidence), seen)
<1>. DEFINE arg == [type |-> type, tasks |-> tasks, evidence |-> evidence]
            c == Command(u, scope, "issue", <<>>, arg, 0)
<1>1. arg.tasks \subseteq Task  OBVIOUS
<1>2. IsCommand(c) /\ c.env.op = "issue" /\ c.env.arg = arg
  <2>1. c = Command(u, scope, "issue", <<>>, arg, 0)  OBVIOUS
  <2>. HIDE DEF arg, c
  <2>. QED BY <2>1, SiteUpdateAssumption DEF Command, IsCommand
<1>3. IssueCommand(u, scope, type, tasks, evidence) = c  BY DEF IssueCommand
<1>. HIDE DEF c, arg
<1>. QED BY <1>1, <1>2, <1>3 DEF Planned, IsStep, Fits, AsSeen

LEMMA SafetyFits ==
  ASSUME NEW u \in Update, NEW facts \in Interpretations[u], NEW seen
  PROVE  /\ IsList(SafetyIssues(u, facts))
         /\ \A c \in ToSet(SafetyIssues(u, facts)) : Planned(c, seen)
<1>. DEFINE ss == [i \in DOMAIN Stops(facts) |-> IssueCommand(u, <<"safety", i>>, "safety", {}, Stops(facts)[i])]
<1>1. IsList(Stops(facts))  BY SiteUpdateAssumption, StopsList DEF IsReading
<1>2. Len(Stops(facts)) \in Nat /\ DOMAIN Stops(facts) = 1..Len(Stops(facts))  BY <1>1, ListShape
<1>3. IsList(ss) /\ DOMAIN ss = 1..Len(Stops(facts))
  <2>1. DOMAIN ss = 1..Len(Stops(facts)) /\ ss = [i \in 1..Len(Stops(facts)) |-> ss[i]]  BY <1>2
  <2>. HIDE DEF ss
  <2>. QED BY <2>1, <1>2, FunctionIsList
<1>4. ASSUME NEW i \in 1..Len(Stops(facts)) PROVE Planned(ss[i], seen)
  BY <1>2, IssueFits
<1>5. SafetyIssues(u, facts) = ss  BY DEF SafetyIssues
<1>. HIDE DEF ss
<1>. QED BY <1>3, <1>4, <1>5 DEF ToSet

LEMMA CompletionsFit ==
  ASSUME NEW u \in Update, NEW facts \in Interpretations[u], NEW seen
  PROVE  /\ IsList(Completions(u, facts, seen))
         /\ \A c \in ToSet(Completions(u, facts, seen)) : Planned(c, seen)
<1>. DEFINE q == Resolved(facts.completed, seen)
            r == First(q)
            arg(f) == [target |-> None, percent |-> Whole, human |-> FALSE, reconciled |-> TRUE,
                       evidence |-> f.evidence]
            one(f) == Command(u, <<"complete", f.task>>, "complete", f.task, arg(f),
                              seen.task[f.task].version)
            ss == [i \in DOMAIN r |-> one(r[i])]
<1>1. IsList(r) /\ \A f \in ToSet(r) : f.task \in Visible(seen)
  <2>1. IsList(q) /\ \A f \in ToSet(q) : f.task \in Visible(seen)
    BY SiteUpdateAssumption, ResolvedList DEF IsReading
  <2>. HIDE DEF q
  <2>. QED BY <2>1, FirstList
<1>2. Len(r) \in Nat /\ DOMAIN r = 1..Len(r) /\ \A i \in 1..Len(r) : r[i].task \in Visible(seen)
  <2>. HIDE DEF r
  <2>. QED BY <1>1, ListShape
<1>3. IsList(ss) /\ DOMAIN ss = 1..Len(r)
  <2>1. DOMAIN ss = 1..Len(r) /\ ss = [i \in 1..Len(r) |-> ss[i]]  BY <1>2
  <2>. HIDE DEF ss
  <2>. QED BY <2>1, <1>2, FunctionIsList
<1>4. ASSUME NEW f, f.task \in Visible(seen) PROVE Planned(one(f), seen)
  <2>. DEFINE c == one(f)
              a == arg(f)
  <2>1. a.target = None /\ a.percent = Whole /\ a.human = FALSE /\ a.reconciled = TRUE  OBVIOUS
  <2>2. /\ IsCommand(c) /\ c.env.op = "complete" /\ c.env.id = f.task /\ c.env.arg = a
        /\ c.expected = seen.task[f.task].version
    <3>1. c = Command(u, <<"complete", f.task>>, "complete", f.task, a, seen.task[f.task].version)
      OBVIOUS
    <3>. HIDE DEF a, c
    <3>. QED BY <3>1, SiteUpdateAssumption DEF Command, IsCommand
  <2>3. f.task \in Task  BY <1>4 DEF Visible
  <2>. HIDE DEF c, a
  <2>4. c.env.op # "assess" /\ Fits(c)  BY <2>1, <2>2, <2>3 DEF Fits
  <2>5. AsSeen(c, seen)  BY <2>2, <1>4 DEF AsSeen
  <2>. QED BY <2>2, <2>4, <2>5 DEF Planned, IsStep, c
<1>5. ASSUME NEW i \in 1..Len(r) PROVE Planned(ss[i], seen)
  <2>1. ss[i] = one(r[i])  BY <1>2
  <2>. HIDE DEF one, ss
  <2>. QED BY <2>1, <1>2, <1>4
<1>6. Completions(u, facts, seen) = ss  BY DEF Completions
<1>. HIDE DEF ss, r
<1>. QED BY <1>3, <1>5, <1>6 DEF ToSet

LEMMA BlockingFits ==
  ASSUME NEW u \in Update, NEW i, NEW f, NEW seen, f.task \in Visible(seen)
  PROVE  /\ IsList(Blocking(u, i, f, seen))
         /\ \A c \in ToSet(Blocking(u, i, f, seen)) : Planned(c, seen)
<1>. DEFINE t == f.task
            a == [target |-> "blocked", percent |-> NoPercent, human |-> FALSE,
                  reconciled |-> FALSE, evidence |-> f.evidence]
            b == [issue |-> <<u, "issue", i, f.type>>]
            block == Command(u, <<"blocked", t>>, "progress", t, a, seen.task[t].version)
            followup == Command(u, <<"follow_up", i, t>>, "follow_up", t, b, 0)
            risk == IssueCommand(u, <<"impact", i, t>>, "delay_risk", Downstream(t, seen), "impact")
            first == IF seen.task[t].status \in {"planned", "in_progress"} THEN <<block>> ELSE <<>>
            last == IF Downstream(t, seen) # {} THEN <<risk>> ELSE <<>>
<1>0. t \in Task  BY DEF Visible
<1>1. Planned(block, seen)
  <2>. DEFINE c == block
  <2>1. /\ a.target \in Statuses \cup {None} /\ a.percent \in {NoPercent} \cup 0..Whole
        /\ a.human \in BOOLEAN /\ a.reconciled \in BOOLEAN
    BY DEF Statuses
  <2>2. /\ IsCommand(c) /\ c.env.op = "progress" /\ c.env.id = t /\ c.env.arg = a
        /\ c.expected = seen.task[t].version
    <3>1. c = Command(u, <<"blocked", t>>, "progress", t, a, seen.task[t].version)  OBVIOUS
    <3>. HIDE DEF a, c, t
    <3>. QED BY <3>1, SiteUpdateAssumption DEF Command, IsCommand
  <2>. HIDE DEF c, a, t
  <2>3. IsRequest(c)  BY <1>0, <2>1, <2>2 DEF IsRequest, IsCommand
  <2>4. Fits(c)  BY <2>2, <2>3 DEF Fits
  <2>5. AsSeen(c, seen)  BY <2>2 DEF AsSeen, t
  <2>. QED BY <2>2, <2>4, <2>5 DEF Planned, IsStep, c
<1>2. Planned(followup, seen)
  <2>. DEFINE c == followup
  <2>1. IsCommand(c) /\ c.env.op = "follow_up" /\ c.env.id = t
    <3>1. c = Command(u, <<"follow_up", i, t>>, "follow_up", t, b, 0)  OBVIOUS
    <3>. HIDE DEF b, c, t
    <3>. QED BY <3>1, SiteUpdateAssumption DEF Command, IsCommand
  <2>. HIDE DEF c, t
  <2>. QED BY <1>0, <2>1 DEF Planned, IsStep, Fits, AsSeen, c, t
<1>3. Planned(risk, seen)
  <2>1. Downstream(t, seen) \subseteq Task  BY <1>0, DownstreamIsTasks
  <2>. QED BY <2>1, IssueFits
<1>4. Blocking(u, i, f, seen) = first \o <<followup>> \o last  BY DEF Blocking
<1>. HIDE DEF t, block, followup, risk
<1>5. IsList(first) /\ ToSet(first) \subseteq {block} /\ IsList(last) /\ ToSet(last) \subseteq {risk}
  BY SingleList
<1>6. IsList(<<followup>>) /\ ToSet(<<followup>>) = {followup}  BY SingleList
<1>. HIDE DEF first, last
<1>7. IsList(first \o <<followup>>) /\ ToSet(first \o <<followup>>) \subseteq {block, followup}
  BY <1>5, <1>6, ConcatList
<1>8. /\ IsList(first \o <<followup>> \o last)
      /\ ToSet(first \o <<followup>> \o last) \subseteq {block, followup, risk}
  BY <1>5, <1>7, ConcatList
<1>. QED BY <1>1, <1>2, <1>3, <1>4, <1>8

LEMMA IssuesFit ==
  ASSUME NEW u \in Update, NEW facts \in Interpretations[u], NEW seen
  PROVE  /\ IsList(Issues(u, facts, seen))
         /\ \A c \in ToSet(Issues(u, facts, seen)) : Planned(c, seen)
<1>. DEFINE fs == Actionable(facts.issues)
            N == Len(fs)
            raise(i) == IssueCommand(u, <<"issue", i, fs[i].type>>, fs[i].type,
                                     {fs[i].task} \ {None}, fs[i].evidence)
            part(i) ==
              IF ~({fs[i].task} \ {None} \subseteq Visible(seen)) THEN <<>>
              ELSE <<raise(i)>> \o (IF fs[i].type = "blocker" /\ {fs[i].task} \ {None} # {}
                                   THEN Blocking(u, i, fs[i], seen) ELSE <<>>)
            ss == [i \in DOMAIN fs |-> part(i)]
<1>1. N \in Nat /\ DOMAIN fs = 1..N
  <2>1. IsList(fs)  BY SiteUpdateAssumption, ActionableList DEF IsReading
  <2>. HIDE DEF fs
  <2>. QED BY <2>1, ListShape
<1>2. IsList(ss) /\ Len(ss) = N
  <2>1. DOMAIN ss = 1..N /\ ss = [i \in 1..N |-> ss[i]]  BY <1>1
  <2>. HIDE DEF ss, N
  <2>2. IsList(ss)  BY <2>1, <1>1, FunctionIsList
  <2>. QED BY <2>1, <2>2, <1>1, ListShape
<1>3. ASSUME NEW i \in 1..N
      PROVE  IsList(part(i)) /\ \A c \in ToSet(part(i)) : Planned(c, seen)
  <2>. DEFINE f == fs[i]
              tasks == {f.task} \ {None}
  <2>1. CASE ~(tasks \subseteq Visible(seen))
    <3>1. part(i) = <<>>  BY <2>1
    <3>. QED BY <3>1, SingleList
  <2>. SUFFICES ASSUME tasks \subseteq Visible(seen)
                PROVE  IsList(part(i)) /\ \A c \in ToSet(part(i)) : Planned(c, seen)
    BY <2>1
  <2>2. Planned(raise(i), seen)
    <3>1. tasks \subseteq Task  BY DEF Visible
    <3>. QED BY <3>1, IssueFits
  <2>. HIDE DEF raise
  <2>3. IsList(<<raise(i)>>) /\ ToSet(<<raise(i)>>) = {raise(i)}  BY SingleList
  <2>. DEFINE rest == IF f.type = "blocker" /\ tasks # {} THEN Blocking(u, i, f, seen) ELSE <<>>
  <2>4. part(i) = <<raise(i)>> \o rest  OBVIOUS
  <2>5. IsList(rest) /\ \A c \in ToSet(rest) : Planned(c, seen)
    <3>1. CASE f.type = "blocker" /\ tasks # {}
      <4>1. f.task \in Visible(seen)  BY <3>1
      <4>. QED BY <4>1, <3>1, BlockingFits
    <3>2. CASE ~(f.type = "blocker" /\ tasks # {})  BY <3>2, SingleList
    <3>. QED BY <3>1, <3>2
  <2>. HIDE DEF part, rest
  <2>. QED BY <2>2, <2>3, <2>4, <2>5, ConcatList
<1>4. Issues(u, facts, seen) = FlattenSeq(ss)  BY DEF Issues
<1>5. \A i \in 1..N : ss[i] = part(i)  BY <1>1
<1>. HIDE DEF ss, part, N
<1>. QED BY <1>2, <1>3, <1>4, <1>5, FlattenLists

LEMMA MaterialsFit ==
  ASSUME NEW u \in Update, NEW facts \in Interpretations[u], NEW seen, IsContext(seen)
  PROVE  /\ IsList(Materials(u, facts, seen))
         /\ \A c \in ToSet(Materials(u, facts, seen)) : Planned(c, seen)
<1>. DEFINE r == Actionable(facts.stock)
            N == Len(r)
            create(f) == [Command(u, <<"auto_create", f.material>>, "create_material", f.material, <<>>, 0)
                            EXCEPT !.quantity = f.quantity]
            arg(f) == [delta |-> f.quantity - seen.stock[f.material].available, evidence |-> f.evidence]
            adjust(f) == Command(u, <<"reported_stock", f.material>>, "adjust", f.material, arg(f),
                                 seen.stock[f.material].version)
            assess(f) == [env |-> [op |-> "assess", id |-> f.material], reported |-> f.quantity,
                          evidence |-> f.evidence, minimum |-> seen.stock[f.material].minimum]
            first(f) == IF seen.stock[f.material].version = Never THEN <<create(f)>>
                        ELSE IF f.quantity - seen.stock[f.material].available # 0 THEN <<adjust(f)>>
                        ELSE <<>>
            part(f) == first(f) \o <<assess(f)>>
            repeated(i) == seen.stock[r[i].material].version # Never
                           /\ \E j \in 1..i - 1 : r[j].material = r[i].material
            ss == [i \in DOMAIN r |-> IF repeated(i) THEN <<>> ELSE part(r[i])]
<1>1. /\ IsList(r)
      /\ \A f \in ToSet(r) : f.material \in Material /\ f.quantity \in Nat
  BY SiteUpdateAssumption, ActionableList DEF IsReading
<1>2. N \in Nat /\ DOMAIN r = 1..N /\ \A i \in 1..N : r[i] \in ToSet(r)
  <2>. HIDE DEF r
  <2>. QED BY <1>1, ListShape
<1>3. IsList(ss) /\ Len(ss) = N
  <2>1. DOMAIN ss = 1..N /\ ss = [i \in 1..N |-> ss[i]]  BY <1>2
  <2>. HIDE DEF ss, N
  <2>2. IsList(ss)  BY <2>1, <1>2, FunctionIsList
  <2>. QED BY <2>1, <2>2, <1>2, ListShape
<1>4. ASSUME NEW f, f.material \in Material, f.quantity \in Nat
      PROVE  IsList(part(f)) /\ \A c \in ToSet(part(f)) : Planned(c, seen)
  <2>. DEFINE m == f.material
  <2>1. seen.stock[m].available \in Int /\ seen.stock[m].minimum \in Nat
    BY <1>4 DEF IsContext, StockRecord
  <2>2. Planned(create(f), seen)
    <3>. DEFINE c == create(f)
                d == Command(u, <<"auto_create", m>>, "create_material", m, <<>>, 0)
    <3>1. IsCommand(d) /\ d.env.op = "create_material" /\ d.env.id = m
      BY SiteUpdateAssumption DEF Command, IsCommand
    <3>2. c = [d EXCEPT !.quantity = f.quantity]  OBVIOUS
    <3>. HIDE DEF c, d, m
    <3>3. IsCommand(c) /\ c.env = d.env /\ c.quantity = f.quantity  BY <3>1, <3>2 DEF IsCommand
    <3>. HIDE DEF c, d, m
    <3>4. IsRequest(c)  BY <3>1, <3>3, <1>4 DEF IsRequest, IsCommand, m
    <3>5. Fits(c)  BY <3>1, <3>3, <3>4 DEF Fits
    <3>. QED BY <3>1, <3>3, <3>5 DEF Planned, IsStep, AsSeen, c
  <2>3. Planned(adjust(f), seen)
    <3>. DEFINE c == adjust(f)
                a == arg(f)
    <3>1. a.delta \in Int  BY <2>1, <1>4
    <3>2. /\ IsCommand(c) /\ c.env.op = "adjust" /\ c.env.id = m /\ c.env.arg = a
          /\ c.expected = seen.stock[m].version
      <4>1. c = Command(u, <<"reported_stock", m>>, "adjust", m, a, seen.stock[m].version)  OBVIOUS
      <4>. HIDE DEF a, c, m
      <4>. QED BY <4>1, SiteUpdateAssumption DEF Command, IsCommand
    <3>. HIDE DEF c, a, m
    <3>3. IsRequest(c)  BY <3>1, <3>2, <1>4 DEF IsRequest, IsCommand, m
    <3>4. Fits(c)  BY <3>2, <3>3 DEF Fits
    <3>. QED BY <3>2, <3>4 DEF Planned, IsStep, AsSeen, c
  <2>4. Planned(assess(f), seen)  BY <2>1, <1>4 DEF Planned, IsStep, IsAssessment
  <2>5. first(f) \in {<<create(f)>>, <<adjust(f)>>, <<>>}
    <3>. HIDE DEF create, adjust
    <3>. QED OBVIOUS
  <2>. HIDE DEF first, create, adjust, assess
  <2>6. IsList(first(f)) /\ \A c \in ToSet(first(f)) : Planned(c, seen)
    BY <2>2, <2>3, <2>5, SingleList
  <2>7. IsList(<<assess(f)>>) /\ ToSet(<<assess(f)>>) = {assess(f)}  BY SingleList
  <2>. QED BY <2>4, <2>6, <2>7, ConcatList
<1>5. Materials(u, facts, seen) = FlattenSeq(ss)  BY DEF Materials
<1>6. \A i \in 1..N : ss[i] = <<>> \/ ss[i] = part(r[i])
  <2>. HIDE DEF part, repeated
  <2>. QED BY <1>2
<1>. HIDE DEF ss, part, N, r
<1>7. \A i \in 1..N : IsList(ss[i]) /\ \A c \in ToSet(ss[i]) : Planned(c, seen)
  BY <1>1, <1>2, <1>4, <1>6, SingleList
<1>. QED BY <1>3, <1>5, <1>7, FlattenLists

LEMMA PlanFits ==
  ASSUME NEW u \in Update, NEW facts \in Interpretations[u], NEW seen, IsContext(seen)
  PROVE  IsList(Plan(u, facts, seen)) /\ \A c \in ToSet(Plan(u, facts, seen)) : Planned(c, seen)
<1>. DEFINE a == Completions(u, facts, seen)
            b == Issues(u, facts, seen)
            d == Materials(u, facts, seen)
<1>1. IsList(a) /\ \A c \in ToSet(a) : Planned(c, seen)  BY CompletionsFit
<1>2. IsList(b) /\ \A c \in ToSet(b) : Planned(c, seen)  BY IssuesFit
<1>3. IsList(d) /\ \A c \in ToSet(d) : Planned(c, seen)  BY MaterialsFit
<1>4. /\ IsList(SafetyIssues(u, facts))
      /\ \A c \in ToSet(SafetyIssues(u, facts)) : Planned(c, seen)
  BY SafetyFits
<1>5. Plan(u, facts, seen) \in {SafetyIssues(u, facts), a \o b \o d}  BY DEF Plan
<1>. HIDE DEF a, b, d
<1>6. IsList(a \o b) /\ \A c \in ToSet(a \o b) : Planned(c, seen)  BY <1>1, <1>2, ConcatList
<1>7. IsList(a \o b \o d) /\ \A c \in ToSet(a \o b \o d) : Planned(c, seen)
  BY <1>3, <1>6, ConcatList
<1>. QED BY <1>4, <1>5, <1>7

-----------------------------------------------------------------------------
(***************************************************************************)
(* The invariant, in parts.                                                *)
(***************************************************************************)
Ledger == IsFiniteSet(activity) /\ \A a \in activity : a = [key |-> a.key, env |-> a.env]

TasksInv ==
  /\ task \in [Task -> TaskRecord]
  /\ \A t \in Task : /\ task[t].end # Never <=> task[t].status = "completed"
                     /\ task[t].status = "completed" => task[t].percent = Whole

\* An entry of the material ledger is no newer than the stock it explains.
StockInv ==
  /\ stock \in [Material -> StockRecord]
  /\ \A m \in Material : Exists(m) => stock[m].available >= 0
  /\ IsFiniteSet(entries)
  /\ \A e \in entries : /\ e.material \in Material /\ e.delta \in Int /\ e.version \in Nat
                        /\ e.version <= stock[e.material].version

IsOrder(r) ==
  /\ r = [key |-> r.key, material |-> r.material, quantity |-> r.quantity, delivered |-> r.delivered,
         status |-> r.status]
  /\ r.quantity \in Nat /\ r.delivered \in Nat

\* Requests are told apart by their keys, and a delivery is one of a request on record.
RequestsInv ==
  /\ \A r \in request : /\ IsOrder(r)
                        /\ (r.key \in Original \/ \E a \in activity : a.key = r.key)
                        /\ \A q \in request : q.key = r.key => q = r
  /\ \A a \in activity : a.env.op = "deliver" =>
        a.env.arg.quantity \in Nat /\ \E r \in request : r.key = a.env.arg.request

IssuesInv ==
  /\ \A i \in issue : /\ i = [key |-> i.key, type |-> i.type, tasks |-> i.tasks,
                              status |-> i.status, version |-> i.version]
                      /\ i.tasks \subseteq Task
  /\ \A f \in followUp : \E i \in issue : i.key = f.issue /\ f.blocked \in i.tasks

\* What the activity ledger says has been done is there.
Recorded ==
  \A a \in activity :
    /\ a.env.op = "complete" =>
         a.env.id \in Task /\ (task[a.env.id].status = "completed" \/ Reopened(a.env.id))
    /\ a.env.op = "issue" => \E i \in issue : i.key = a.key
    /\ a.env.op = "shortage" => \E r \in request : r.key = a.key

-----------------------------------------------------------------------------
(***************************************************************************)
(* The tasks after a command.                                              *)
(***************************************************************************)
TaskMoves ==
  \A t \in Task : \/ task'[t] = task[t]
                  \/ task[t].status = "absent"
                  \/ (task'[t].version = task[t].version + 1 /\ task'[t].status # "absent")

StaysCompleted ==
  \A t \in Task : task[t].status = "completed" => task'[t].status = "completed" \/ Reopened(t)'

LEMMA UpdateFits ==
  ASSUME NEW c, Fits(c), c.env.op \in {"progress", "complete"}
  PROVE  /\ c.env.id \in Task /\ c.at \in Nat /\ c.env.arg.target \in Statuses \cup {None}
         /\ c.env.arg.percent \in {NoPercent} \cup 0..Whole
         /\ c.env.arg.human \in BOOLEAN
         /\ c.env.op = "complete" => c.env.arg.percent = Whole /\ ~c.env.arg.human
<1>1. CASE c.env.op = "progress"
  <2>1. IsRequest(c)  BY <1>1 DEF Fits
  <2>. QED BY <1>1, <2>1 DEF IsRequest
<1>2. CASE c.env.op = "complete"
  <2>1. ~IsRequest(c)  BY <1>2 DEF IsRequest
  <2>2. /\ IsCommand(c) /\ c.env.id \in Task
        /\ c.env.arg.target = None /\ c.env.arg.percent = Whole /\ c.env.arg.human = FALSE
    BY <1>2, <2>1 DEF Fits
  <2>3. c.env.arg.percent \in {NoPercent} \cup 0..Whole  BY <2>2 DEF Whole
  <2>4. ~c.env.arg.human /\ c.env.arg.human \in BOOLEAN  BY <2>2, Zenon
  <2>5. c.at \in Nat /\ c.env.arg.target \in Statuses \cup {None}  BY <2>2 DEF IsCommand
  <2>. QED BY <1>2, <2>2, <2>3, <2>4, <2>5
<1>. QED BY <1>1, <1>2

LEMMA UpdateTaskKeeps ==
  ASSUME TasksInv, NEW c, Fits(c), c.env.op \in {"progress", "complete"},
         CanUpdateTask(c), UpdateTask(c)
  PROVE  LET t == c.env.id
             arg == c.env.arg
         IN /\ task' = [task EXCEPT ![t] = task'[t]] /\ t \in Task
            /\ task'[t] \in TaskRecord /\ task'[t].version = task[t].version + 1
            /\ task'[t].status # "absent"
            /\ task'[t].end # Never <=> task'[t].status = "completed"
            /\ task'[t].status = "completed" => task'[t].percent = Whole /\ DependenciesDone(t)
            /\ task[t].status = "completed" /\ task'[t].status # "completed" =>
                 c.env.op = "progress" /\ arg.human
            /\ c.env.op = "complete" => task'[t].status = "completed"
<1>. DEFINE t == c.env.id
            arg == c.env.arg
            to == Target(t, arg)
            old == task[t]
            new == [status |-> to, percent |-> Percent(t, arg),
                    start |-> IF to = "in_progress" /\ old.start = Never THEN c.at ELSE old.start,
                    end |-> CASE to = "completed" -> c.at
                              [] old.status = "completed" /\ to = "in_progress" -> Never
                              [] OTHER -> old.end,
                    version |-> old.version + 1]
<1>1. /\ t \in Task /\ c.at \in Nat /\ arg.target \in Statuses \cup {None}
      /\ arg.percent \in {NoPercent} \cup 0..Whole /\ arg.human \in BOOLEAN
      /\ c.env.op = "complete" => arg.percent = Whole /\ ~arg.human
  BY UpdateFits
<1>2. old \in TaskRecord  BY <1>1 DEF TasksInv
<1>3. to \in Statuses
  BY <1>1, <1>2 DEF Target, TaskRecord, Statuses
<1>4. Percent(t, arg) \in 0..Whole /\ (to = "completed" => Percent(t, arg) = Whole)
  <2>1. old.percent \in 0..Whole  BY <1>2 DEF TaskRecord
  <2>2. Whole \in 0..Whole  BY DEF Whole
  <2>. HIDE DEF arg, old
  <2>. QED BY <1>1, <2>1, <2>2 DEF Percent, old
<1>5. /\ old.status # "absent" /\ MayMove(old.status, to, arg)
      /\ to = "completed" => DependenciesDone(t)
  BY DEF CanUpdateTask
<1>6. to # "absent"
  <2>. HIDE DEF to, old
  <2>1. old.status \in Statuses  BY <1>2 DEF TaskRecord
  <2>. QED BY <1>5, <2>1 DEF MayMove, Transitions, Statuses
<1>7. task' = [task EXCEPT ![t] = new]  BY DEF UpdateTask
<1>8. old.status = "completed" /\ to # "completed" => to = "in_progress" /\ arg.human
  <2>. HIDE DEF to, old
  <2>. QED BY <1>5 DEF MayMove, Transitions
<1>9. c.env.op = "complete" => to = "completed"  BY <1>1 DEF Target, RequestsCompletion
<1>10. old.end # Never <=> old.status = "completed"  BY <1>1 DEF TasksInv
<1>11. /\ new.status = to /\ new.percent = Percent(t, arg) /\ new.version = old.version + 1
       /\ new.end = IF to = "completed" THEN c.at
                    ELSE IF old.status = "completed" /\ to = "in_progress" THEN Never ELSE old.end
  <2>. HIDE DEF to, old
  <2>. QED OBVIOUS
<1>12. new \in TaskRecord
  <2>1. /\ old.start \in {Never} \cup Nat /\ old.end \in {Never} \cup Nat /\ old.version \in Nat
    BY <1>2 DEF TaskRecord
  <2>2. old.version + 1 \in Nat  BY <2>1
  <2>3. new.end \in {Never} \cup Nat /\ new.start \in {Never} \cup Nat
    <3>. HIDE DEF to, old
    <3>. QED BY <1>1, <1>11, <2>1
  <2>. HIDE DEF to, old
  <2>. QED BY <1>3, <1>4, <2>1, <2>2, <2>3 DEF TaskRecord
<1>13. new.end # Never <=> to = "completed"
  <2>. HIDE DEF to, old, new
  <2>. QED BY <1>1, <1>8, <1>10, <1>11 DEF Never
<1>14. task'[t] = new  BY <1>1, <1>7 DEF TasksInv
<1>15. c.env.op \in {"progress", "complete"}  OBVIOUS
<1>. HIDE DEF to, old, new
<1>. QED BY <1>1, <1>4, <1>5, <1>6, <1>7, <1>8, <1>9, <1>11, <1>12, <1>13, <1>14, <1>15 DEF old

\* A person has reopened it, as the ledger tells for good.
LEMMA ReopenedStays ==
  ASSUME NEW c, Record(c), NEW t, Reopened(t)
  PROVE  Reopened(t)'
BY DEF Record, Reopened

LEMMA TaskEffect ==
  ASSUME TasksInv, CompletedAfterDependencies, NEW c, Fits(c), Can(c), Record(c), Do(c)
  PROVE  /\ TasksInv' /\ TaskMoves /\ StaysCompleted /\ CompletedAfterDependencies'
         /\ c.env.op = "complete" => c.env.id \in Task /\ task'[c.env.id].status = "completed"
<1>. DEFINE t == c.env.id
<1>1. CASE c.env.op \in {"progress", "complete"}
  <2>1. CanUpdateTask(c) /\ UpdateTask(c)  BY <1>1 DEF Can, Do
  <2>2. /\ task' = [task EXCEPT ![t] = task'[t]] /\ t \in Task
        /\ task'[t] \in TaskRecord /\ task'[t].version = task[t].version + 1
        /\ task'[t].status # "absent"
        /\ task'[t].end # Never <=> task'[t].status = "completed"
        /\ task'[t].status = "completed" => task'[t].percent = Whole /\ DependenciesDone(t)
        /\ task[t].status = "completed" /\ task'[t].status # "completed" =>
             c.env.op = "progress" /\ c.env.arg.human
        /\ c.env.op = "complete" => task'[t].status = "completed"
    BY <1>1, <2>1, UpdateTaskKeeps
  <2>3. \A s \in Task : s # t => task'[s] = task[s]  BY <2>2 DEF TasksInv
  <2>4. task' \in [Task -> TaskRecord]  BY <2>2, <2>3 DEF TasksInv
  <2>5. TasksInv'  BY <2>2, <2>3, <2>4 DEF TasksInv
  <2>6. TaskMoves  BY <2>2, <2>3 DEF TaskMoves
  <2>7. StaysCompleted
    <3>1. ASSUME task[t].status = "completed", task'[t].status # "completed" PROVE Reopened(t)'
      <4>1. c.env.op = "progress" /\ c.env.arg.human  BY <3>1, <2>2
      <4>2. [key |-> c.key, env |-> c.env] \in activity'  BY DEF Record
      <4>3. \E a \in activity' : a.env.op = "progress" /\ a.env.id = t /\ a.env.arg.human
        BY <4>1, <4>2
      <4>. QED BY <4>3 DEF Reopened
    <3>. QED BY <2>3, <3>1 DEF StaysCompleted
  <2>8. CompletedAfterDependencies'
    <3>1. ASSUME NEW s \in Task, task'[s].status = "completed", NEW d \in Depends[s]
          PROVE  task'[d].status = "completed" \/ Reopened(d)'
      <4>0. d \in Task  BY RecordsAssumption
      <4>1. task[d].status = "completed" \/ Reopened(d)
        <5>1. CASE s = t  BY <5>1, <3>1, <2>2 DEF DependenciesDone
        <5>2. CASE s # t  BY <5>2, <3>1, <2>3 DEF CompletedAfterDependencies
        <5>. QED BY <5>1, <5>2
      <4>. QED BY <4>0, <4>1, <2>7, ReopenedStays DEF StaysCompleted
    <3>. QED BY <3>1 DEF CompletedAfterDependencies
  <2>. QED BY <2>2, <2>5, <2>6, <2>7, <2>8
<1>2. ASSUME c.env.op \in {"details", "create_task"}
      PROVE  t \in Task
  <2>1. IsRequest(c)  BY <1>2 DEF Fits
  <2>. QED BY <1>2, <2>1 DEF IsRequest
<1>3. ASSUME task' \in [Task -> TaskRecord],
             \A s \in Task : task'[s] = task[s]
                \/ (/\ task'[s].end = task[s].end /\ task'[s].percent = task[s].percent
                    /\ task'[s].status = task[s].status
                    /\ task'[s].version = task[s].version + 1 /\ task'[s].status # "absent")
                \/ (task[s].status = "absent" /\ task'[s].end = Never /\ task'[s].status = "planned")
      PROVE  TasksInv' /\ TaskMoves /\ StaysCompleted /\ CompletedAfterDependencies'
  <2>1. TasksInv'  BY <1>3 DEF TasksInv
  <2>2. TaskMoves  BY <1>3 DEF TaskMoves
  <2>3. \A s \in Task : task'[s].status = "completed" <=> task[s].status = "completed"
    BY <1>3
  <2>4. CompletedAfterDependencies'
    <3>1. ASSUME NEW s \in Task, task'[s].status = "completed", NEW d \in Depends[s]
          PROVE  task'[d].status = "completed" \/ Reopened(d)'
      <4>0. d \in Task  BY RecordsAssumption
      <4>1. task[d].status = "completed" \/ Reopened(d)
        BY <2>3, <3>1 DEF CompletedAfterDependencies
      <4>. QED BY <4>0, <4>1, <2>3, ReopenedStays
    <3>. QED BY <3>1 DEF CompletedAfterDependencies
  <2>. QED BY <2>1, <2>2, <2>3, <2>4 DEF StaysCompleted
<1>4. CASE c.env.op = "details"
  <2>1. task[t].status # "absent" /\ task' = [task EXCEPT ![t].version = @ + 1] /\ t \in Task
    BY <1>4, <1>2 DEF Can, Do, CanUpdateDetails, UpdateDetails
  <2>. DEFINE new == [task[t] EXCEPT !.version = @ + 1]
  <2>2. task[t] \in TaskRecord  BY <2>1 DEF TasksInv
  <2>3. /\ new \in TaskRecord /\ new.end = task[t].end /\ new.percent = task[t].percent
        /\ new.status = task[t].status /\ new.version = task[t].version + 1
    BY <2>2 DEF TaskRecord
  <2>4. task' = [task EXCEPT ![t] = new]  BY <2>1
  <2>. HIDE DEF new
  <2>5. task' \in [Task -> TaskRecord] /\ task'[t] = new /\ \A s \in Task : s # t => task'[s] = task[s]
    BY <2>1, <2>3, <2>4 DEF TasksInv
  <2>. HIDE DEF t
  <2>6. TasksInv' /\ TaskMoves /\ StaysCompleted /\ CompletedAfterDependencies'
    BY <1>3, <2>1, <2>3, <2>5
  <2>. QED BY <1>4, <2>6
<1>5. CASE c.env.op = "create_task"
  <2>. DEFINE new == [status |-> "planned", percent |-> 0, start |-> Never, end |-> Never, version |-> 0]
  <2>1. task[t].status = "absent" /\ task' = [task EXCEPT ![t] = new] /\ t \in Task
    BY <1>5, <1>2 DEF Can, Do, CreateTask
  <2>2. new \in TaskRecord /\ new.end = Never /\ new.status = "planned"
    BY DEF TaskRecord, Statuses, Whole, Never
  <2>. HIDE DEF new
  <2>3. task' \in [Task -> TaskRecord] /\ task'[t] = new /\ \A s \in Task : s # t => task'[s] = task[s]
    BY <2>1, <2>2 DEF TasksInv
  <2>. HIDE DEF t
  <2>4. TasksInv' /\ TaskMoves /\ StaysCompleted /\ CompletedAfterDependencies'
    BY <1>3, <2>1, <2>2, <2>3
  <2>. QED BY <1>5, <2>4
<1>6. CASE c.env.op \notin {"progress", "complete", "details", "create_task"}
  <2>1. task' = task
    BY <1>6 DEF Do, FollowUp, AdjustQuantity, SetQuantity, UpdateMaterial, CreateMaterial,
                RecordDelivery, NewRequest, CreateIssue, UpdateIssue, ProjectReport, EditLog
  <2>2. TasksInv' /\ TaskMoves /\ StaysCompleted /\ CompletedAfterDependencies'
    <3>1. task' \in [Task -> TaskRecord]  BY <2>1 DEF TasksInv
    <3>. QED BY <1>3, <2>1, <3>1
  <2>. QED BY <1>6, <2>2
<1>. QED BY <1>1, <1>4, <1>5, <1>6

-----------------------------------------------------------------------------
(***************************************************************************)
(* The stock and its ledger after a command.                               *)
(***************************************************************************)
StockMoves ==
  \A m \in Material : stock'[m] = stock[m] \/ stock'[m].version = stock[m].version + 1

Of(m, S) == {e \in S : e.material = m}

\* The two halves of StockExplained.
Summed == \A m \in Material : Exists(m) => stock[m].available = Balance(Of(m, entries))

Latest ==
  \A m \in Material : Exists(m) =>
    \A e \in Of(m, entries) :
      (\A o \in Of(m, entries) : o.version <= e.version) => e.balance = stock[m].available

LEMMA ExplainedMeans == StockExplained <=> Summed /\ Latest
BY DEF StockExplained, Summed, Latest, Of, Balance

\* A movement of the stock of m with its entry, which is the latest one.
LEMMA MovementKeeps ==
  ASSUME StockInv, Summed, Latest, NEW m \in Material, NEW delta \in Int, NEW version \in Nat,
         NEW new, NEW e, new \in StockRecord, new.version = version, new.available >= 0,
         stock' = [stock EXCEPT ![m] = new],
         entries' = entries \cup {e}, e.material = m, e.delta = delta, e.version = version,
         e.balance = new.available,
         \/ /\ Exists(m) /\ version = stock[m].version + 1
            /\ new.available = stock[m].available + delta
         \/ ~Exists(m) /\ version = 0 /\ new.available = delta
  PROVE  StockInv' /\ Summed' /\ Latest' /\ StockMoves
<1>. DEFINE mine == Of(m, entries)
<1>1. stock' \in [Material -> StockRecord] /\ stock'[m] = new
  BY DEF StockInv
<1>2. \A k \in Material : k # m => stock'[k] = stock[k]  BY DEF StockInv
<1>3. \A k \in Material : stock[k].version \in {Never} \cup Nat /\ stock[k].available \in Int
  BY DEF StockInv, StockRecord
<1>4. IsFiniteSet(mine) /\ \A o \in mine : o.delta \in Int /\ o.version \in Nat /\ o.version <= stock[m].version
  <2>1. mine \in SUBSET entries  BY DEF Of
  <2>2. IsFiniteSet(mine)  BY <2>1, FS_Subset DEF StockInv
  <2>. QED BY <2>2 DEF StockInv, Of
<1>5. ~Exists(m) => mine = {}  BY <1>3, <1>4 DEF Exists, Never
<1>6. \A o \in mine : o.version < version
  BY <1>3, <1>4, <1>5 DEF Exists, Never
<1>7. e \notin mine  BY <1>6
<1>8. Of(m, entries') = mine \cup {e} /\ \A k \in Material : k # m => Of(k, entries') = Of(k, entries)
  BY DEF Of
<1>9. StockMoves
  <2>1. stock'[m].version = stock[m].version + 1  BY <1>1, <1>3 DEF Exists, Never
  <2>. QED BY <1>2, <2>1 DEF StockMoves
<1>10. StockInv'
  <2>1. IsFiniteSet(entries')  BY FS_AddElement DEF StockInv
  <2>2. \A k \in Material : Exists(k)' => stock'[k].available >= 0  BY <1>1, <1>2 DEF StockInv, Exists
  <2>3. \A o \in entries : o.version <= stock'[o.material].version
    <3>1. \A o \in entries : o.material = m => o.version <= version
      <4>. TAKE o \in entries
      <4>. HAVE o.material = m
      <4>1. o \in mine  BY DEF Of
      <4>. QED BY <4>1, <1>4, <1>6
    <3>. QED BY <1>1, <1>2, <3>1 DEF StockInv
  <2>4. e.version <= stock'[e.material].version  BY <1>1
  <2>. QED BY <1>1, <2>1, <2>2, <2>3, <2>4 DEF StockInv
<1>11. Summed'
  <2>1. Balance(mine) \in Int /\ Balance(mine \cup {e}) = delta + Balance(mine)
    <3>. HIDE DEF mine
    <3>. QED BY <1>4, <1>7, BalanceGrows
  <2>2. stock'[m].available = Balance(Of(m, entries'))
    <3>1. CASE Exists(m)
      <4>1. stock[m].available = Balance(mine)  BY <3>1 DEF Summed
      <4>2. stock'[m].available = Balance(mine) + delta  BY <1>1, <3>1, <4>1
      <4>3. Balance(Of(m, entries')) = Balance(mine \cup {e})  BY <1>8
      <4>. HIDE DEF mine
      <4>. QED BY <2>1, <4>2, <4>3
    <3>2. CASE ~Exists(m)
      <4>1. Balance(mine) = 0  BY <1>5, <3>2, NothingSumsToZero
      <4>. QED BY <1>1, <1>8, <2>1, <3>2, <4>1, SMTT(30)
    <3>. QED BY <3>1, <3>2
  <2>3. \A k \in Material : k # m /\ Exists(k)' => stock'[k].available = Balance(Of(k, entries'))
    BY <1>2, <1>8 DEF Summed, Exists
  <2>. QED BY <2>2, <2>3 DEF Summed
<1>12. Latest'
  <2>1. ASSUME NEW o \in Of(m, entries'), \A p \in Of(m, entries') : p.version <= o.version
        PROVE  o.balance = stock'[m].available
    <3>1. e \in Of(m, entries')  BY <1>8
    <3>2. version <= o.version  BY <2>1, <3>1
    <3>3. o = e
      <4>1. o \notin mine  BY <3>2, <1>4, <1>6
      <4>. QED BY <4>1, <1>8
    <3>. QED BY <3>3, <1>1
  <2>2. \A k \in Material : k # m /\ Exists(k)' =>
          \A o \in Of(k, entries') :
            (\A p \in Of(k, entries') : p.version <= o.version) => o.balance = stock'[k].available
    <3>. SUFFICES ASSUME NEW k \in Material, k # m, Exists(k)', NEW o \in Of(k, entries'),
                         \A p \in Of(k, entries') : p.version <= o.version
                  PROVE  o.balance = stock'[k].available
      OBVIOUS
    <3>. HIDE DEF mine
    <3>1. stock'[k] = stock[k] /\ Of(k, entries') = Of(k, entries)  BY <1>2, <1>8
    <3>2. Exists(k)  BY <3>1 DEF Exists
    <3>3. o.balance = stock[k].available  BY <3>1, <3>2 DEF Latest
    <3>. QED BY <3>1, <3>3
  <2>. QED BY <2>1, <2>2 DEF Latest
<1>. QED BY <1>9, <1>10, <1>11, <1>12

LEMMA StockEffect ==
  ASSUME StockInv, Summed, Latest, NEW c, Fits(c), Can(c), Record(c), Do(c)
  PROVE  StockInv' /\ Summed' /\ Latest' /\ StockMoves
<1>. DEFINE m == c.env.id
            old == stock[m]
<1>0. ASSUME c.env.op \in {"adjust", "set", "material", "create_material", "deliver"}
      PROVE  /\ m \in Material /\ old \in StockRecord
             /\ c.env.op = "adjust" => c.env.arg.delta \in Int
             /\ c.env.op \in {"set", "deliver"} => c.env.arg.quantity \in Nat
             /\ c.env.op = "material" => c.env.arg.minimum \in Nat
             /\ c.env.op = "create_material" => c.quantity \in Nat
  <2>1. IsRequest(c)  BY <1>0 DEF Fits
  <2>2. m \in Material  BY <1>0, <2>1 DEF IsRequest
  <2>3. old \in StockRecord  BY <2>2 DEF StockInv
  <2>. HIDE DEF m
  <2>. QED BY <1>0, <2>1, <2>2, <2>3 DEF IsRequest
\* A movement by delta.
<1>1. ASSUME NEW delta \in Int, m \in Material, old \in StockRecord, Exists(m), Move(c, m, delta),
             old.available + delta >= 0
      PROVE  StockInv' /\ Summed' /\ Latest' /\ StockMoves
  <2>. DEFINE half == [old EXCEPT !.available = old.available + delta]
              new == [half EXCEPT !.version = old.version + 1]
              e == [key |-> c.key, material |-> m, delta |-> delta,
                    balance |-> old.available + delta, version |-> old.version + 1]
  <2>1. old.version \in Nat /\ old.available \in Int  BY <1>1 DEF Exists, StockRecord, Never
  <2>2. old.version + 1 \in Nat /\ old.available + delta \in Int  BY <2>1
  <2>3. half \in StockRecord /\ half.available = old.available + delta  BY <1>1, <2>2 DEF StockRecord
  <2>4. new \in StockRecord /\ new.available = half.available /\ new.version = old.version + 1
    <3>. HIDE DEF half, old
    <3>. QED BY <2>2, <2>3 DEF StockRecord
  <2>5. stock' = [stock EXCEPT ![m] = new] /\ entries' = entries \cup {e}
    <3>1. stock' = [stock EXCEPT ![m].available = old.available + delta, ![m].version = @ + 1]
          /\ entries' = entries \cup {e}
      BY <1>1 DEF Move
    <3>2. m \in DOMAIN stock  BY <1>1 DEF StockInv
    <3>. QED BY <3>1, <3>2
  <2>6. /\ e.material = m /\ e.delta = delta /\ e.version = old.version + 1
        /\ e.balance = new.available
    BY <2>3, <2>4
  <2>. HIDE DEF half, new, e, m
  <2>. QED BY <1>1, <2>2, <2>3, <2>4, <2>5, <2>6, MovementKeeps, ZenonT(60)
<1>2. CASE c.env.op = "adjust"
  <2>1. CanAdjust(c) /\ AdjustQuantity(c)  BY <1>2 DEF Can, Do
  <2>2. c.env.arg.delta \in Int /\ m \in Material /\ old \in StockRecord  BY <1>0, <1>2
  <2>3. Exists(m) /\ old.available + c.env.arg.delta >= 0
    BY <2>1, <2>2, RecordsAssumption DEF CanAdjust, StockRecord
  <2>4. Move(c, m, c.env.arg.delta)  BY <2>1 DEF AdjustQuantity
  <2>. HIDE DEF m, old
  <2>. QED BY <1>1, <2>2, <2>3, <2>4
<1>3. CASE c.env.op = "set"
  <2>1. CanSet(c) /\ SetQuantity(c)  BY <1>3 DEF Can, Do
  <2>. DEFINE delta == c.env.arg.quantity - old.available
  <2>2. c.env.arg.quantity \in Nat /\ m \in Material /\ old \in StockRecord  BY <1>0, <1>3
  <2>3. Exists(m)  BY <2>1 DEF CanSet
  <2>4. delta \in Int /\ old.available + delta >= 0  BY <2>2 DEF StockRecord
  <2>5. Move(c, m, delta)  BY <2>1 DEF SetQuantity
  <2>. HIDE DEF m, old, delta
  <2>. QED BY <1>1, <2>2, <2>3, <2>4, <2>5
<1>4. CASE c.env.op = "deliver"
  <2>1. CanDeliver(c) /\ RecordDelivery(c)  BY <1>4 DEF Can, Do
  <2>2. c.env.arg.quantity \in Nat /\ m \in Material /\ old \in StockRecord  BY <1>0, <1>4
  <2>3. Exists(m)  BY <2>1 DEF CanDeliver
  <2>4. old.available >= 0  BY <2>2, <2>3 DEF StockInv
  <2>5. c.env.arg.quantity \in Int /\ old.available + c.env.arg.quantity >= 0
    BY <2>2, <2>4 DEF StockRecord
  <2>6. Move(c, m, c.env.arg.quantity)  BY <2>1 DEF RecordDelivery
  <2>. HIDE DEF m, old
  <2>. QED BY <1>1, <2>2, <2>3, <2>5, <2>6
\* The stock changes, the ledger and the quantities do not.
<1>5. ASSUME stock' \in [Material -> StockRecord], entries' = entries,
             \A k \in Material :
               /\ stock'[k].available = stock[k].available /\ (Exists(k)' <=> Exists(k))
               /\ stock'[k] = stock[k] \/ (Exists(k) /\ stock'[k].version = stock[k].version + 1)
      PROVE  StockInv' /\ Summed' /\ Latest' /\ StockMoves
  <2>1. \A k \in Material : stock[k].version \in {Never} \cup Nat  BY DEF StockInv, StockRecord
  <2>2. StockInv'
    <3>1. \A k \in Material : Exists(k)' => stock'[k].available >= 0  BY <1>5 DEF StockInv
    <3>2. \A o \in entries : o.version <= stock'[o.material].version
      BY <1>5, <2>1 DEF StockInv, Exists, Never
    <3>. QED BY <1>5, <3>1, <3>2 DEF StockInv
  <2>3. Summed' /\ Latest'  BY <1>5 DEF Summed, Latest
  <2>. QED BY <1>5, <2>2, <2>3 DEF StockMoves
<1>6. CASE c.env.op = "material"
  <2>1. CanUpdateMaterial(c) /\ UpdateMaterial(c)  BY <1>6 DEF Can, Do
  <2>2. c.env.arg.minimum \in Nat /\ m \in Material /\ old \in StockRecord /\ Exists(m)
    BY <1>0, <1>6, <2>1 DEF CanUpdateMaterial
  <2>. DEFINE half == [old EXCEPT !.minimum = c.env.arg.minimum]
              new == [half EXCEPT !.version = old.version + 1]
  <2>3. old.version \in Nat  BY <2>2 DEF Exists, StockRecord, Never
  <2>4. half \in StockRecord /\ half.available = old.available  BY <2>2 DEF StockRecord
  <2>5. new \in StockRecord /\ new.available = half.available /\ new.version = old.version + 1
    <3>. HIDE DEF half, old
    <3>. QED BY <2>3, <2>4 DEF StockRecord
  <2>6. stock' = [stock EXCEPT ![m] = new] /\ entries' = entries
    <3>1. stock' = [stock EXCEPT ![m].minimum = c.env.arg.minimum, ![m].version = @ + 1]
          /\ entries' = entries
      BY <2>1 DEF UpdateMaterial
    <3>2. m \in DOMAIN stock  BY <2>2 DEF StockInv
    <3>. QED BY <3>1, <3>2
  <2>. HIDE DEF half, new
  <2>7. /\ stock' \in [Material -> StockRecord] /\ stock'[m] = new
        /\ \A k \in Material : k # m => stock'[k] = stock[k]
    BY <2>2, <2>5, <2>6 DEF StockInv
  <2>8. \A k \in Material :
               /\ stock'[k].available = stock[k].available /\ (Exists(k)' <=> Exists(k))
               /\ stock'[k] = stock[k] \/ (Exists(k) /\ stock'[k].version = stock[k].version + 1)
    BY <2>2, <2>3, <2>4, <2>5, <2>7 DEF Exists, Never
  <2>. QED BY <1>5, <2>6, <2>7, <2>8
<1>7. CASE c.env.op = "create_material"
  <2>1. ~Exists(m) /\ CreateMaterial(c)  BY <1>7 DEF Can, Do, CanCreateMaterial
  <2>2. c.quantity \in Nat /\ m \in Material /\ old \in StockRecord  BY <1>0, <1>7
  <2>. DEFINE half == [old EXCEPT !.available = c.quantity]
              new == [half EXCEPT !.version = 0]
              e == [key |-> c.key, material |-> m, delta |-> c.quantity,
                    balance |-> c.quantity, version |-> 0]
  <2>3. half \in StockRecord /\ half.available = c.quantity  BY <2>2 DEF StockRecord
  <2>4. new \in StockRecord /\ new.available = c.quantity /\ new.version = 0
    <3>. HIDE DEF half, old
    <3>. QED BY <2>3 DEF StockRecord
  <2>5. /\ stock' = [stock EXCEPT ![m] = new]
        /\ entries' = IF c.quantity = 0 THEN entries ELSE entries \cup {e}
    <3>1. m \in DOMAIN stock  BY <2>2 DEF StockInv
    <3>. QED BY <2>1, <3>1 DEF CreateMaterial
  <2>6. e.material = m /\ e.delta = c.quantity /\ e.version = 0 /\ e.balance = new.available
    BY <2>4
  <2>. HIDE DEF half, new, e
  <2>7. CASE c.quantity # 0
    <3>1. c.quantity \in Int /\ new.available >= 0 /\ 0 \in Nat  BY <2>2, <2>4
    <3>2. entries' = entries \cup {e}  BY <2>5, <2>7
    <3>. HIDE DEF m, old
    <3>. QED BY <2>1, <2>2, <2>4, <2>5, <2>6, <3>1, <3>2, MovementKeeps
  <2>8. CASE c.quantity = 0
    <3>1. entries' = entries  BY <2>5, <2>8
    <3>2. /\ stock' \in [Material -> StockRecord] /\ stock'[m] = new
          /\ \A k \in Material : k # m => stock'[k] = stock[k]
      BY <2>2, <2>4, <2>5 DEF StockInv
    <3>3. Of(m, entries) = {}
      <4>1. ASSUME NEW o \in entries, o.material = m PROVE FALSE
        BY <2>1, <4>1 DEF StockInv, Exists, Never
      <4>. QED BY <4>1 DEF Of
    <3>4. \A o \in entries : o.material # m  BY <3>3 DEF Of
    <3>5. StockMoves  BY <2>1, <2>4, <3>2 DEF StockMoves, Exists, Never
    <3>6. StockInv'
      <4>1. \A k \in Material : Exists(k)' => stock'[k].available >= 0
        BY <2>4, <2>8, <3>2 DEF StockInv, Exists
      <4>2. \A o \in entries : o.version <= stock'[o.material].version
        BY <3>2, <3>4 DEF StockInv
      <4>. QED BY <3>1, <3>2, <4>1, <4>2 DEF StockInv
    <3>7. Summed'
      <4>1. stock'[m].available = Balance(Of(m, entries))
        BY <2>4, <2>8, <3>2, <3>3, NothingSumsToZero
      <4>. QED BY <3>1, <3>2, <4>1 DEF Summed, Exists
    <3>8. Latest'  BY <3>1, <3>2, <3>3 DEF Latest, Exists
    <3>. QED BY <3>5, <3>6, <3>7, <3>8
  <2>. QED BY <2>7, <2>8
<1>8. CASE c.env.op \notin {"adjust", "set", "material", "create_material", "deliver"}
  <2>1. stock' = stock /\ entries' = entries
    BY <1>8 DEF Do, UpdateTask, UpdateDetails, CreateTask, FollowUp, NewRequest, CreateIssue,
                UpdateIssue, ProjectReport, EditLog
  <2>2. stock' \in [Material -> StockRecord]  BY <2>1 DEF StockInv
  <2>. QED BY <1>5, <2>1, <2>2 DEF Exists
<1>. QED BY <1>2, <1>3, <1>4, <1>6, <1>7, <1>8

-----------------------------------------------------------------------------
(***************************************************************************)
(* The requests after a command.                                           *)
(***************************************************************************)
For(k, S) == {a \in S : a.env.op = "deliver" /\ a.env.arg.request = k}

Fulfilled(r, S) ==
  /\ r.delivered = Brought(For(r.key, S)) /\ r.delivered <= r.quantity
  /\ r.status = "delivered" => r.delivered = r.quantity

LEMMA DeliveredMeans == DeliveredAsOrdered <=> \A r \in request : Fulfilled(r, activity)
BY DEF DeliveredAsOrdered, Fulfilled, For, Brought

RequestsStay == \A r \in request : \E q \in request' : q.key = r.key

LEMMA RequestEffect ==
  ASSUME Ledger, RequestsInv, \A r \in request : Fulfilled(r, activity),
         NEW c, Fits(c), Fresh(c), Can(c), Record(c), Do(c)
  PROVE  /\ RequestsInv' /\ RequestsStay
         /\ \A r \in request' : Fulfilled(r, activity')
         /\ c.env.op = "shortage" => \E r \in request' : r.key = c.key
<1>. DEFINE e == [key |-> c.key, env |-> c.env]
            K == c.env.arg.request
            q == c.env.arg.quantity
<1>1. activity' = activity \cup {e} /\ e \notin activity  BY DEF Record, Fresh, Known
<1>2. \A a \in activity : a.key # c.key  BY DEF Fresh, Known
<1>3. ASSUME NEW k PROVE IsFiniteSet(For(k, activity)) /\ \A a \in For(k, activity) : a.env.arg.quantity \in Int
  <2>1. For(k, activity) \in SUBSET activity  BY DEF For
  <2>. QED BY <2>1, FS_Subset DEF Ledger, RequestsInv, For
<1>4. CASE c.env.op = "deliver"
  <2>1. CanDeliver(c) /\ RecordDelivery(c)  BY <1>4 DEF Can, Do
  <2>2. q \in Nat /\ c.env.arg.complete \in BOOLEAN
    <3>1. IsRequest(c)  BY <1>4 DEF Fits
    <3>. QED BY <1>4, <3>1 DEF IsRequest
  <2>3. PICK r \in request : /\ r.key = K /\ r.status \in {"confirmed", "delayed"}
                             /\ r.delivered + q <= r.quantity
                             /\ c.env.arg.complete => r.delivered + q = r.quantity
    BY <2>1 DEF CanDeliver
  <2>. DEFINE half == [r EXCEPT !.delivered = r.delivered + q]
              new == [half EXCEPT !.status = IF c.env.arg.complete THEN "delivered" ELSE r.status]
  <2>4. IsOrder(r) /\ \A o \in request : o.key = K => o = r  BY <2>3 DEF RequestsInv
  <2>5. r.delivered \in Nat /\ r.quantity \in Nat /\ r.delivered + q \in Nat  BY <2>2, <2>4 DEF IsOrder
  <2>6. /\ IsOrder(half) /\ half.key = r.key /\ half.quantity = r.quantity
        /\ half.delivered = r.delivered + q
    BY <2>4, <2>5 DEF IsOrder
  <2>7. /\ IsOrder(new) /\ new.key = r.key /\ new.quantity = r.quantity
        /\ new.delivered = r.delivered + q
        /\ new.status = IF c.env.arg.complete THEN "delivered" ELSE r.status
    <3>. HIDE DEF half
    <3>. QED BY <2>6 DEF IsOrder
  <2>8. request' = (request \ {r}) \cup {new}
    <3>1. request' = {IF o.key = K
                      THEN [o EXCEPT !.delivered = @ + q,
                                     !.status = IF c.env.arg.complete THEN "delivered" ELSE @]
                      ELSE o : o \in request}
      BY <2>1 DEF RecordDelivery
    <3>2. new = [r EXCEPT !.delivered = @ + q,
                          !.status = IF c.env.arg.complete THEN "delivered" ELSE @]
      BY <2>4 DEF IsOrder
    <3>. HIDE DEF new, q
    <3>3. \A o \in request : o # r => o.key # K  BY <2>4
    <3>4. ASSUME NEW x \in request' PROVE x \in (request \ {r}) \cup {new}
      BY <2>3, <3>1, <3>2, <3>3, <2>4
    <3>5. new \in request'  BY <2>3, <3>1, <3>2
    <3>6. \A o \in request : o # r => o \in request'  BY <3>1, <3>3
    <3>. QED BY <3>4, <3>5, <3>6
  <2>. HIDE DEF half, new
  <2>9. RequestsInv'
    <3>1. ASSUME NEW x \in request'
          PROVE  /\ IsOrder(x) /\ (x.key \in Original \/ \E a \in activity' : a.key = x.key)
                 /\ \A o \in request' : o.key = x.key => o = x
      BY <1>1, <2>3, <2>7, <2>8 DEF RequestsInv
    <3>2. \A a \in activity' : a.env.op = "deliver" =>
            a.env.arg.quantity \in Nat /\ \E x \in request' : x.key = a.env.arg.request
      <4>1. \A o \in request : \E x \in request' : x.key = o.key  BY <2>7, <2>8
      <4>2. e.env.arg.quantity = q /\ e.env.arg.request = r.key  BY <2>3
      <4>3. \A a \in activity : a.env.op = "deliver" =>
              a.env.arg.quantity \in Nat /\ \E x \in request' : x.key = a.env.arg.request
        BY <4>1 DEF RequestsInv
      <4>4. e.env.arg.quantity \in Nat /\ \E x \in request' : x.key = e.env.arg.request
        BY <2>2, <2>3, <4>1, <4>2
      <4>. HIDE DEF e
      <4>. QED BY <1>1, <4>3, <4>4
    <3>. QED BY <3>1, <3>2 DEF RequestsInv
  <2>10. RequestsStay  BY <2>7, <2>8 DEF RequestsStay
  <2>11. For(K, activity') = For(K, activity) \cup {e} /\ e \notin For(K, activity)
         /\ \A k : k # K => For(k, activity') = For(k, activity)
    BY <1>1, <1>4 DEF For
  <2>12. Brought(For(K, activity')) = q + Brought(For(K, activity))
    <3>1. e.env.arg.quantity = q /\ q \in Int  BY <2>2
    <3>. HIDE DEF e, q
    <3>2. Brought(For(K, activity) \cup {e}) = q + Brought(For(K, activity))
      BY <1>3, <2>11, <3>1, BroughtGrows
    <3>. QED BY <2>11, <3>2
  <2>13. Fulfilled(new, activity')
    <3>1. r.delivered = Brought(For(K, activity))  BY <2>3 DEF Fulfilled
    <3>2. new.delivered = Brought(For(new.key, activity'))  BY <2>2, <2>3, <2>5, <2>7, <2>12, <3>1
    <3>3. new.status = "delivered" => new.delivered = new.quantity  BY <2>3, <2>7
    <3>. QED BY <2>3, <2>7, <3>2, <3>3 DEF Fulfilled
  <2>14. \A x \in request \ {r} : Fulfilled(x, activity')
    <3>1. \A x \in request \ {r} : x.key # K  BY <2>4
    <3>. QED BY <2>11, <3>1 DEF Fulfilled
  <2>. QED BY <1>4, <2>8, <2>9, <2>10, <2>13, <2>14
<1>5. ASSUME c.env.op # "deliver"
      PROVE  \A k : For(k, activity') = For(k, activity)
  BY <1>1, <1>5 DEF For
<1>6. CASE c.env.op \in {"purchase", "shortage"}
  <2>1. NewRequest(c)  BY <1>6 DEF Do
  <2>2. q \in Nat /\ c.key \notin Original
    <3>1. CASE c.env.op = "purchase"
      <4>1. IsRequest(c) /\ c.key \notin Original  BY <3>1 DEF Fits
      <4>. QED BY <3>1, <4>1 DEF IsRequest
    <3>2. CASE c.env.op = "shortage"
      <4>1. ~IsRequest(c)  BY <3>2 DEF IsRequest
      <4>. QED BY <3>2, <4>1 DEF Fits
    <3>. QED BY <1>6, <3>1, <3>2
  <2>. DEFINE new == [key |-> c.key, material |-> c.env.id, quantity |-> q, delivered |-> 0,
                      status |-> "awaiting_approval"]
  <2>3. request' = request \cup {new}  BY <2>1 DEF NewRequest
  <2>4. /\ new.key = c.key /\ IsOrder(new) /\ new.delivered = 0 /\ new.quantity = q
        /\ new.status = "awaiting_approval"
    BY <2>2 DEF IsOrder
  <2>. HIDE DEF new
  <2>5. \A r \in request : r.key # c.key  BY <1>2, <2>2 DEF RequestsInv
  <2>6. RequestsInv'
    <3>1. ASSUME NEW x \in request'
          PROVE  /\ IsOrder(x) /\ (x.key \in Original \/ \E a \in activity' : a.key = x.key)
                 /\ \A o \in request' : o.key = x.key => o = x
      <4>1. CASE x = new
        <5>1. e \in activity' /\ e.key = x.key  BY <1>1, <2>4, <4>1
        <5>. QED BY <2>3, <2>4, <2>5, <4>1, <5>1
      <4>2. CASE x \in request  BY <1>1, <2>3, <2>4, <2>5, <4>2 DEF RequestsInv
      <4>. QED BY <2>3, <4>1, <4>2
    <3>2. \A a \in activity' : a.env.op = "deliver" =>
            a.env.arg.quantity \in Nat /\ \E x \in request' : x.key = a.env.arg.request
      BY <1>1, <1>6, <2>3 DEF RequestsInv
    <3>. QED BY <3>1, <3>2 DEF RequestsInv
  <2>7. For(c.key, activity) = {}  BY <2>5 DEF For, RequestsInv
  <2>8. Fulfilled(new, activity')
    BY <1>5, <1>6, <2>2, <2>4, <2>7, NothingSumsToZero DEF Fulfilled
  <2>9. \A r \in request : Fulfilled(r, activity')  BY <1>5, <1>6 DEF Fulfilled
  <2>. QED BY <2>3, <2>4, <2>6, <2>8, <2>9 DEF RequestsStay
<1>7. CASE c.env.op \notin {"deliver", "purchase", "shortage"}
  <2>1. request' = request
    BY <1>7 DEF Do, UpdateTask, UpdateDetails, CreateTask, FollowUp, AdjustQuantity, SetQuantity,
                UpdateMaterial, CreateMaterial, CreateIssue, UpdateIssue, ProjectReport, EditLog
  <2>2. RequestsInv'  BY <1>1, <1>7, <2>1 DEF RequestsInv
  <2>3. \A r \in request : Fulfilled(r, activity')  BY <1>5, <1>7 DEF Fulfilled
  <2>. QED BY <1>7, <2>1, <2>2, <2>3 DEF RequestsStay
<1>. QED BY <1>4, <1>6, <1>7

-----------------------------------------------------------------------------
(***************************************************************************)
(* Issues, follow-ups, what the ledger tells, and the daily report.        *)
(***************************************************************************)
IssuesStay == \A i \in issue : \E j \in issue' : j.key = i.key /\ j.tasks = i.tasks

LEMMA IssueEffect ==
  ASSUME IssuesInv, NEW c, Fits(c), Can(c), Do(c)
  PROVE  /\ IssuesInv' /\ IssuesStay
         /\ c.env.op = "issue" => \E i \in issue' : i.key = c.key
<1>1. ASSUME IssuesStay, \A f \in followUp' \ followUp : \E i \in issue : i.key = f.issue /\ f.blocked \in i.tasks,
             \A i \in issue' : /\ i = [key |-> i.key, type |-> i.type, tasks |-> i.tasks,
                                       status |-> i.status, version |-> i.version]
                               /\ i.tasks \subseteq Task
      PROVE  IssuesInv'
  <2>1. ASSUME NEW f \in followUp' PROVE \E i \in issue' : i.key = f.issue /\ f.blocked \in i.tasks
    <3>1. PICK i \in issue : i.key = f.issue /\ f.blocked \in i.tasks  BY <1>1 DEF IssuesInv
    <3>. QED BY <1>1, <3>1 DEF IssuesStay
  <2>. QED BY <1>1, <2>1 DEF IssuesInv
<1>2. CASE c.env.op = "issue"
  <2>1. CreateIssue(c)  BY <1>2 DEF Do
  <2>2. c.env.arg.tasks \subseteq Task
    <3>1. ~IsRequest(c)  BY <1>2 DEF IsRequest
    <3>. QED BY <1>2, <3>1 DEF Fits
  <2>. DEFINE new == [key |-> c.key, type |-> c.env.arg.type, tasks |-> c.env.arg.tasks,
                      status |-> "open", version |-> 0]
  <2>3. issue' = issue \cup {new} /\ followUp' = followUp  BY <2>1 DEF CreateIssue
  <2>4. /\ new = [key |-> new.key, type |-> new.type, tasks |-> new.tasks,
                 status |-> new.status, version |-> new.version]
        /\ new.tasks \subseteq Task /\ new.key = c.key
    BY <2>2
  <2>. HIDE DEF new
  <2>5. IssuesStay  BY <2>3 DEF IssuesStay
  <2>6. IssuesInv'
    <3>1. \A i \in issue' : /\ i = [key |-> i.key, type |-> i.type, tasks |-> i.tasks,
                                       status |-> i.status, version |-> i.version]
                            /\ i.tasks \subseteq Task
      BY <2>3, <2>4 DEF IssuesInv
    <3>. QED BY <1>1, <2>3, <2>5, <3>1
  <2>. QED BY <2>3, <2>4, <2>5, <2>6
<1>3. CASE c.env.op = "update_issue"
  <2>1. UpdateIssue(c)  BY <1>3 DEF Do
  <2>. DEFINE new(i) == [i EXCEPT !.status = c.env.arg.status, !.version = @ + 1]
  <2>2. ASSUME NEW i \in issue
        PROVE  /\ new(i) = [key |-> new(i).key, type |-> new(i).type, tasks |-> new(i).tasks,
                           status |-> new(i).status, version |-> new(i).version]
               /\ new(i).tasks = i.tasks /\ new(i).key = i.key
    <3>. DEFINE half == [i EXCEPT !.status = c.env.arg.status]
    <3>1. i = [key |-> i.key, type |-> i.type, tasks |-> i.tasks,
               status |-> i.status, version |-> i.version]
      BY DEF IssuesInv
    <3>2. /\ half = [key |-> half.key, type |-> half.type, tasks |-> half.tasks,
                    status |-> half.status, version |-> half.version]
          /\ half.key = i.key /\ half.tasks = i.tasks /\ half.version = i.version
      BY <3>1
    <3>3. new(i) = [half EXCEPT !.version = i.version + 1]  BY <3>1
    <3>. HIDE DEF half, new
    <3>. QED BY <3>2, <3>3
  <2>3. issue' = {IF i.key = c.env.id THEN new(i) ELSE i : i \in issue} /\ followUp' = followUp
    BY <2>1 DEF UpdateIssue
  <2>. HIDE DEF new
  <2>4. IssuesStay
    <3>. SUFFICES ASSUME NEW i \in issue PROVE \E j \in issue' : j.key = i.key /\ j.tasks = i.tasks
      BY DEF IssuesStay
    <3>. DEFINE j == IF i.key = c.env.id THEN new(i) ELSE i
    <3>1. j \in issue'  BY <2>3
    <3>. QED BY <2>2, <3>1
  <2>5. \A i \in issue' : /\ i = [key |-> i.key, type |-> i.type, tasks |-> i.tasks,
                                     status |-> i.status, version |-> i.version]
                          /\ i.tasks \subseteq Task
    <3>. SUFFICES ASSUME NEW j \in issue'
                  PROVE  /\ j = [key |-> j.key, type |-> j.type, tasks |-> j.tasks,
                                status |-> j.status, version |-> j.version]
                         /\ j.tasks \subseteq Task
      OBVIOUS
    <3>1. PICK i \in issue : j = IF i.key = c.env.id THEN new(i) ELSE i  BY <2>3
    <3>. QED BY <2>2, <3>1 DEF IssuesInv
  <2>6. IssuesInv'  BY <1>1, <2>3, <2>4, <2>5
  <2>. QED BY <1>3, <2>4, <2>6
<1>4. CASE c.env.op = "follow_up"
  <2>1. CanFollowUp(c) /\ FollowUp(c)  BY <1>4 DEF Can, Do
  <2>2. issue' = issue
        /\ followUp' = followUp \cup {[key |-> c.key, blocked |-> c.env.id, issue |-> c.env.arg.issue]}
    BY <2>1 DEF FollowUp
  <2>3. \E i \in issue : i.key = c.env.arg.issue /\ c.env.id \in i.tasks  BY <2>1 DEF CanFollowUp
  <2>4. IssuesStay  BY <2>2 DEF IssuesStay
  <2>5. IssuesInv'
    <3>1. \A f \in followUp' \ followUp : \E i \in issue : i.key = f.issue /\ f.blocked \in i.tasks
      BY <2>2, <2>3
    <3>. QED BY <1>1, <2>2, <2>4, <3>1 DEF IssuesInv
  <2>. QED BY <1>4, <2>4, <2>5
<1>5. CASE c.env.op \notin {"issue", "update_issue", "follow_up"}
  <2>1. issue' = issue /\ followUp' = followUp
    BY <1>5 DEF Do, UpdateTask, UpdateDetails, CreateTask, AdjustQuantity, SetQuantity, NewRequest,
                UpdateMaterial, CreateMaterial, RecordDelivery, ProjectReport, EditLog
  <2>. QED BY <1>5, <2>1 DEF IssuesInv, IssuesStay
<1>. QED BY <1>2, <1>3, <1>4, <1>5

LEMMA RecordedKept ==
  ASSUME Recorded, NEW c, Record(c), StaysCompleted, RequestsStay, IssuesStay,
         c.env.op = "complete" => c.env.id \in Task /\ task'[c.env.id].status = "completed",
         c.env.op = "issue" => \E i \in issue' : i.key = c.key,
         c.env.op = "shortage" => \E r \in request' : r.key = c.key
  PROVE  Recorded'
<1>. DEFINE e == [key |-> c.key, env |-> c.env]
<1>1. activity' = activity \cup {e}  BY DEF Record
<1>2. ASSUME NEW a \in activity, a.env.op = "complete"
      PROVE  a.env.id \in Task /\ (task'[a.env.id].status = "completed" \/ Reopened(a.env.id)')
  BY <1>2, ReopenedStays DEF Recorded, StaysCompleted
<1>3. ASSUME NEW a \in activity, a.env.op = "issue" PROVE \E i \in issue' : i.key = a.key
  BY <1>3 DEF Recorded, IssuesStay
<1>4. ASSUME NEW a \in activity, a.env.op = "shortage" PROVE \E r \in request' : r.key = a.key
  BY <1>4 DEF Recorded, RequestsStay
<1>5. e.key = c.key /\ e.env = c.env  OBVIOUS
<1>. HIDE DEF e
<1>. QED BY <1>1, <1>2, <1>3, <1>4, <1>5 DEF Recorded

\* A report that an attempt sends names what the ledger tells.
Truthful(c) ==
  c.env.op = "report" =>
    /\ \A t \in c.env.arg.completed : \E a \in activity : a.env.op = "complete" /\ a.env.id = t
    /\ \A k \in c.env.arg.risks : \E a \in activity : a.env.op = "issue" /\ a.key = k
    /\ \A k \in c.env.arg.requests : \E a \in activity : a.env.op = "shortage" /\ a.key = k

ReportInv ==
  /\ report = [completed |-> report.completed, risks |-> report.risks, requests |-> report.requests,
              progress |-> report.progress, summary |-> report.summary, version |-> report.version]
  /\ report.completed \subseteq Task
  /\ ReportTellsTheTruth

LEMMA ReportEffect ==
  ASSUME ReportInv, Recorded, NEW c, Truthful(c), Fits(c), Record(c), Do(c),
         StaysCompleted, RequestsStay, IssuesStay
  PROVE  ReportInv'
<1>. DEFINE True(r) ==
              /\ r = [completed |-> r.completed, risks |-> r.risks, requests |-> r.requests,
                      progress |-> r.progress, summary |-> r.summary, version |-> r.version]
              /\ \A t \in r.completed : t \in Task /\ (task[t].status = "completed" \/ Reopened(t))
              /\ \A k \in r.risks : \E i \in issue : i.key = k
              /\ \A k \in r.requests : \E q \in request : q.key = k
<1>1. True(report)  BY DEF ReportInv, ReportTellsTheTruth
<1>2. ASSUME True(report') PROVE ReportInv'
  <2>1. \A t \in report'.completed : t \in Task /\ (task'[t].status = "completed" \/ Reopened(t)')
    BY <1>2, ReopenedStays DEF StaysCompleted
  <2>2. \A k \in report'.risks : \E i \in issue' : i.key = k  BY <1>2 DEF IssuesStay
  <2>3. \A k \in report'.requests : \E q \in request' : q.key = k  BY <1>2 DEF RequestsStay
  <2>4. report' = [completed |-> report'.completed, risks |-> report'.risks,
                   requests |-> report'.requests, progress |-> report'.progress,
                   summary |-> report'.summary, version |-> report'.version]
    BY <1>2
  <2>. QED BY <2>1, <2>2, <2>3, <2>4 DEF ReportInv, ReportTellsTheTruth
<1>3. CASE c.env.op = "report"
  <2>1. ProjectReport(c)  BY <1>3 DEF Do
  <2>2. \A t \in c.env.arg.completed : t \in Task /\ (task[t].status = "completed" \/ Reopened(t))
    BY <1>3 DEF Truthful, Recorded
  <2>3. \A k \in c.env.arg.risks : \E i \in issue : i.key = k  BY <1>3 DEF Truthful, Recorded
  <2>4. \A k \in c.env.arg.requests : \E q \in request : q.key = k  BY <1>3 DEF Truthful, Recorded
  <2>. DEFINE new == [completed |-> report.completed \cup c.env.arg.completed,
                      risks |-> report.risks \cup c.env.arg.risks,
                      requests |-> report.requests \cup c.env.arg.requests,
                      progress |-> c.env.arg.progress, summary |-> "computed",
                      version |-> report.version + 1]
  <2>5. report' = new  BY <2>1 DEF ProjectReport
  <2>6. /\ new = [completed |-> new.completed, risks |-> new.risks, requests |-> new.requests,
                 progress |-> new.progress, summary |-> new.summary, version |-> new.version]
        /\ new.completed = report.completed \cup c.env.arg.completed
        /\ new.risks = report.risks \cup c.env.arg.risks
        /\ new.requests = report.requests \cup c.env.arg.requests
    OBVIOUS
  <2>. HIDE DEF new
  <2>7. True(new)  BY <1>1, <2>2, <2>3, <2>4, <2>6
  <2>. HIDE DEF True
  <2>. QED BY <1>2, <2>5, <2>7
<1>4. CASE c.env.op = "edit_log"
  <2>1. EditLog(c)  BY <1>4 DEF Do
  <2>. DEFINE new == [report EXCEPT !.summary = "edited", !.version = @ + 1]
              half == [report EXCEPT !.summary = "edited"]
  <2>2. report' = new  BY <2>1 DEF EditLog
  <2>3. /\ half = [completed |-> half.completed, risks |-> half.risks, requests |-> half.requests,
                  progress |-> half.progress, summary |-> half.summary, version |-> half.version]
        /\ half.completed = report.completed /\ half.risks = report.risks
        /\ half.requests = report.requests /\ half.version = report.version
    BY DEF ReportInv
  <2>4. new = [half EXCEPT !.version = report.version + 1]  BY DEF ReportInv
  <2>. HIDE DEF half, new
  <2>5. /\ new = [completed |-> new.completed, risks |-> new.risks, requests |-> new.requests,
                 progress |-> new.progress, summary |-> new.summary, version |-> new.version]
        /\ new.completed = report.completed /\ new.risks = report.risks
        /\ new.requests = report.requests
    BY <2>3, <2>4
  <2>6. True(new)  BY <1>1, <2>5
  <2>. HIDE DEF True
  <2>. QED BY <1>2, <2>2, <2>6
<1>5. CASE c.env.op \notin {"report", "edit_log"}
  <2>1. report' = report
    BY <1>5 DEF Do, UpdateTask, UpdateDetails, CreateTask, AdjustQuantity, SetQuantity, NewRequest,
                UpdateMaterial, CreateMaterial, RecordDelivery, FollowUp, CreateIssue, UpdateIssue
  <2>. HIDE DEF True
  <2>. QED BY <1>1, <1>2, <2>1
<1>. QED BY <1>3, <1>4, <1>5

-----------------------------------------------------------------------------
(***************************************************************************)
(* The records, from how they were set up through every command.           *)
(***************************************************************************)
RecordsInv ==
  /\ Ledger /\ TasksInv /\ CompletedAfterDependencies
  /\ StockInv /\ Summed /\ Latest
  /\ RequestsInv /\ \A r \in request : Fulfilled(r, activity)
  /\ IssuesInv /\ Recorded /\ ReportInv

LEMMA PerformKeeps ==
  ASSUME RecordsInv, NEW c, Fits(c), Truthful(c), Perform(c)
  PROVE  RecordsInv' /\ TaskMoves /\ StockMoves
<1>1. Fresh(c) /\ Can(c) /\ Record(c) /\ Do(c)  BY DEF Perform
<1>2. Ledger'
  <2>. DEFINE e == [key |-> c.key, env |-> c.env]
  <2>1. activity' = activity \cup {e}  BY <1>1 DEF Record
  <2>2. e = [key |-> e.key, env |-> e.env]  OBVIOUS
  <2>. HIDE DEF e
  <2>3. IsFiniteSet(activity \cup {e})  BY FS_AddElement DEF RecordsInv, Ledger
  <2>. QED BY <2>1, <2>2, <2>3 DEF RecordsInv, Ledger
<1>3. /\ TasksInv' /\ TaskMoves /\ StaysCompleted /\ CompletedAfterDependencies'
      /\ c.env.op = "complete" => c.env.id \in Task /\ task'[c.env.id].status = "completed"
  BY <1>1, TaskEffect DEF RecordsInv
<1>4. StockInv' /\ Summed' /\ Latest' /\ StockMoves  BY <1>1, StockEffect DEF RecordsInv
<1>5. /\ RequestsInv' /\ RequestsStay /\ \A r \in request' : Fulfilled(r, activity')
      /\ c.env.op = "shortage" => \E r \in request' : r.key = c.key
  BY <1>1, RequestEffect DEF RecordsInv
<1>6. IssuesInv' /\ IssuesStay /\ (c.env.op = "issue" => \E i \in issue' : i.key = c.key)
  BY <1>1, IssueEffect DEF RecordsInv
<1>7. Recorded'  BY <1>1, <1>3, <1>5, <1>6, RecordedKept DEF RecordsInv
<1>8. ReportInv'  BY <1>1, <1>3, <1>5, <1>6, ReportEffect DEF RecordsInv
<1>9. (\A r \in request : Fulfilled(r, activity))'  BY <1>5
<1>. QED BY <1>2, <1>3, <1>4, <1>5, <1>6, <1>7, <1>8, <1>9 DEF RecordsInv

\* A decision changes what a request has come to, and nothing else of it.
LEMMA DecidedKeeps ==
  ASSUME RecordsInv, Decided
  PROVE  RecordsInv'
<1>1. PICK r \in request, status \in {"confirmed", "rejected", "delayed"} :
         /\ r.status # "delivered"
         /\ request' = (request \ {r}) \cup {[r EXCEPT !.status = status]}
         /\ UNCHANGED <<activity, task, stock, entries, issue, followUp, report, attempt, user>>
  BY DEF Decided
<1>. DEFINE new == [r EXCEPT !.status = status]
<1>2. request' = (request \ {r}) \cup {new}  BY <1>1
<1>3. IsOrder(r) /\ \A q \in request : q.key = r.key => q = r  BY DEF RecordsInv, RequestsInv
<1>4. /\ IsOrder(new) /\ new.key = r.key /\ new.quantity = r.quantity
      /\ new.delivered = r.delivered /\ new.status = status
  BY <1>3 DEF IsOrder
<1>. HIDE DEF new
<1>5. \A q \in request : \E o \in request' : o.key = q.key  BY <1>2, <1>4
<1>6. RequestsInv'
  <2>1. ASSUME NEW x \in request'
        PROVE  /\ IsOrder(x) /\ (x.key \in Original \/ \E a \in activity : a.key = x.key)
               /\ \A o \in request' : o.key = x.key => o = x
    BY <1>2, <1>3, <1>4 DEF RecordsInv, RequestsInv
  <2>2. \A a \in activity : a.env.op = "deliver" =>
          a.env.arg.quantity \in Nat /\ \E q \in request' : q.key = a.env.arg.request
    BY <1>5 DEF RecordsInv, RequestsInv
  <2>. QED BY <1>1, <2>1, <2>2 DEF RequestsInv
<1>7. \A q \in request' : Fulfilled(q, activity')
  <2>1. Fulfilled(r, activity)  BY DEF RecordsInv
  <2>2. Fulfilled(new, activity)  BY <1>1, <1>4, <2>1 DEF Fulfilled
  <2>. QED BY <1>1, <1>2, <2>2 DEF RecordsInv
<1>8. Ledger' /\ StockInv' /\ Summed' /\ Latest' /\ IssuesInv'
  BY <1>1 DEF RecordsInv, Ledger, StockInv, Summed, Latest, IssuesInv, Exists
<1>9. TasksInv' /\ CompletedAfterDependencies'
  BY <1>1 DEF RecordsInv, TasksInv, CompletedAfterDependencies, Reopened
<1>10. Recorded'
  <2>1. \A t : Reopened(t)' <=> Reopened(t)  BY <1>1 DEF Reopened
  <2>. QED BY <1>1, <1>5, <2>1 DEF RecordsInv, Recorded
<1>11. ReportInv'
  <2>1. \A t : Reopened(t)' <=> Reopened(t)  BY <1>1 DEF Reopened
  <2>2. \A k \in report.requests : \E q \in request' : q.key = k
    BY <1>5 DEF RecordsInv, ReportInv, ReportTellsTheTruth
  <2>. QED BY <1>1, <2>1, <2>2 DEF RecordsInv, ReportInv, ReportTellsTheTruth
<1>12. (\A q \in request : Fulfilled(q, activity))'  BY <1>7
<1>. QED BY <1>6, <1>8, <1>9, <1>10, <1>11, <1>12 DEF RecordsInv

LEMMA UnchangedKeeps ==
  ASSUME RecordsInv, UNCHANGED records
  PROVE  RecordsInv'
<1>. USE DEF RecordsInv
<1>1. /\ activity' = activity /\ task' = task /\ stock' = stock /\ entries' = entries
      /\ request' = request /\ issue' = issue /\ followUp' = followUp /\ report' = report
  BY DEF records
<1>2. Ledger' /\ StockInv' /\ Summed' /\ Latest' /\ IssuesInv' /\ RequestsInv'
  BY <1>1 DEF Ledger, StockInv, Summed, Latest, IssuesInv, Exists, RequestsInv
<1>3. TasksInv' /\ CompletedAfterDependencies'
  BY <1>1 DEF TasksInv, CompletedAfterDependencies, Reopened
<1>4. Recorded' /\ ReportInv'
  BY <1>1 DEF Recorded, ReportInv, ReportTellsTheTruth, Reopened
<1>5. (\A r \in request : Fulfilled(r, activity))'  BY <1>1
<1>. QED BY <1>2, <1>3, <1>4, <1>5

LEMMA SetUpKeeps ==
  ASSUME SetUp(Setup.task, Setup.stock, Setup.request)
  PROVE  RecordsInv
<1>. DEFINE there == {m \in Material : stock[m].version # Never}
            opening(m) == [key |-> <<"opening", m>>, material |-> m, delta |-> stock[m].available,
                           balance |-> stock[m].available, version |-> 0]
<1>1. /\ activity = {} /\ task = Setup.task /\ stock = Setup.stock
      /\ entries = {opening(m) : m \in there} /\ request = Setup.request
      /\ issue = {} /\ followUp = {}
      /\ report = [completed |-> {}, risks |-> {}, requests |-> {}, progress |-> {},
                   summary |-> None, version |-> Never]
  BY DEF SetUp
<1>2. IsProject(Setup)  BY SiteUpdateAssumption
<1>3. Ledger  BY <1>1, FS_EmptySet DEF Ledger
<1>4. TasksInv
  <2>1. task \in [Task -> TaskRecord]  BY <1>1, <1>2 DEF IsProject, TaskRecord
  <2>. QED BY <1>1, <1>2, <2>1 DEF IsProject, TasksInv
<1>5. CompletedAfterDependencies  BY <1>1, <1>2 DEF IsProject, CompletedAfterDependencies
<1>6. /\ stock \in [Material -> StockRecord]
      /\ \A m \in Material : stock[m].available \in Nat /\ stock[m].version \in {Never, 0}
  BY <1>1, <1>2 DEF IsProject, StockRecord
<1>7. ASSUME NEW m \in there
      PROVE  /\ opening(m).material = m /\ opening(m).delta = stock[m].available
             /\ opening(m).balance = stock[m].available /\ opening(m).version = 0
             /\ opening(m) \in entries /\ m \in Material /\ stock[m].version = 0
             /\ stock[m].available \in Nat
  BY <1>1, <1>6
<1>8. ASSUME NEW e \in entries PROVE \E m \in there : e = opening(m)  BY <1>1
<1>9. IsFiniteSet(entries)
  <2>. DEFINE f == [m \in there |-> opening(m)]
  <2>1. f \in Surjection(there, entries)  BY <1>1 DEF Surjection
  <2>2. IsFiniteSet(there)
    <3>1. there \in SUBSET Material  OBVIOUS
    <3>. HIDE DEF there
    <3>. QED BY <3>1, RecordsAssumption, FS_Subset
  <2>. HIDE DEF f, there
  <2>. QED BY <2>1, <2>2, FS_Surjection
<1>. HIDE DEF opening
<1>10. StockInv
  <2>1. \A m \in Material : Exists(m) => stock[m].available >= 0  BY <1>6
  <2>2. ASSUME NEW e \in entries
        PROVE  /\ e.material \in Material /\ e.delta \in Int /\ e.version \in Nat
               /\ e.version <= stock[e.material].version
    <3>1. PICK m \in there : e = opening(m)  BY <1>8
    <3>. QED BY <3>1, <1>7
  <2>. QED BY <1>6, <1>9, <2>1, <2>2 DEF StockInv
<1>11. ASSUME NEW m \in Material, Exists(m) PROVE m \in there /\ Of(m, entries) = {opening(m)}
  <2>1. m \in there  BY <1>11 DEF Exists
  <2>2. \A e \in entries : e.material = m => e = opening(m)  BY <1>7, <1>8
  <2>. QED BY <2>1, <2>2, <1>7 DEF Of
<1>12. Summed
  <2>. SUFFICES ASSUME NEW m \in Material, Exists(m)
                PROVE  stock[m].available = Balance(Of(m, entries))
    BY DEF Summed
  <2>1. m \in there /\ Of(m, entries) = {opening(m)}  BY <1>11
  <2>. DEFINE e == opening(m)
  <2>2. e.delta = stock[m].available /\ e.delta \in Int  BY <2>1, <1>7
  <2>. HIDE DEF e
  <2>3. IsFiniteSet({}) /\ e \notin {} /\ \A x \in {} : x.delta \in Int  BY FS_EmptySet
  <2>4. Balance({} \cup {e}) = e.delta + Balance({})  BY <2>2, <2>3, BalanceGrows
  <2>5. {} \cup {e} = {e}  OBVIOUS
  <2>6. Balance({e}) = e.delta  BY <2>2, <2>4, <2>5, NothingSumsToZero
  <2>. QED BY <2>1, <2>2, <2>6 DEF e
<1>13. Latest
  <2>. SUFFICES ASSUME NEW m \in Material, Exists(m), NEW e \in Of(m, entries)
                PROVE  e.balance = stock[m].available
    BY DEF Latest
  <2>. QED BY <1>7, <1>11
<1>14. ASSUME NEW r \in request
       PROVE  /\ IsOrder(r) /\ r.delivered = 0 /\ r.status # "delivered" /\ r.key \in Original
              /\ \A q \in request : q.key = r.key => q = r
  BY <1>1, <1>2 DEF IsProject, IsOrder, Original
<1>15. RequestsInv  BY <1>1, <1>14 DEF RequestsInv
<1>16. \A r \in request : Fulfilled(r, activity)
  <2>. SUFFICES ASSUME NEW r \in request PROVE Fulfilled(r, activity)  OBVIOUS
  <2>1. For(r.key, activity) = {}  BY <1>1 DEF For
  <2>2. r.delivered <= r.quantity  BY <1>14 DEF IsOrder
  <2>. QED BY <1>14, <2>1, <2>2, NothingSumsToZero DEF Fulfilled
<1>17. IssuesInv /\ Recorded /\ ReportInv
  BY <1>1 DEF IssuesInv, Recorded, ReportInv, ReportTellsTheTruth
<1>. QED BY <1>3, <1>4, <1>5, <1>10, <1>12, <1>13, <1>15, <1>16, <1>17 DEF RecordsInv

-----------------------------------------------------------------------------
(***************************************************************************)
(* The attempts: what they have read, have to send and have been told.     *)
(***************************************************************************)
IsAttempt(u, a) ==
  /\ a = [pc |-> a.pc, facts |-> a.facts, seen |-> a.seen, todo |-> a.todo, told |-> a.told]
  /\ IsList(a.todo)
  /\ a.pc # "idle" => /\ a.facts \in Interpretations[u] /\ IsContext(a.seen)
                      /\ \A c \in ToSet(a.todo) : IsStep(c, a.seen)

\* What was read is there still, or its version has been counted on since.
SeenBefore(seen) ==
  /\ \A t \in Task : seen.task[t].status # "absent" =>
       /\ task[t].status # "absent"
       /\ task[t] = seen.task[t] \/ seen.task[t].version < task[t].version
  /\ \A m \in Material : stock[m] = seen.stock[m] \/ seen.stock[m].version < stock[m].version

Knows(a) ==
  /\ \A c \in ToSet(a.todo) : Truthful(c)
  /\ \A c \in a.told : \E e \in activity : e.key = c.key /\ e.env = c.env
  /\ a.pc # "idle" => IsContext(a.seen) /\ SeenBefore(a.seen)

AttemptsInv ==
  /\ attempt = [u \in Update |-> [n \in 1..MaxAttempts |-> attempt[u][n]]]
  /\ \A u \in Update, n \in 1..MaxAttempts : IsAttempt(u, attempt[u][n]) /\ Knows(attempt[u][n])

SiteUpdateInv == RecordsInv /\ AttemptsInv

\* What is written down stays so, and what was read has been so.
Later ==
  /\ activity \subseteq activity'
  /\ \A seen : IsContext(seen) /\ SeenBefore(seen) => SeenBefore(seen)'

LEMMA PerformIsLater ==
  ASSUME RecordsInv, TaskMoves, StockMoves, activity \subseteq activity'
  PROVE  Later
<1>1. ASSUME NEW seen, IsContext(seen), SeenBefore(seen) PROVE SeenBefore(seen)'
  <2>1. ASSUME NEW t \in Task, seen.task[t].status # "absent"
        PROVE  /\ task'[t].status # "absent"
               /\ task'[t] = seen.task[t] \/ seen.task[t].version < task'[t].version
    <3>1. task[t].version \in Nat /\ seen.task[t].version \in Nat
      BY <1>1 DEF RecordsInv, TasksInv, TaskRecord, IsContext
    <3>2. /\ task[t].status # "absent"
          /\ task[t] = seen.task[t] \/ seen.task[t].version < task[t].version
      BY <1>1, <2>1 DEF SeenBefore
    <3>3. task'[t] = task[t] \/ (task'[t].version = task[t].version + 1 /\ task'[t].status # "absent")
      BY <3>2 DEF TaskMoves
    <3>. QED BY <3>1, <3>2, <3>3
  <2>2. ASSUME NEW m \in Material
        PROVE  stock'[m] = seen.stock[m] \/ seen.stock[m].version < stock'[m].version
    <3>1. stock[m].version \in {Never} \cup Nat /\ seen.stock[m].version \in {Never} \cup Nat
      BY <1>1 DEF RecordsInv, StockInv, StockRecord, IsContext
    <3>2. stock[m] = seen.stock[m] \/ seen.stock[m].version < stock[m].version
      BY <1>1, <2>2 DEF SeenBefore
    <3>3. stock'[m] = stock[m] \/ stock'[m].version = stock[m].version + 1
      BY DEF StockMoves
    <3>. QED BY <3>1, <3>2, <3>3 DEF Never
  <2>. QED BY <2>1, <2>2 DEF SeenBefore
<1>. QED BY <1>1 DEF Later

LEMMA UnchangedIsLater ==
  ASSUME UNCHANGED <<activity, task, stock>>
  PROVE  Later
BY DEF Later, SeenBefore

\* Later, what an attempt knows is true still.
LEMMA KnowledgeStays ==
  ASSUME Later, NEW a, Knows(a)
  PROVE  Knows(a)'
<1>1. \A c \in ToSet(a.todo) : Truthful(c)'  BY DEF Knows, Truthful, Later
<1>2. \A c \in a.told : \E e \in activity' : e.key = c.key /\ e.env = c.env
  BY DEF Knows, Later
<1>3. a.pc # "idle" => IsContext(a.seen) /\ SeenBefore(a.seen)'  BY DEF Knows, Later
<1>. QED BY <1>1, <1>2, <1>3 DEF Knows

\* An attempt takes a step, while what all of them know stays true.
LEMMA GotoKeeps ==
  ASSUME AttemptsInv, NEW u \in Update, NEW n \in 1..MaxAttempts, NEW a, Goto(u, n, a),
         IsAttempt(u, a), Knows(a)', Later
  PROVE  AttemptsInv'
<1>1. attempt' = [attempt EXCEPT ![u][n] = a]  BY DEF Goto
<1>2. attempt = [v \in Update |-> [k \in 1..MaxAttempts |-> attempt[v][k]]]  BY DEF AttemptsInv
<1>3. attempt' = [v \in Update |-> [k \in 1..MaxAttempts |-> attempt'[v][k]]]  BY <1>1, <1>2
<1>4. ASSUME NEW v \in Update, NEW k \in 1..MaxAttempts
      PROVE  attempt'[v][k] = IF v = u /\ k = n THEN a ELSE attempt[v][k]
  BY <1>1, <1>2
<1>5. ASSUME NEW v \in Update, NEW k \in 1..MaxAttempts
      PROVE  IsAttempt(v, attempt'[v][k]) /\ Knows(attempt[v][k])'
  <2>. DEFINE b == attempt[v][k]
              d == attempt'[v][k]
  <2>1. CASE v = u /\ k = n
    <3>1. d = a  BY <1>4, <2>1
    <3>. QED BY <2>1, <3>1
  <2>2. CASE ~(v = u /\ k = n)
    <3>1. d = b  BY <1>4, <2>2
    <3>2. IsAttempt(v, b) /\ Knows(b)  BY DEF AttemptsInv
    <3>. QED BY <3>1, <3>2, KnowledgeStays
  <2>. QED BY <2>1, <2>2
<1>. QED BY <1>3, <1>5 DEF AttemptsInv

LEMMA OthersKeep ==
  ASSUME AttemptsInv, UNCHANGED attempt, Later
  PROVE  AttemptsInv'
<1>1. \A u \in Update, n \in 1..MaxAttempts : IsAttempt(u, attempt'[u][n])  BY DEF AttemptsInv
<1>2. ASSUME NEW u \in Update, NEW n \in 1..MaxAttempts PROVE Knows(attempt[u][n])'
  <2>. DEFINE a == attempt[u][n]
              b == attempt'[u][n]
  <2>1. Knows(a)  BY DEF AttemptsInv
  <2>2. b = a  OBVIOUS
  <2>. QED BY <2>1, <2>2, KnowledgeStays
<1>3. attempt' = [u \in Update |-> [n \in 1..MaxAttempts |-> attempt'[u][n]]]  BY DEF AttemptsInv
<1>. QED BY <1>1, <1>2, <1>3 DEF AttemptsInv

\* An attempt whose list is another one.
LEMMA ListSet ==
  ASSUME NEW u, NEW a, IsAttempt(u, a), NEW todo, NEW new, new = [a EXCEPT !.todo = todo]
  PROVE  /\ new.pc = a.pc /\ new.facts = a.facts /\ new.seen = a.seen /\ new.told = a.told
         /\ new.todo = todo
         /\ new = [pc |-> new.pc, facts |-> new.facts, seen |-> new.seen, todo |-> new.todo,
                   told |-> new.told]
BY DEF IsAttempt

LEMMA PcSet ==
  ASSUME NEW u, NEW a, IsAttempt(u, a), NEW pc, NEW new, new = [a EXCEPT !.pc = pc]
  PROVE  /\ new.pc = pc /\ new.facts = a.facts /\ new.seen = a.seen /\ new.told = a.told
         /\ new.todo = a.todo
         /\ new = [pc |-> new.pc, facts |-> new.facts, seen |-> new.seen, todo |-> new.todo,
                   told |-> new.told]
BY DEF IsAttempt

\* What is left to send after a step of the list.
LEMMA OnwardFits ==
  ASSUME SiteUpdateInv, NEW u \in Update, NEW n \in 1..MaxAttempts,
         Is(u, n, "working"), attempt[u][n].todo # <<>>
  PROVE  /\ IsStep(Current(u, n), attempt[u][n].seen) /\ Truthful(Current(u, n))
         /\ IsList(Onward(u, n))
         /\ \A c \in ToSet(Onward(u, n)) : IsStep(c, attempt[u][n].seen) /\ Truthful(c)
<1>. DEFINE a == attempt[u][n]
            rest == Tail(a.todo)
            next == [Head(rest) EXCEPT !.minimum = stock[Head(rest).env.id].minimum]
<1>1. /\ IsList(a.todo) /\ \A c \in ToSet(a.todo) : IsStep(c, a.seen) /\ Truthful(c)
  BY DEF SiteUpdateInv, AttemptsInv, IsAttempt, Knows, Is
<1>2. /\ IsList(rest) /\ ToSet(rest) \subseteq ToSet(a.todo) /\ Head(a.todo) \in ToSet(a.todo)
  <2>. HIDE DEF a
  <2>1. a.todo # <<>>  BY DEF a
  <2>. QED BY <1>1, <2>1, TailList
<1>3. IsStep(Current(u, n), a.seen) /\ Truthful(Current(u, n))  BY <1>1, <1>2 DEF Current
<1>4. ASSUME rest # <<>>, Head(rest).env.op = "assess"
      PROVE  IsStep(next, a.seen) /\ Truthful(next)
  <2>. DEFINE h == Head(rest)
              m == h.env.id
  <2>1. h \in ToSet(rest)
    <3>. HIDE DEF a, rest
    <3>. QED BY <1>2, <1>4, TailList DEF h
  <2>2. IsAssessment(h)  BY <1>1, <1>2, <1>4, <2>1 DEF IsStep
  <2>3. stock[m].minimum \in Nat
    BY <2>2 DEF IsAssessment, SiteUpdateInv, RecordsInv, StockInv, StockRecord
  <2>. HIDE DEF h, m
  <2>. DEFINE k == stock[m].minimum
              new == [h EXCEPT !.minimum = k]
  <2>4. IsAssessment(new)
    <3>. HIDE DEF k
    <3>. QED BY <2>2, <2>3 DEF IsAssessment, k
  <2>5. new = next  BY DEF h, m
  <2>. HIDE DEF new
  <2>. QED BY <2>4, <2>5 DEF IsStep, Truthful, IsAssessment
<1>5. CASE rest # <<>> /\ Head(rest).env.op = "assess" /\ Current(u, n).env.op # "assess"
  <2>1. Onward(u, n) = <<next>> \o Tail(rest)  BY <1>5 DEF Onward
  <2>2. IsList(Tail(rest)) /\ ToSet(Tail(rest)) \subseteq ToSet(rest)
    <3>. HIDE DEF a, rest
    <3>. QED BY <1>2, <1>5, TailList
  <2>3. IsStep(next, a.seen) /\ Truthful(next)  BY <1>4, <1>5
  <2>. HIDE DEF next, rest, a
  <2>4. IsList(<<next>>) /\ ToSet(<<next>>) = {next}  BY SingleList
  <2>5. /\ IsList(<<next>> \o Tail(rest))
        /\ ToSet(<<next>> \o Tail(rest)) \subseteq {next} \cup ToSet(Tail(rest))
    BY <2>2, <2>4, ConcatList
  <2>. QED BY <1>1, <1>2, <1>3, <2>1, <2>2, <2>3, <2>5 DEF a
<1>6. CASE ~(rest # <<>> /\ Head(rest).env.op = "assess" /\ Current(u, n).env.op # "assess")
  <2>1. Onward(u, n) = rest  BY <1>6 DEF Onward
  <2>. QED BY <1>1, <1>2, <1>3, <2>1
<1>. QED BY <1>5, <1>6

\* One attempt takes a command off its list and remembers it.
LEMMA AdvanceKeeps ==
  ASSUME SiteUpdateInv, NEW u \in Update, NEW n \in 1..MaxAttempts, Sending(u, n), Advance(u, n),
         Later, \E e \in activity' : e.key = Current(u, n).key /\ e.env = Current(u, n).env
  PROVE  AttemptsInv'
<1>1. PICK a, c, todo : a = attempt[u][n] /\ c = Current(u, n) /\ todo = Onward(u, n)  OBVIOUS
<1>2. IsAttempt(u, a) /\ Knows(a) /\ a.pc = "working"
  BY <1>1 DEF SiteUpdateInv, AttemptsInv, Sending, Is
<1>3. IsList(todo) /\ \A d \in ToSet(todo) : IsStep(d, a.seen) /\ Truthful(d)
  BY <1>1, OnwardFits DEF Sending
<1>. DEFINE half == [a EXCEPT !.todo = todo]
            new == [half EXCEPT !.told = a.told \cup {c}]
<1>5. /\ half.pc = a.pc /\ half.facts = a.facts /\ half.seen = a.seen /\ half.told = a.told
      /\ half.todo = todo
      /\ half = [pc |-> half.pc, facts |-> half.facts, seen |-> half.seen, todo |-> half.todo,
                 told |-> half.told]
  BY <1>2 DEF IsAttempt
<1>6. /\ new.pc = a.pc /\ new.facts = a.facts /\ new.seen = a.seen /\ new.told = a.told \cup {c}
      /\ new.todo = todo
      /\ new = [pc |-> new.pc, facts |-> new.facts, seen |-> new.seen, todo |-> new.todo,
                told |-> new.told]
  <2>. HIDE DEF half
  <2>. QED BY <1>5
<1>7. Goto(u, n, new)
  <2>1. Goto(u, n, [a EXCEPT !.todo = todo, !.told = @ \cup {c}])  BY <1>1 DEF Advance
  <2>2. [a EXCEPT !.todo = todo, !.told = @ \cup {c}] = new  BY <1>2 DEF IsAttempt
  <2>. HIDE DEF new
  <2>. QED BY <2>1, <2>2
<1>. HIDE DEF new, half
<1>8. IsAttempt(u, new)  BY <1>2, <1>3, <1>6 DEF IsAttempt
<1>9. \A d \in ToSet(todo) : Truthful(d)'  BY <1>3 DEF Truthful, Later
<1>10. \A d \in a.told \cup {c} : \E e \in activity' : e.key = d.key /\ e.env = d.env
  <2>1. \A d \in a.told : \E e \in activity' : e.key = d.key /\ e.env = d.env
    BY <1>2 DEF Knows, Later
  <2>2. \E e \in activity' : e.key = c.key /\ e.env = c.env  BY <1>1
  <2>. QED BY <2>1, <2>2
<1>11. IsContext(a.seen) /\ SeenBefore(a.seen)'  BY <1>2 DEF Knows, Later
<1>12. Knows(new)'  BY <1>6, <1>9, <1>10, <1>11 DEF Knows
<1>13. AttemptsInv  BY DEF SiteUpdateInv
<1>. QED BY <1>7, <1>8, <1>12, <1>13, GotoKeeps

LEMMA FocusIsTasks ==
  ASSUME NEW u \in Update, NEW facts \in Interpretations[u], NEW seen
  PROVE  Focus(facts, seen) \subseteq Task
<1>1. \A f \in ToSet(Resolved(facts.focus, seen)) : f.task \in Task
  BY SiteUpdateAssumption, ResolvedList DEF IsReading, Visible
<1>. QED BY <1>1 DEF Focus

\* A list of the elements of a finite set.
LEMMA SetToSeqList ==
  ASSUME NEW S, IsFiniteSet(S)
  PROVE  IsList(SetToSeq(S)) /\ ToSet(SetToSeq(S)) \subseteq S
<1>. DEFINE N == Cardinality(S)
<1>1. N \in Nat /\ ExistsBijection(1..N, S)  BY FS_CardinalityType
<1>2. PICK g : g \in Bijection(1..N, S)  BY <1>1 DEF ExistsBijection
<1>3. g \in [1..N -> S] /\ \A i, j \in 1..N : g[i] = g[j] => i = j
  BY <1>2 DEF Bijection, Injection, Surjection, IsInjective
<1>4. IsInjective(g)  BY <1>3 DEF IsInjective
<1>5. SetToSeq(S) \in [1..N -> S]  BY <1>3, <1>4 DEF SetToSeq
<1>6. SetToSeq(S) \in Seq(S)  BY <1>1, <1>5
<1>. QED BY <1>6, ListOf

LEMMA OneAndTwo ==
  ASSUME NEW x, NEW y, NEW z
  PROVE  <<x>> \o <<y, z>> = <<x, y, z>>
<1>. DEFINE S == {x, y, z}
            l == <<x>>
            r == <<y, z>>
            k == <<x, y, z>>
<1>1. l \in Seq(S) /\ r \in Seq(S) /\ k \in Seq(S)  OBVIOUS
<1>2. Len(l) = 1 /\ Len(r) = 2 /\ Len(k) = 3  OBVIOUS
<1>3. l[1] = x /\ r[1] = y /\ r[2] = z /\ k[1] = x /\ k[2] = y /\ k[3] = z  OBVIOUS
<1>. HIDE DEF S, l, r, k
<1>4. /\ l \o r \in Seq(S) /\ Len(l \o r) = Len(l) + Len(r)
      /\ \A i \in 1..(Len(l) + Len(r)) : (l \o r)[i] = IF i <= Len(l) THEN l[i] ELSE r[i - Len(l)]
  BY <1>1, ConcatProperties
<1>5. Len(l \o r) = 3 /\ \A i \in 1..3 : (l \o r)[i] = IF i <= 1 THEN l[i] ELSE r[i - 1]
  BY <1>2, <1>4
<1>6. \A i \in 1..3 : i = 1 \/ i = 2 \/ i = 3  OBVIOUS
<1>7. (l \o r)[1] = x /\ (l \o r)[2] = y /\ (l \o r)[3] = z  BY <1>3, <1>5
<1>8. \A i \in 1..3 : (l \o r)[i] = k[i]  BY <1>3, <1>6, <1>7
<1>9. l \o r = k  BY <1>1, <1>2, <1>4, <1>5, <1>8, SeqEqual
<1>. QED BY <1>9 DEF l, r, k

\* What a stock below the need asks for.
LEMMA AskFits ==
  ASSUME NEW u \in Update, NEW m \in Material, NEW arg, arg.quantity \in Nat, NEW seen
  PROVE  LET c == Command(u, <<"shortage", m>>, "shortage", m, arg, 0)
         IN IsStep(c, seen) /\ Truthful(c)
<1>. DEFINE c == Command(u, <<"shortage", m>>, "shortage", m, arg, 0)
<1>1. IsCommand(c) /\ c.env.op = "shortage" /\ c.env.id = m /\ c.env.arg = arg
  BY SiteUpdateAssumption DEF Command, IsCommand
<1>2. c.key \notin Original
  <2>1. c.key = <<u>> \o <<"shortage", m>>  BY DEF Command
  <2>2. <<u>> \o <<"shortage", m>> = <<u, "shortage", m>>  BY OneAndTwo
  <2>. QED BY <2>1, <2>2, SiteUpdateAssumption DEF Original
<1>. HIDE DEF c
<1>3. Fits(c)  BY <1>1, <1>2 DEF Fits
<1>4. IsStep(c, seen) /\ Truthful(c)  BY <1>1, <1>3 DEF IsStep, AsSeen, Truthful
<1>. QED BY <1>4 DEF c

LEMMA AssessKeeps ==
  ASSUME SiteUpdateInv, NEW u \in Update, NEW n \in 1..MaxAttempts, Assess(u, n)
  PROVE  AttemptsInv'
<1>. DEFINE s == Current(u, n)
            m == s.env.id
            a == attempt[u][n]
            focus == Focus(a.facts, a.seen)
            need == Required(m, focus, s.minimum)
            net == IF stock[m].available > Reserved THEN stock[m].available - Reserved ELSE 0
            arg == [quantity |-> need - net, need |-> need, net |-> net, evidence |-> s.evidence]
            ask == Command(u, <<"shortage", m>>, "shortage", m, arg, 0)
            risk(t) == IssueCommand(u, <<"material_risk", m, t>>, "delay_risk", {t}, "stock")
            R == {risk(t) : t \in AtRisk(m, focus)}
            first == IF s.reported < need /\ net < need THEN <<ask>> \o SetToSeq(R) ELSE <<>>
            new == [a EXCEPT !.todo = first \o Onward(u, n)]
<1>1. Is(u, n, "working") /\ a.todo # <<>> /\ s.env.op = "assess" /\ Goto(u, n, new)
  BY DEF Assess
<1>2. IsAttempt(u, a) /\ Knows(a) /\ a.pc = "working"
  BY <1>1 DEF SiteUpdateInv, AttemptsInv, Is
<1>3. /\ IsStep(s, a.seen) /\ IsList(Onward(u, n))
      /\ \A d \in ToSet(Onward(u, n)) : IsStep(d, a.seen) /\ Truthful(d)
  BY <1>1, OnwardFits
<1>4. m \in Material /\ s.minimum \in Nat /\ s.reported \in Nat  BY <1>1, <1>3 DEF IsStep, IsAssessment
<1>5. focus \subseteq Task  BY <1>2, FocusIsTasks DEF IsAttempt
<1>6. need \in Int  BY <1>4, <1>5, RequiredType
<1>7. net \in Nat
  <2>1. stock[m].available \in Int /\ Reserved \in Nat
    BY <1>4, RecordsAssumption DEF SiteUpdateInv, RecordsInv, StockInv, StockRecord
  <2>. QED BY <2>1
<1>8. AtRisk(m, focus) \subseteq Task  BY <1>5 DEF AtRisk
<1>9. IsFiniteSet(R) /\ \A d \in R : IsStep(d, a.seen) /\ Truthful(d)
  <2>1. IsFiniteSet(R)
    <3>. DEFINE T == AtRisk(m, focus)
                f == [t \in T |-> risk(t)]
    <3>1. f \in Surjection(T, R)  BY DEF Surjection
    <3>2. IsFiniteSet(T)  BY <1>8, RecordsAssumption, FS_Subset
    <3>. HIDE DEF f, T, R
    <3>. QED BY <3>1, <3>2, FS_Surjection
  <2>2. ASSUME NEW t \in Task PROVE IsStep(risk(t), a.seen) /\ Truthful(risk(t))
    <3>1. Planned(risk(t), a.seen)  BY IssueFits
    <3>. QED BY <3>1 DEF Planned, Truthful
  <2>. HIDE DEF risk
  <2>. QED BY <1>8, <2>1, <2>2
<1>10. IsList(first) /\ \A d \in ToSet(first) : IsStep(d, a.seen) /\ Truthful(d)
  <2>1. CASE s.reported < need /\ net < need
    <3>1. arg.quantity \in Nat  BY <1>6, <1>7, <2>1
    <3>2. IsStep(ask, a.seen) /\ Truthful(ask)
      <4>. HIDE DEF arg
      <4>. QED BY <1>4, <3>1, AskFits
    <3>. HIDE DEF ask, R, a
    <3>3. IsList(<<ask>>) /\ ToSet(<<ask>>) = {ask}  BY SingleList
    <3>4. IsList(SetToSeq(R)) /\ ToSet(SetToSeq(R)) \subseteq R  BY <1>9, SetToSeqList
    <3>5. first = <<ask>> \o SetToSeq(R)  BY <2>1
    <3>6. /\ IsList(<<ask>> \o SetToSeq(R))
          /\ ToSet(<<ask>> \o SetToSeq(R)) \subseteq ToSet(<<ask>>) \cup ToSet(SetToSeq(R))
      BY <3>3, <3>4, ConcatList
    <3>. HIDE DEF first
    <3>. QED BY <1>9, <3>2, <3>3, <3>4, <3>5, <3>6
  <2>2. CASE ~(s.reported < need /\ net < need)
    <3>1. first = <<>>  BY <2>2
    <3>. QED BY <3>1, SingleList
  <2>. QED BY <2>1, <2>2
<1>. HIDE DEF first
<1>11. /\ IsList(first \o Onward(u, n))
       /\ \A d \in ToSet(first \o Onward(u, n)) : IsStep(d, a.seen) /\ Truthful(d)
  BY <1>3, <1>10, ConcatList
<1>12. UNCHANGED <<activity, task, stock>>  BY DEF Assess, records
<1>13. Later  BY <1>12, UnchangedIsLater
<1>14. /\ new.pc = a.pc /\ new.facts = a.facts /\ new.seen = a.seen /\ new.told = a.told
       /\ new.todo = first \o Onward(u, n)
       /\ new = [pc |-> new.pc, facts |-> new.facts, seen |-> new.seen, todo |-> new.todo,
                 told |-> new.told]
  <2>. DEFINE todo == first \o Onward(u, n)
  <2>1. new = [a EXCEPT !.todo = todo]  OBVIOUS
  <2>. HIDE DEF a, new, todo
  <2>2. new.todo = todo  BY <1>2, <2>1, ListSet
  <2>3. /\ new.pc = a.pc /\ new.facts = a.facts /\ new.seen = a.seen /\ new.told = a.told
        /\ new = [pc |-> new.pc, facts |-> new.facts, seen |-> new.seen, todo |-> new.todo,
                  told |-> new.told]
    BY <1>2, <2>1, ListSet
  <2>. QED BY <2>2, <2>3 DEF todo
<1>. HIDE DEF new
<1>15. IsAttempt(u, new)  BY <1>2, <1>11, <1>14 DEF IsAttempt
<1>16. Knows(new)  BY <1>2, <1>11, <1>14 DEF Knows
<1>17. PICK b : b = new  OBVIOUS
<1>18. Goto(u, n, b) /\ IsAttempt(u, b) /\ Knows(b)  BY <1>1, <1>15, <1>16, <1>17
<1>19. Knows(b)'  BY <1>13, <1>18, KnowledgeStays
<1>20. AttemptsInv  BY DEF SiteUpdateInv
<1>. QED BY <1>13, <1>18, <1>19, <1>20, GotoKeeps

LEMMA BeginKeeps ==
  ASSUME SiteUpdateInv, NEW u \in Update, NEW n \in 1..MaxAttempts, Begin(u, n)
  PROVE  AttemptsInv'
<1>1. PICK seen : seen = [task |-> task, stock |-> stock]  OBVIOUS
<1>2. PICK facts \in Interpretations[u] :
         Goto(u, n, [pc |-> "working", facts |-> facts, seen |-> seen,
                     todo |-> Plan(u, facts, seen), told |-> {}])
  BY <1>1 DEF Begin
<1>3. PICK new : new = [pc |-> "working", facts |-> facts, seen |-> seen,
                   todo |-> Plan(u, facts, seen), told |-> {}]
  OBVIOUS
<1>4. seen.task = task /\ seen.stock = stock /\ IsContext(seen)
  BY <1>1 DEF SiteUpdateInv, RecordsInv, TasksInv, StockInv, IsContext
<1>5. /\ IsList(Plan(u, facts, seen))
      /\ \A c \in ToSet(Plan(u, facts, seen)) : Planned(c, seen)
  BY <1>4, PlanFits
<1>6. /\ new.pc = "working" /\ new.facts = facts /\ new.seen = seen /\ new.told = {}
      /\ new.todo = Plan(u, facts, seen)
      /\ new = [pc |-> new.pc, facts |-> new.facts, seen |-> new.seen, todo |-> new.todo,
                told |-> new.told]
  BY <1>3
<1>7. IsAttempt(u, new)  BY <1>4, <1>5, <1>6 DEF IsAttempt, Planned
<1>8. SeenBefore(seen)  BY <1>4 DEF SeenBefore
<1>9. Knows(new)  BY <1>4, <1>5, <1>6, <1>8 DEF Knows, Planned, Truthful
<1>10. Later
  <2>1. UNCHANGED <<activity, task, stock>>  BY DEF Begin, records
  <2>. QED BY <2>1, UnchangedIsLater
<1>11. Knows(new)'  BY <1>9, <1>10, KnowledgeStays
<1>12. Goto(u, n, new)  BY <1>2, <1>3
<1>. QED BY <1>12, <1>7, <1>10, <1>11, GotoKeeps DEF SiteUpdateInv

LEMMA SendKeeps ==
  ASSUME SiteUpdateInv, NEW u \in Update, NEW n \in 1..MaxAttempts, Send(u, n)
  PROVE  SiteUpdateInv'
<1>1. PICK c : c = Current(u, n)  OBVIOUS
<1>2. Sending(u, n) /\ Perform(c) /\ Advance(u, n)  BY <1>1 DEF Send
<1>3. IsStep(c, attempt[u][n].seen) /\ Truthful(c) /\ c.env.op # "assess"
  BY <1>1, <1>2, OnwardFits DEF Sending
<1>4. Fits(c)  BY <1>3 DEF IsStep, IsAssessment
<1>5. RecordsInv' /\ TaskMoves /\ StockMoves  BY <1>2, <1>3, <1>4, PerformKeeps DEF SiteUpdateInv
<1>6. activity' = activity \cup {[key |-> c.key, env |-> c.env]}  BY <1>2 DEF Perform, Record
<1>7. Later  BY <1>5, <1>6, PerformIsLater DEF SiteUpdateInv
<1>8. \E e \in activity' : e.key = Current(u, n).key /\ e.env = Current(u, n).env
  <2>1. \E e \in activity' : e.key = c.key /\ e.env = c.env
    <3>. DEFINE e == [key |-> c.key, env |-> c.env]
    <3>1. e \in activity' /\ e.key = c.key /\ e.env = c.env  BY <1>6
    <3>. QED BY <3>1
  <2>. QED BY <1>1, <2>1
<1>9. AttemptsInv'  BY <1>2, <1>7, <1>8, AdvanceKeeps
<1>. QED BY <1>5, <1>9 DEF SiteUpdateInv

LEMMA ResendKeeps ==
  ASSUME SiteUpdateInv, NEW u \in Update, NEW n \in 1..MaxAttempts, Resend(u, n)
  PROVE  AttemptsInv'
<1>1. Sending(u, n) /\ Replays(Current(u, n)) /\ Advance(u, n) /\ UNCHANGED records
  BY DEF Resend
<1>2. UNCHANGED <<activity, task, stock>>  BY <1>1 DEF records
<1>3. Later  BY <1>2, UnchangedIsLater
<1>4. \E e \in activity' : e.key = Current(u, n).key /\ e.env = Current(u, n).env
  BY <1>1, <1>2 DEF Replays, Known, Conflicts
<1>. QED BY <1>1, <1>3, <1>4, AdvanceKeeps

\* An attempt stops: refused, finished or dead.
LEMMA StopKeeps ==
  ASSUME SiteUpdateInv, NEW u \in Update, NEW n \in 1..MaxAttempts, UNCHANGED records,
         Is(u, n, "working"), NEW pc, Goto(u, n, [attempt[u][n] EXCEPT !.pc = pc])
  PROVE  AttemptsInv'
<1>1. PICK a, new : a = attempt[u][n] /\ new = [a EXCEPT !.pc = pc]  OBVIOUS
<1>2. IsAttempt(u, a) /\ Knows(a) /\ a.pc = "working"
  BY <1>1 DEF SiteUpdateInv, AttemptsInv, Is
<1>3. /\ new.facts = a.facts /\ new.seen = a.seen /\ new.told = a.told /\ new.todo = a.todo
      /\ new = [pc |-> new.pc, facts |-> new.facts, seen |-> new.seen, todo |-> new.todo,
                told |-> new.told]
  BY <1>1, <1>2, PcSet
<1>4. IsAttempt(u, new) /\ Knows(new)  BY <1>2, <1>3 DEF IsAttempt, Knows
<1>5. Later
  <2>1. UNCHANGED <<activity, task, stock>>  BY DEF records
  <2>. QED BY <2>1, UnchangedIsLater
<1>6. Knows(new)'  BY <1>4, <1>5, KnowledgeStays
<1>7. Goto(u, n, new)  BY <1>1
<1>. QED BY <1>4, <1>5, <1>6, <1>7, GotoKeeps DEF SiteUpdateInv

LEMMA SummariseKeeps ==
  ASSUME SiteUpdateInv, NEW u \in Update, NEW n \in 1..MaxAttempts, Summarise(u, n)
  PROVE  AttemptsInv'
<1>. DEFINE arg == [completed |-> {c.env.id : c \in Told(u, n, "complete")},
                    risks |-> {c.key : c \in Told(u, n, "issue")},
                    requests |-> {c.key : c \in Told(u, n, "shortage")},
                    focus |-> attempt[u][n].facts.focus,
                    progress |-> {t \in Task : task[t].status = "in_progress"}]
            c == Command(u, <<"report">>, "report", <<>>, arg, 0)
<1>1. Is(u, n, "working") /\ Goto(u, n, [attempt[u][n] EXCEPT !.todo = <<c>>])
  BY DEF Summarise
<1>2. PICK a : a = attempt[u][n]  OBVIOUS
<1>3. IsAttempt(u, a) /\ Knows(a) /\ a.pc = "working"
  BY <1>1, <1>2 DEF SiteUpdateInv, AttemptsInv, Is
<1>4. IsCommand(c) /\ c.env.op = "report" /\ c.env.arg = arg
  <2>. HIDE DEF arg
  <2>. QED BY SiteUpdateAssumption DEF Command, IsCommand
<1>5. IsStep(c, a.seen)
  <2>. HIDE DEF c
  <2>. QED BY <1>4 DEF IsStep, Fits, AsSeen
<1>6. Truthful(c)
  <2>1. ASSUME NEW op, NEW d \in Told(u, n, op)
        PROVE  \E e \in activity : e.env.op = op /\ e.env = d.env /\ e.key = d.key
    BY <1>2, <1>3, <2>1 DEF Told, Knows
  <2>2. \A t \in arg.completed : \E e \in activity : e.env.op = "complete" /\ e.env.id = t
    <3>. SUFFICES ASSUME NEW d \in Told(u, n, "complete")
                  PROVE  \E e \in activity : e.env.op = "complete" /\ e.env.id = d.env.id
      OBVIOUS
    <3>. QED BY <2>1
  <2>3. \A k \in arg.risks : \E e \in activity : e.env.op = "issue" /\ e.key = k
    <3>. SUFFICES ASSUME NEW d \in Told(u, n, "issue")
                  PROVE  \E e \in activity : e.env.op = "issue" /\ e.key = d.key
      OBVIOUS
    <3>. QED BY <2>1
  <2>4. \A k \in arg.requests : \E e \in activity : e.env.op = "shortage" /\ e.key = k
    <3>. SUFFICES ASSUME NEW d \in Told(u, n, "shortage")
                  PROVE  \E e \in activity : e.env.op = "shortage" /\ e.key = d.key
      OBVIOUS
    <3>. QED BY <2>1
  <2>. HIDE DEF arg, c
  <2>. QED BY <1>4, <2>2, <2>3, <2>4 DEF Truthful
<1>7. PICK d, todo, new : d = c /\ todo = <<d>> /\ new = [a EXCEPT !.todo = todo]  OBVIOUS
<1>8. Goto(u, n, new)  BY <1>1, <1>2, <1>7
<1>9. IsStep(d, a.seen) /\ Truthful(d)  BY <1>5, <1>6, <1>7
<1>. HIDE DEF c
<1>10. /\ new.pc = a.pc /\ new.facts = a.facts /\ new.seen = a.seen /\ new.told = a.told
       /\ new = [pc |-> new.pc, facts |-> new.facts, seen |-> new.seen, todo |-> new.todo,
                 told |-> new.told]
       /\ new.todo = todo
  BY <1>3, <1>7, ListSet
<1>11. IsList(todo) /\ ToSet(todo) = {d}  BY <1>7, SingleList
<1>12. IsAttempt(u, new) /\ Knows(new)  BY <1>3, <1>9, <1>10, <1>11 DEF IsAttempt, Knows
<1>13. Later
  <2>1. UNCHANGED <<activity, task, stock>>  BY DEF Summarise, records
  <2>. QED BY <2>1, UnchangedIsLater
<1>14. Knows(new)'  BY <1>12, <1>13, KnowledgeStays
<1>. QED BY <1>8, <1>12, <1>13, <1>14, GotoKeeps DEF SiteUpdateInv

\* A person's command, as it was sent.
LEMMA UserSendsKeeps ==
  ASSUME SiteUpdateInv, NEW i \in DOMAIN UserCommand, UserSends(i)
  PROVE  SiteUpdateInv'
<1>1. PICK u, c : u = UserCommand[i] /\ c = [u EXCEPT !.expected = user[i]]  OBVIOUS
<1>2. IsRequest(u)  BY <1>1, SiteUpdateAssumption
<1>3. /\ c.key = u.key /\ c.env = u.env /\ c.at = u.at /\ c.quantity = u.quantity
      /\ c = [key |-> c.key, env |-> c.env, expected |-> c.expected, at |-> c.at,
              quantity |-> c.quantity]
  BY <1>1, <1>2 DEF IsRequest
<1>4. IsRequest(c)  BY <1>2, <1>3 DEF IsRequest
<1>5. c.key \notin Original
  <2>1. \A r \in Setup.request : UserCommand[i].key # r.key  BY SiteUpdateAssumption
  <2>. QED BY <1>1, <1>3, <2>1 DEF Original
<1>6. IsCommand(c)  BY <1>4 DEF IsRequest, IsCommand
<1>7. Fits(c)  BY <1>4, <1>5, <1>6 DEF Fits
<1>8. Truthful(c)  BY <1>4 DEF IsRequest, Truthful
<1>9. Perform(c) /\ UNCHANGED attempt  BY <1>1 DEF UserSends
<1>10. RecordsInv' /\ TaskMoves /\ StockMoves  BY <1>7, <1>8, <1>9, PerformKeeps DEF SiteUpdateInv
<1>11. activity' = activity \cup {[key |-> c.key, env |-> c.env]}  BY <1>9 DEF Perform, Record
<1>12. Later  BY <1>10, <1>11, PerformIsLater DEF SiteUpdateInv
<1>13. AttemptsInv'  BY <1>9, <1>12, OthersKeep DEF SiteUpdateInv
<1>. QED BY <1>10, <1>13 DEF SiteUpdateInv

-----------------------------------------------------------------------------
(***************************************************************************)
(* Every behaviour.                                                        *)
(***************************************************************************)
LEMMA InitKeeps == Init => SiteUpdateInv
<1>. SUFFICES ASSUME Init PROVE SiteUpdateInv  OBVIOUS
<1>1. RecordsInv  BY SetUpKeeps DEF Init
<1>2. attempt = [u \in Update |-> [n \in 1..MaxAttempts |-> Idle]]  BY DEF Init
<1>3. PICK a : a = Idle  OBVIOUS
<1>4. a.pc = "idle" /\ a.todo = <<>> /\ a.told = {}
      /\ a = [pc |-> a.pc, facts |-> a.facts, seen |-> a.seen, todo |-> a.todo, told |-> a.told]
  BY <1>3 DEF Idle
<1>5. IsList(<<>>) /\ ToSet(<<>>) = {}  BY SingleList
<1>6. \A u : IsAttempt(u, a) /\ Knows(a)  BY <1>4, <1>5 DEF IsAttempt, Knows
<1>7. AttemptsInv  BY <1>2, <1>3, <1>6 DEF AttemptsInv
<1>. QED BY <1>1, <1>7 DEF SiteUpdateInv

LEMMA NextKeeps == SiteUpdateInv /\ [Next]_vars => SiteUpdateInv'
<1>. SUFFICES ASSUME SiteUpdateInv, [Next]_vars PROVE SiteUpdateInv'  OBVIOUS
<1>1. ASSUME UNCHANGED records, AttemptsInv' PROVE SiteUpdateInv'
  BY <1>1, UnchangedKeeps DEF SiteUpdateInv
<1>2. ASSUME UNCHANGED <<records, attempt>> PROVE SiteUpdateInv'
  <2>1. UNCHANGED <<activity, task, stock>>  BY <1>2 DEF records
  <2>2. Later  BY <2>1, UnchangedIsLater
  <2>3. AttemptsInv'  BY <1>2, <2>2, OthersKeep DEF SiteUpdateInv
  <2>. QED BY <1>1, <1>2, <2>3
<1>3. ASSUME NEW u \in Update, NEW n \in 1..MaxAttempts, AttemptStep(u, n) \/ Die(u, n)
      PROVE  SiteUpdateInv'
  <2>1. CASE Begin(u, n)  BY <1>1, <2>1, BeginKeeps DEF Begin
  <2>2. CASE Send(u, n)  BY <2>2, SendKeeps
  <2>3. CASE Resend(u, n)  BY <1>1, <2>3, ResendKeeps DEF Resend
  <2>4. CASE Fails(u, n)  BY <1>1, <2>4, StopKeeps DEF Fails, Sending
  <2>5. CASE Assess(u, n)  BY <1>1, <2>5, AssessKeeps DEF Assess
  <2>6. CASE Summarise(u, n)  BY <1>1, <2>6, SummariseKeeps DEF Summarise
  <2>7. CASE Finish(u, n)  BY <1>1, <2>7, StopKeeps DEF Finish
  <2>8. CASE Die(u, n)  BY <1>1, <2>8, StopKeeps DEF Die
  <2>. QED BY <1>3, <2>1, <2>2, <2>3, <2>4, <2>5, <2>6, <2>7, <2>8 DEF AttemptStep
<1>4. ASSUME NEW i \in DOMAIN UserCommand, UserReads(i) \/ UserSends(i) PROVE SiteUpdateInv'
  BY <1>2, <1>4, UserSendsKeeps DEF UserReads
<1>5. CASE Decided
  <2>1. RecordsInv'  BY <1>5, DecidedKeeps DEF SiteUpdateInv
  <2>2. UNCHANGED <<activity, task, stock>> /\ UNCHANGED attempt  BY <1>5 DEF Decided
  <2>3. Later  BY <2>2, UnchangedIsLater
  <2>4. AttemptsInv'  BY <2>2, <2>3, OthersKeep DEF SiteUpdateInv
  <2>. QED BY <2>1, <2>4 DEF SiteUpdateInv
<1>6. CASE UNCHANGED vars  BY <1>2, <1>6 DEF vars
<1>. QED BY <1>3, <1>4, <1>5, <1>6 DEF Next

THEOREM SiteUpdateInvariance == Spec => []SiteUpdateInv
BY InitKeeps, NextKeeps, PTL DEF Spec

\* Records are of their types; a completed task is completed in every field, and a
\* follow-up belongs to an issue about the task it is for.
THEOREM RecordsTypeCorrect == Spec => []TypeOK
<1>1. SiteUpdateInv => TypeOK
  <2>. SUFFICES ASSUME SiteUpdateInv PROVE TypeOK  OBVIOUS
  <2>1. \A t \in Task : task[t] \in TaskRecord  BY DEF SiteUpdateInv, RecordsInv, TasksInv
  <2>2. \A t \in Task : /\ task[t].status \in Statuses
                        /\ task[t].percent \in 0..Whole
                        /\ task[t].status = "completed" => task[t].percent = Whole
                        /\ task[t].end # Never <=> task[t].status = "completed"
    BY <2>1 DEF SiteUpdateInv, RecordsInv, TasksInv, TaskRecord
  <2>3. \A m \in Material : /\ stock[m].available \in Int
                            /\ Exists(m) => stock[m].available >= 0
    BY DEF SiteUpdateInv, RecordsInv, StockInv, StockRecord
  <2>4. \A i \in issue : i.tasks \subseteq Task  BY DEF SiteUpdateInv, RecordsInv, IssuesInv
  <2>5. \A f \in followUp : \E i \in issue : i.key = f.issue /\ f.blocked \in i.tasks
    BY DEF SiteUpdateInv, RecordsInv, IssuesInv
  <2>. QED BY <2>2, <2>3, <2>4, <2>5 DEF TypeOK
<1>. QED BY <1>1, SiteUpdateInvariance, PTL

\* Stock is what the entries of the material ledger sum up to and its latest entry
\* says, whatever people and attempts do to it and in whatever order.
THEOREM StockIsExplained == Spec => []StockExplained
<1>1. SiteUpdateInv => StockExplained  BY ExplainedMeans DEF SiteUpdateInv, RecordsInv
<1>. QED BY <1>1, SiteUpdateInvariance, PTL

\* What a purchase has received is the sum of its deliveries, within what was ordered.
THEOREM DeliveriesAddUp == Spec => []DeliveredAsOrdered
<1>1. SiteUpdateInv => DeliveredAsOrdered  BY DeliveredMeans DEF SiteUpdateInv, RecordsInv
<1>. QED BY <1>1, SiteUpdateInvariance, PTL

\* No task is completed before those it depends on, however reports overlap, unless
\* a person reopened what had been completed.
THEOREM CompletedInOrder == Spec => []CompletedAfterDependencies
<1>1. SiteUpdateInv => CompletedAfterDependencies  BY DEF SiteUpdateInv, RecordsInv
<1>. QED BY <1>1, SiteUpdateInvariance, PTL

\* The daily report says nothing that the records do not, through every retry.
THEOREM ReportIsTrue == Spec => []ReportTellsTheTruth
<1>1. SiteUpdateInv => ReportTellsTheTruth  BY DEF SiteUpdateInv, RecordsInv, ReportInv
<1>. QED BY <1>1, SiteUpdateInvariance, PTL

-----------------------------------------------------------------------------
(***************************************************************************)
(* What a step may not do.                                                 *)
(***************************************************************************)
LEMMA OnlyOneGoes ==
  ASSUME AttemptsInv, NEW u \in Update, NEW n \in 1..MaxAttempts, NEW v \in Update,
         NEW k \in 1..MaxAttempts, NEW a, Goto(v, k, a), attempt'[u][n] # attempt[u][n]
  PROVE  u = v /\ n = k
<1>1. attempt = [w \in Update |-> [j \in 1..MaxAttempts |-> attempt[w][j]]]  BY DEF AttemptsInv
<1>2. attempt' = [attempt EXCEPT ![v][k] = a]  BY DEF Goto
<1>. QED BY <1>1, <1>2

\* A command enters the activity ledger from an attempt's list when it is performed.
LEMMA EntersBySend ==
  ASSUME SiteUpdateInv, Next, NEW u \in Update, NEW n \in 1..MaxAttempts, Sending(u, n),
         attempt'[u][n] # attempt[u][n], Fresh(Current(u, n)),
         \E a \in activity' : a.key = Current(u, n).key
  PROVE  Send(u, n)
<1>. USE DEF SiteUpdateInv
<1>1. ~UNCHANGED activity /\ ~UNCHANGED records  BY DEF Fresh, Known, records
<1>2. ~UNCHANGED attempt  OBVIOUS
<1>3. PICK v \in Update, k \in 1..MaxAttempts : AttemptStep(v, k) \/ Die(v, k)
  BY <1>1, <1>2 DEF Next, UserReads, UserSends, Decided
<1>4. Send(v, k)
  BY <1>1, <1>3 DEF AttemptStep, Begin, Resend, Fails, Assess, Summarise, Finish, Die
<1>5. PICK a : Goto(v, k, a)  BY <1>4 DEF Send, Advance
<1>. QED BY <1>4, <1>5, OnlyOneGoes

LEMMA ReadIsCurrent ==
  ASSUME SiteUpdateInv, NEW u \in Update, NEW n \in 1..MaxAttempts, Send(u, n),
         NEW c, c = Current(u, n), NEW seen, seen = attempt[u][n].seen
  PROVE  /\ c.env.op \in {"progress", "complete"} => task[c.env.id] = seen.task[c.env.id]
         /\ c.env.op = "adjust" => stock[c.env.id] = seen.stock[c.env.id]
<1>1. Sending(u, n) /\ Perform(c)  BY DEF Send
<1>2. IsStep(c, seen) /\ c.env.op # "assess"  BY <1>1, OnwardFits DEF Sending
<1>3. Fits(c) /\ AsSeen(c, seen) /\ Can(c)  BY <1>1, <1>2 DEF IsStep, IsAssessment, Perform
<1>4. IsContext(seen) /\ SeenBefore(seen)
  BY <1>1 DEF SiteUpdateInv, AttemptsInv, Knows, Sending, Is
<1>5. ASSUME c.env.op \in {"progress", "complete"} PROVE task[c.env.id] = seen.task[c.env.id]
  <2>1. c.env.id \in Task /\ seen.task[c.env.id].status # "absent"
    BY <1>3, <1>5 DEF AsSeen, Visible
  <2>2. task[c.env.id].version = seen.task[c.env.id].version
    BY <1>3, <1>5 DEF AsSeen, Can, CanUpdateTask
  <2>3. seen.task[c.env.id].version \in Nat  BY <1>4, <2>1 DEF IsContext, TaskRecord
  <2>4. task[c.env.id] = seen.task[c.env.id] \/ seen.task[c.env.id].version < task[c.env.id].version
    BY <1>4, <2>1 DEF SeenBefore
  <2>5. PICK v : v = task[c.env.id].version  OBVIOUS
  <2>6. ~(seen.task[c.env.id].version < task[c.env.id].version)
    <3>1. v \in Nat /\ seen.task[c.env.id].version = v /\ task[c.env.id].version = v
      BY <2>2, <2>3, <2>5
    <3>2. ~(v < v)  BY <3>1
    <3>. QED BY <3>1, <3>2, Zenon
  <2>. QED BY <2>4, <2>6, Zenon
<1>6. ASSUME c.env.op = "adjust" PROVE stock[c.env.id] = seen.stock[c.env.id]
  <2>1. c.env.id \in Material
    <3>1. IsRequest(c)  BY <1>3, <1>6 DEF Fits
    <3>. QED BY <1>6, <3>1 DEF IsRequest
  <2>2. stock[c.env.id].version = seen.stock[c.env.id].version
    BY <1>3, <1>6 DEF AsSeen, Can, CanAdjust
  <2>3. seen.stock[c.env.id].version \in {Never} \cup Nat  BY <1>4, <2>1 DEF IsContext, StockRecord
  <2>4. stock[c.env.id] = seen.stock[c.env.id]
          \/ seen.stock[c.env.id].version < stock[c.env.id].version
    BY <1>4, <2>1 DEF SeenBefore
  <2>5. PICK v : v = stock[c.env.id].version  OBVIOUS
  <2>6. ~(seen.stock[c.env.id].version < stock[c.env.id].version)
    <3>1. v \in {Never} \cup Nat /\ seen.stock[c.env.id].version = v /\ stock[c.env.id].version = v
      BY <2>2, <2>3, <2>5
    <3>2. ~(v < v)  BY <3>1 DEF Never
    <3>. QED BY <3>1, <3>2, Zenon
  <2>. QED BY <2>4, <2>6, Zenon
<1>. QED BY <1>5, <1>6

\* An attempt writes over the task or the stock it has read and no other: between its
\* context and its transaction, hours and other writers later, nothing got lost.
THEOREM WritesWhatItRead == Spec => NoChangeIsLost
<1>1. SiteUpdateInv /\ [Next]_vars =>
        [\A u \in Update, n \in 1..MaxAttempts :
           LET c == Current(u, n)
               seen == attempt[u][n].seen
           IN (Sending(u, n) /\ attempt'[u][n] # attempt[u][n] /\ Fresh(c)
                 /\ c.key \in {a.key : a \in activity'}) =>
                /\ c.env.op \in {"progress", "complete"} => task[c.env.id] = seen.task[c.env.id]
                /\ c.env.op = "adjust" => stock[c.env.id] = seen.stock[c.env.id]]_vars
  <2>. SUFFICES ASSUME SiteUpdateInv, Next, NEW u \in Update, NEW n \in 1..MaxAttempts,
                       NEW c, c = Current(u, n), NEW seen, seen = attempt[u][n].seen,
                       Sending(u, n), attempt'[u][n] # attempt[u][n], Fresh(c),
                       c.key \in {a.key : a \in activity'}
                PROVE  /\ c.env.op \in {"progress", "complete"} => task[c.env.id] = seen.task[c.env.id]
                       /\ c.env.op = "adjust" => stock[c.env.id] = seen.stock[c.env.id]
    BY Zenon
  <2>1. \E a \in activity' : a.key = Current(u, n).key  OBVIOUS
  <2>2. Send(u, n)  BY <2>1, EntersBySend
  <2>. QED BY <2>2, ReadIsCurrent
<1>. QED BY <1>1, SiteUpdateInvariance, PTL DEF Spec, NoChangeIsLost

-----------------------------------------------------------------------------
(***************************************************************************)
(* What a plan is made of.                                                 *)
(***************************************************************************)
LEMMA ConcatLists ==
  ASSUME NEW s, NEW t, IsList(s), IsList(t)
  PROVE  IsList(s \o t) /\ ToSet(s \o t) = ToSet(s) \cup ToSet(t)
<1>. DEFINE S == ToSet(s) \cup ToSet(t)
<1>1. s \in Seq(S) /\ t \in Seq(S)  BY ListOf
<1>. HIDE DEF S
<1>2. ToSet(s \o t) = ToSet(s) \cup ToSet(t)  BY <1>1, ConcatSet
<1>. QED BY <1>2, ConcatList

LEMMA FlattenHas ==
  ASSUME NEW ss, IsList(ss), \A i \in 1..Len(ss) : IsList(ss[i])
  PROVE  /\ IsList(FlattenSeq(ss))
         /\ \A x \in ToSet(FlattenSeq(ss)) : \E i \in 1..Len(ss) : x \in ToSet(ss[i])
         /\ \A i \in 1..Len(ss) : \A x \in ToSet(ss[i]) : x \in ToSet(FlattenSeq(ss))
<1>. DEFINE S == UNION {ToSet(ss[i]) : i \in 1..Len(ss)}
<1>1. \A i \in 1..Len(ss) : ss[i] \in Seq(S)
  <2>. TAKE i \in 1..Len(ss)
  <2>1. ToSet(ss[i]) \subseteq S  OBVIOUS
  <2>. HIDE DEF S
  <2>. QED BY <2>1, ListOf
<1>. HIDE DEF S
<1>2. ss \in Seq(Seq(S))
  <2>1. ToSet(ss) \subseteq Seq(S)  BY <1>1, ListShape
  <2>. QED BY <2>1, ListOf
<1>3. ASSUME NEW i \in 1..Len(ss), NEW x \in ToSet(ss[i]) PROVE x \in ToSet(FlattenSeq(ss))
  BY <1>2, FlattenCovers
<1>4. /\ IsList(FlattenSeq(ss))
      /\ \A x \in ToSet(FlattenSeq(ss)) : \E i \in 1..Len(ss) : x \in ToSet(ss[i])
  BY FlattenLists
<1>. QED BY <1>3, <1>4

\* A list of one part for every element of a list.
LEMMA PartsList ==
  ASSUME NEW s, IsList(s), NEW ss, DOMAIN ss = DOMAIN s, ss = [i \in DOMAIN s |-> ss[i]]
  PROVE  IsList(ss) /\ Len(ss) = Len(s) /\ Len(s) \in Nat /\ DOMAIN s = 1..Len(s)
<1>1. Len(s) \in Nat /\ DOMAIN s = 1..Len(s)  BY ListShape
<1>2. IsList(ss)  BY <1>1, FunctionIsList
<1>. QED BY <1>1, <1>2, ListShape

\* Of the facts about one task the one with the least number counts.
LEMMA FirstSet ==
  ASSUME NEW s, IsList(s)
  PROVE  /\ \A f \in ToSet(First(s)) :
              \E i \in 1..Len(s) : f = s[i] /\ \A j \in 1..i - 1 : s[j].task # s[i].task
         /\ \A i \in 1..Len(s) :
              (\A j \in 1..i - 1 : s[j].task # s[i].task) => s[i] \in ToSet(First(s))
<1>. DEFINE ss == [i \in DOMAIN s |-> IF \E j \in 1..i - 1 : s[j].task = s[i].task
                                     THEN <<>> ELSE <<s[i]>>]
<1>1. IsList(ss) /\ Len(ss) = Len(s) /\ DOMAIN s = 1..Len(s)
  <2>1. DOMAIN ss = DOMAIN s /\ ss = [i \in DOMAIN s |-> ss[i]]  OBVIOUS
  <2>. HIDE DEF ss
  <2>. QED BY <2>1, PartsList
<1>2. \A i \in 1..Len(s) : ss[i] = IF \E j \in 1..i - 1 : s[j].task = s[i].task
                                   THEN <<>> ELSE <<s[i]>>
  BY <1>1
<1>3. First(s) = FlattenSeq(ss)  BY DEF First
<1>. HIDE DEF ss
<1>4. ASSUME NEW i \in 1..Len(ss) PROVE IsList(ss[i])
  <2>1. ss[i] \in {<<>>, <<s[i]>>}  BY <1>1, <1>2
  <2>. QED BY <2>1, SingleList
<1>5. /\ \A x \in ToSet(First(s)) : \E i \in 1..Len(ss) : x \in ToSet(ss[i])
      /\ \A i \in 1..Len(ss) : \A x \in ToSet(ss[i]) : x \in ToSet(First(s))
  BY <1>1, <1>3, <1>4, FlattenHas
<1>6. ASSUME NEW i \in 1..Len(s)
      PROVE  ToSet(ss[i]) = IF \E j \in 1..i - 1 : s[j].task = s[i].task THEN {} ELSE {s[i]}
  BY <1>2, SingleList
<1>7. ASSUME NEW f \in ToSet(First(s))
      PROVE  \E i \in 1..Len(s) : f = s[i] /\ \A j \in 1..i - 1 : s[j].task # s[i].task
  <2>1. PICK i \in 1..Len(s) : f \in ToSet(ss[i])  BY <1>1, <1>5
  <2>2. ~\E j \in 1..i - 1 : s[j].task = s[i].task  BY <1>6, <2>1
  <2>3. f = s[i]  BY <1>6, <2>1, <2>2
  <2>. QED BY <2>2, <2>3
<1>8. ASSUME NEW i \in 1..Len(s), \A j \in 1..i - 1 : s[j].task # s[i].task
      PROVE  s[i] \in ToSet(First(s))
  <2>1. s[i] \in ToSet(ss[i])  BY <1>6, <1>8
  <2>. QED BY <1>1, <1>5, <2>1
<1>. QED BY <1>7, <1>8

\* A fact that is resolved is a sure one.
LEMMA ResolvedSet ==
  ASSUME NEW s, IsList(s), NEW x
  PROVE  ToSet(Resolved(s, x)) = {f \in ToSet(Actionable(s)) : f.task \in Visible(x)}
<1>. DEFINE p == [i \in DOMAIN s |-> IF s[i].sure /\ s[i].task \in Visible(x) THEN <<s[i]>> ELSE <<>>]
            q == [i \in DOMAIN s |-> IF s[i].sure THEN <<s[i]>> ELSE <<>>]
<1>1. IsList(p) /\ Len(p) = Len(s) /\ DOMAIN s = 1..Len(s)
  <2>1. DOMAIN p = DOMAIN s /\ p = [i \in DOMAIN s |-> p[i]]  OBVIOUS
  <2>. HIDE DEF p
  <2>. QED BY <2>1, PartsList
<1>2. IsList(q) /\ Len(q) = Len(s)
  <2>1. DOMAIN q = DOMAIN s /\ q = [i \in DOMAIN s |-> q[i]]  OBVIOUS
  <2>. HIDE DEF q
  <2>. QED BY <2>1, PartsList
<1>3. \A i \in 1..Len(s) : /\ p[i] = IF s[i].sure /\ s[i].task \in Visible(x) THEN <<s[i]>> ELSE <<>>
                           /\ q[i] = IF s[i].sure THEN <<s[i]>> ELSE <<>>
  BY <1>1
<1>4. Resolved(s, x) = FlattenSeq(p) /\ Actionable(s) = FlattenSeq(q)
  BY DEF Resolved, Actionable, Kept
<1>. HIDE DEF p, q
<1>5. ASSUME NEW i \in 1..Len(s)
      PROVE  /\ IsList(p[i]) /\ IsList(q[i])
             /\ ToSet(p[i]) = {f \in ToSet(q[i]) : f.task \in Visible(x)}
  <2>0. IsList(<<s[i]>>) /\ ToSet(<<s[i]>>) = {s[i]} /\ IsList(<<>>) /\ ToSet(<<>>) = {}
    BY SingleList
  <2>1. CASE s[i].sure /\ s[i].task \in Visible(x)
    <3>1. p[i] = <<s[i]>> /\ q[i] = <<s[i]>>  BY <1>3, <2>1
    <3>. QED BY <2>0, <2>1, <3>1
  <2>2. CASE s[i].sure /\ s[i].task \notin Visible(x)
    <3>1. p[i] = <<>> /\ q[i] = <<s[i]>>  BY <1>3, <2>2
    <3>. QED BY <2>0, <2>2, <3>1
  <2>3. CASE ~s[i].sure
    <3>1. p[i] = <<>> /\ q[i] = <<>>  BY <1>3, <2>3
    <3>. QED BY <2>0, <3>1
  <2>. QED BY <2>1, <2>2, <2>3
<1>6. /\ \A f \in ToSet(FlattenSeq(p)) : \E i \in 1..Len(s) : f \in ToSet(p[i])
      /\ \A i \in 1..Len(s) : \A f \in ToSet(p[i]) : f \in ToSet(FlattenSeq(p))
  BY <1>1, <1>5, FlattenHas
<1>7. /\ \A f \in ToSet(FlattenSeq(q)) : \E i \in 1..Len(s) : f \in ToSet(q[i])
      /\ \A i \in 1..Len(s) : \A f \in ToSet(q[i]) : f \in ToSet(FlattenSeq(q))
  BY <1>1, <1>2, <1>5, FlattenHas
<1>. QED BY <1>4, <1>5, <1>6, <1>7

\* The commands by the facts they are sent for.
Troubles(F) == Actionable(F.issues)
Stocks(F) == Actionable(F.stock)

CompletionArg(f) ==
  [target |-> None, percent |-> Whole, human |-> FALSE, reconciled |-> TRUE, evidence |-> f.evidence]

CompleteCommand(u, f, x) ==
  Command(u, <<"complete", f.task>>, "complete", f.task, CompletionArg(f), x.task[f.task].version)

SafetyCommand(u, F, i) == IssueCommand(u, <<"safety", i>>, "safety", {}, Stops(F)[i])

RaiseCommand(u, i, f) ==
  IssueCommand(u, <<"issue", i, f.type>>, f.type, {f.task} \ {None}, f.evidence)

BlockArg(f) ==
  [target |-> "blocked", percent |-> NoPercent, human |-> FALSE, reconciled |-> FALSE,
   evidence |-> f.evidence]

BlockCommand(u, f, x) ==
  Command(u, <<"blocked", f.task>>, "progress", f.task, BlockArg(f), x.task[f.task].version)

FollowCommand(u, i, f) ==
  Command(u, <<"follow_up", i, f.task>>, "follow_up", f.task,
          [issue |-> <<u, "issue", i, f.type>>], 0)

RiskCommand(u, i, f, x) ==
  IssueCommand(u, <<"impact", i, f.task>>, "delay_risk", Downstream(f.task, x), "impact")

CreateCommand(u, f) ==
  [Command(u, <<"auto_create", f.material>>, "create_material", f.material, <<>>, 0)
     EXCEPT !.quantity = f.quantity]

AdjustCommand(u, f, x) ==
  Command(u, <<"reported_stock", f.material>>, "adjust", f.material,
          [delta |-> f.quantity - x.stock[f.material].available, evidence |-> f.evidence],
          x.stock[f.material].version)

AssessStep(f, x) ==
  [env |-> [op |-> "assess", id |-> f.material], reported |-> f.quantity,
   evidence |-> f.evidence, minimum |-> x.stock[f.material].minimum]

\* The facts that lead to commands.
Raised(F, i, x) == i \in 1..Len(Troubles(F)) /\ {Troubles(F)[i].task} \ {None} \subseteq Visible(x)

Blocker(F, i, x) ==
  Raised(F, i, x) /\ Troubles(F)[i].type = "blocker" /\ Troubles(F)[i].task # None

Stated(F, i, x) ==
  /\ i \in 1..Len(Stocks(F))
  /\ x.stock[Stocks(F)[i].material].version # Never =>
       \A j \in 1..i - 1 : Stocks(F)[j].material # Stocks(F)[i].material

BlockingSet(u, i, f, x) ==
  {c \in {BlockCommand(u, f, x)} : x.task[f.task].status \in {"planned", "in_progress"}}
  \cup {FollowCommand(u, i, f)}
  \cup {c \in {RiskCommand(u, i, f, x)} : Downstream(f.task, x) # {}}

MaterialSet(u, f, x) ==
  {c \in {CreateCommand(u, f)} : x.stock[f.material].version = Never}
  \cup {c \in {AdjustCommand(u, f, x)} : /\ x.stock[f.material].version # Never
                                          /\ f.quantity # x.stock[f.material].available}
  \cup {AssessStep(f, x)}

CompletionSet(u, F, x) == {CompleteCommand(u, f, x) : f \in ToSet(First(Resolved(F.completed, x)))}

IssueSet(u, F, x) ==
  {RaiseCommand(u, i, Troubles(F)[i]) : i \in {i \in 1..Len(Troubles(F)) : Raised(F, i, x)}}
  \cup UNION {BlockingSet(u, i, Troubles(F)[i], x)
              : i \in {i \in 1..Len(Troubles(F)) : Blocker(F, i, x)}}

StockSet(u, F, x) ==
  UNION {MaterialSet(u, Stocks(F)[i], x) : i \in {i \in 1..Len(Stocks(F)) : Stated(F, i, x)}}

SafetySet(u, F) == {SafetyCommand(u, F, i) : i \in 1..Len(Stops(F))}

\* All that an attempt may send for the facts F, having read x, before it has looked
\* at the stock.
PlanSet(u, F, x) ==
  IF Stops(F) # <<>> THEN SafetySet(u, F)
  ELSE CompletionSet(u, F, x) \cup IssueSet(u, F, x) \cup StockSet(u, F, x)

LEMMA BlockingHas ==
  ASSUME NEW u, NEW i, NEW f, NEW x
  PROVE  /\ IsList(Blocking(u, i, f, x))
         /\ ToSet(Blocking(u, i, f, x)) = BlockingSet(u, i, f, x)
<1>1. PICK block, follow, risk : /\ block = BlockCommand(u, f, x) /\ follow = FollowCommand(u, i, f)
                                /\ risk = RiskCommand(u, i, f, x)
  OBVIOUS
<1>. DEFINE first == IF x.task[f.task].status \in {"planned", "in_progress"} THEN <<block>> ELSE <<>>
            last == IF Downstream(f.task, x) # {} THEN <<risk>> ELSE <<>>
<1>2. Blocking(u, i, f, x) = first \o <<follow>> \o last
  BY <1>1 DEF Blocking, BlockCommand, BlockArg, FollowCommand, RiskCommand
<1>3. /\ IsList(first)
      /\ ToSet(first) = {c \in {block} : x.task[f.task].status \in {"planned", "in_progress"}}
  <2>1. CASE x.task[f.task].status \in {"planned", "in_progress"}
    <3>1. first = <<block>>  BY <2>1
    <3>2. IsList(<<block>>) /\ ToSet(<<block>>) = {block}  BY SingleList
    <3>. QED BY <2>1, <3>1, <3>2
  <2>2. CASE ~(x.task[f.task].status \in {"planned", "in_progress"})
    <3>1. first = <<>>  BY <2>2
    <3>. QED BY <2>2, <3>1, SingleList
  <2>. QED BY <2>1, <2>2
<1>4. IsList(last) /\ ToSet(last) = {c \in {risk} : Downstream(f.task, x) # {}}
  <2>1. CASE Downstream(f.task, x) # {}
    <3>1. last = <<risk>>  BY <2>1
    <3>2. IsList(<<risk>>) /\ ToSet(<<risk>>) = {risk}  BY SingleList
    <3>. QED BY <2>1, <3>1, <3>2
  <2>2. CASE ~(Downstream(f.task, x) # {})
    <3>1. last = <<>>  BY <2>2
    <3>. QED BY <2>2, <3>1, SingleList
  <2>. QED BY <2>1, <2>2
<1>5. IsList(<<follow>>) /\ ToSet(<<follow>>) = {follow}  BY SingleList
<1>. HIDE DEF first, last
<1>6. IsList(first \o <<follow>>) /\ ToSet(first \o <<follow>>) = ToSet(first) \cup {follow}
  BY <1>3, <1>5, ConcatLists
<1>7. /\ IsList(first \o <<follow>> \o last)
      /\ ToSet(first \o <<follow>> \o last) = ToSet(first) \cup {follow} \cup ToSet(last)
  BY <1>4, <1>6, ConcatLists
<1>. QED BY <1>1, <1>2, <1>3, <1>4, <1>7 DEF BlockingSet

LEMMA IssuesHave ==
  ASSUME NEW u \in Update, NEW F \in Interpretations[u], NEW x
  PROVE  /\ IsList(Issues(u, F, x))
         /\ ToSet(Issues(u, F, x)) = IssueSet(u, F, x)
<1>. DEFINE fs == Troubles(F)
            N == Len(fs)
            part(i) ==
              IF ~({fs[i].task} \ {None} \subseteq Visible(x)) THEN <<>>
              ELSE <<RaiseCommand(u, i, fs[i])>>
                   \o (IF fs[i].type = "blocker" /\ {fs[i].task} \ {None} # {}
                       THEN Blocking(u, i, fs[i], x) ELSE <<>>)
            ss == [i \in DOMAIN fs |-> part(i)]
            inset(i) == {c \in {RaiseCommand(u, i, fs[i])} : Raised(F, i, x)}
                        \cup {c \in BlockingSet(u, i, fs[i], x) : Blocker(F, i, x)}
<1>1. IsList(fs)  BY SiteUpdateAssumption, ActionableList DEF IsReading, Troubles
<1>2. IsList(ss) /\ Len(ss) = N /\ DOMAIN fs = 1..N
  <2>1. DOMAIN ss = DOMAIN fs /\ ss = [i \in DOMAIN fs |-> ss[i]]  OBVIOUS
  <2>. HIDE DEF ss, fs
  <2>. QED BY <1>1, <2>1, PartsList
<1>3. \A i \in 1..N : ss[i] = part(i)  BY <1>2
<1>4. Issues(u, F, x) = FlattenSeq(ss)  BY DEF Issues, Troubles, RaiseCommand
<1>5. ASSUME NEW i \in 1..N PROVE IsList(part(i)) /\ ToSet(part(i)) = inset(i)
  <2>1. CASE ~Raised(F, i, x)
    <3>1. part(i) = <<>> /\ ~Blocker(F, i, x)  BY <2>1 DEF Raised, Blocker
    <3>. QED BY <2>1, <3>1, SingleList
  <2>2. CASE Raised(F, i, x)
    <3>. DEFINE rest == IF Blocker(F, i, x) THEN Blocking(u, i, fs[i], x) ELSE <<>>
                c == RaiseCommand(u, i, fs[i])
    <3>1. part(i) = <<c>> \o rest  BY <2>2 DEF Raised, Blocker
    <3>2. IsList(rest) /\ ToSet(rest) = {d \in BlockingSet(u, i, fs[i], x) : Blocker(F, i, x)}
      <4>1. CASE Blocker(F, i, x)
        <5>1. rest = Blocking(u, i, fs[i], x)  BY <4>1
        <5>2. /\ IsList(Blocking(u, i, fs[i], x))
              /\ ToSet(Blocking(u, i, fs[i], x)) = BlockingSet(u, i, fs[i], x)
          BY BlockingHas
        <5>. QED BY <4>1, <5>1, <5>2
      <4>2. CASE ~Blocker(F, i, x)
        <5>1. rest = <<>>  BY <4>2
        <5>. QED BY <4>2, <5>1, SingleList
      <4>. QED BY <4>1, <4>2
    <3>. HIDE DEF rest, c
    <3>3. IsList(<<c>>) /\ ToSet(<<c>>) = {c}  BY SingleList
    <3>4. IsList(<<c>> \o rest) /\ ToSet(<<c>> \o rest) = {c} \cup ToSet(rest)
      BY <3>2, <3>3, ConcatLists
    <3>. QED BY <2>2, <3>1, <3>2, <3>4 DEF c
  <2>. QED BY <2>1, <2>2
<1>. HIDE DEF ss, part, inset
<1>6. /\ IsList(FlattenSeq(ss))
      /\ \A c \in ToSet(FlattenSeq(ss)) : \E i \in 1..N : c \in inset(i)
      /\ \A i \in 1..N : \A c \in inset(i) : c \in ToSet(FlattenSeq(ss))
  <2>1. \A i \in 1..Len(ss) : IsList(ss[i])  BY <1>2, <1>3, <1>5
  <2>2. /\ IsList(FlattenSeq(ss))
        /\ \A c \in ToSet(FlattenSeq(ss)) : \E i \in 1..Len(ss) : c \in ToSet(ss[i])
        /\ \A i \in 1..Len(ss) : \A c \in ToSet(ss[i]) : c \in ToSet(FlattenSeq(ss))
    BY <1>2, <2>1, FlattenHas
  <2>. QED BY <1>2, <1>3, <1>5, <2>2
<1>7. ToSet(FlattenSeq(ss)) = UNION {inset(i) : i \in 1..N}  BY <1>6
<1>8. UNION {inset(i) : i \in 1..N} = IssueSet(u, F, x)  BY DEF inset, IssueSet
<1>. QED BY <1>4, <1>6, <1>7, <1>8

LEMMA MaterialsHave ==
  ASSUME NEW u \in Update, NEW F \in Interpretations[u], NEW x, IsContext(x)
  PROVE  /\ IsList(Materials(u, F, x))
         /\ ToSet(Materials(u, F, x)) = StockSet(u, F, x)
<1>. DEFINE fs == Stocks(F)
            N == Len(fs)
            known(f) == x.stock[f.material].version # Never
            first(f) == IF x.stock[f.material].version = Never THEN <<CreateCommand(u, f)>>
                        ELSE IF f.quantity - x.stock[f.material].available # 0
                             THEN <<AdjustCommand(u, f, x)>> ELSE <<>>
            part(f) == first(f) \o <<AssessStep(f, x)>>
            repeated(i) == known(fs[i]) /\ \E j \in 1..i - 1 : fs[j].material = fs[i].material
            ss == [i \in DOMAIN fs |-> IF repeated(i) THEN <<>> ELSE part(fs[i])]
            inset(i) == {c \in MaterialSet(u, fs[i], x) : Stated(F, i, x)}
<1>1. IsList(fs)  BY SiteUpdateAssumption, ActionableList DEF IsReading, Stocks
<1>2. IsList(ss) /\ Len(ss) = N /\ DOMAIN fs = 1..N
  <2>1. DOMAIN ss = DOMAIN fs /\ ss = [i \in DOMAIN fs |-> ss[i]]  OBVIOUS
  <2>. HIDE DEF ss, fs
  <2>. QED BY <1>1, <2>1, PartsList
<1>3. \A i \in 1..N : ss[i] = IF Stated(F, i, x) THEN part(fs[i]) ELSE <<>>
  <2>1. \A i \in 1..N : ss[i] = IF repeated(i) THEN <<>> ELSE part(fs[i])
    <3>. HIDE DEF part, repeated
    <3>. QED BY <1>2
  <2>2. \A i \in 1..N : repeated(i) <=> ~Stated(F, i, x)  BY DEF Stated
  <2>. HIDE DEF part, repeated, ss
  <2>. QED BY <2>1, <2>2
<1>4. Materials(u, F, x) = FlattenSeq(ss)
  BY DEF Materials, Stocks, CreateCommand, AdjustCommand, AssessStep
<1>0. \A i \in 1..N : fs[i].quantity \in Nat /\ fs[i].material \in Material
  <2>1. \A f \in ToSet(fs) : f.quantity \in Nat /\ f.material \in Material
    BY SiteUpdateAssumption, ActionableList DEF IsReading, Stocks
  <2>. HIDE DEF fs
  <2>. QED BY <1>1, <2>1, ListShape
<1>5. ASSUME NEW f, f.quantity - x.stock[f.material].available # 0
                      <=> f.quantity # x.stock[f.material].available
      PROVE  IsList(part(f)) /\ ToSet(part(f)) = MaterialSet(u, f, x)
  <2>1. PICK create, adjust, assess : /\ create = CreateCommand(u, f)
                                     /\ adjust = AdjustCommand(u, f, x)
                                     /\ assess = AssessStep(f, x)
    OBVIOUS
  <2>2. IsList(<<assess>>) /\ ToSet(<<assess>>) = {assess}  BY SingleList
  <2>3. /\ IsList(first(f))
        /\ ToSet(first(f)) = {c \in {create} : ~known(f)}
             \cup {c \in {adjust} : known(f) /\ f.quantity # x.stock[f.material].available}
    <3>1. CASE ~known(f)
      <4>1. first(f) = <<create>>  BY <2>1, <3>1
      <4>2. IsList(<<create>>) /\ ToSet(<<create>>) = {create}  BY SingleList
      <4>. HIDE DEF first
      <4>. QED BY <3>1, <4>1, <4>2
    <3>2. CASE known(f) /\ f.quantity # x.stock[f.material].available
      <4>1. first(f) = <<adjust>>  BY <1>5, <2>1, <3>2
      <4>2. IsList(<<adjust>>) /\ ToSet(<<adjust>>) = {adjust}  BY SingleList
      <4>. HIDE DEF first
      <4>. QED BY <3>2, <4>1, <4>2
    <3>3. CASE known(f) /\ ~(f.quantity # x.stock[f.material].available)
      <4>1. first(f) = <<>>  BY <1>5, <3>3
      <4>. HIDE DEF first
      <4>. QED BY <3>3, <4>1, SingleList
    <3>. QED BY <3>1, <3>2, <3>3
  <2>4. part(f) = first(f) \o <<assess>>  BY <2>1
  <2>. HIDE DEF first, part
  <2>5. IsList(part(f)) /\ ToSet(part(f)) = ToSet(first(f)) \cup {assess}
    BY <2>2, <2>3, <2>4, ConcatLists
  <2>. QED BY <2>1, <2>3, <2>5 DEF MaterialSet
<1>. HIDE DEF part
<1>6. ASSUME NEW i \in 1..N PROVE IsList(ss[i]) /\ ToSet(ss[i]) = inset(i)
  <2>1. x.stock[fs[i].material].available \in Int  BY <1>0 DEF IsContext, StockRecord
  <2>2. PICK f : f = fs[i]  OBVIOUS
  <2>3. f.quantity - x.stock[f.material].available # 0 <=> f.quantity # x.stock[f.material].available
    BY <1>0, <2>1, <2>2
  <2>4. IsList(part(f)) /\ ToSet(part(f)) = MaterialSet(u, f, x)  BY <1>5, <2>3
  <2>5. ss[i] = IF Stated(F, i, x) THEN part(f) ELSE <<>>  BY <1>3, <2>2
  <2>6. CASE Stated(F, i, x)  BY <2>2, <2>4, <2>5, <2>6
  <2>7. CASE ~Stated(F, i, x)  BY <2>5, <2>7, SingleList
  <2>. QED BY <2>6, <2>7
<1>. HIDE DEF ss, inset
<1>7. /\ IsList(FlattenSeq(ss))
      /\ \A c \in ToSet(FlattenSeq(ss)) : \E i \in 1..N : c \in inset(i)
      /\ \A i \in 1..N : \A c \in inset(i) : c \in ToSet(FlattenSeq(ss))
  <2>1. \A i \in 1..Len(ss) : IsList(ss[i])  BY <1>2, <1>6
  <2>2. /\ IsList(FlattenSeq(ss))
        /\ \A c \in ToSet(FlattenSeq(ss)) : \E i \in 1..Len(ss) : c \in ToSet(ss[i])
        /\ \A i \in 1..Len(ss) : \A c \in ToSet(ss[i]) : c \in ToSet(FlattenSeq(ss))
    BY <1>2, <2>1, FlattenHas
  <2>. QED BY <1>2, <1>6, <2>2
<1>8. ToSet(FlattenSeq(ss)) = UNION {inset(i) : i \in 1..N}  BY <1>7
<1>9. UNION {inset(i) : i \in 1..N} = StockSet(u, F, x)  BY DEF inset, StockSet
<1>. QED BY <1>4, <1>7, <1>8, <1>9

LEMMA CompletionsHave ==
  ASSUME NEW u \in Update, NEW F \in Interpretations[u], NEW x
  PROVE  /\ IsList(Completions(u, F, x))
         /\ ToSet(Completions(u, F, x)) = CompletionSet(u, F, x)
<1>. DEFINE fs == First(Resolved(F.completed, x))
            ss == [i \in DOMAIN fs |-> CompleteCommand(u, fs[i], x)]
<1>1. IsList(fs)
  <2>1. IsList(Resolved(F.completed, x))  BY SiteUpdateAssumption, ResolvedList DEF IsReading
  <2>. QED BY <2>1, FirstList
<1>2. IsList(ss) /\ DOMAIN ss = DOMAIN fs
  <2>1. DOMAIN ss = DOMAIN fs /\ ss = [i \in DOMAIN fs |-> ss[i]]  OBVIOUS
  <2>. HIDE DEF ss, fs
  <2>. QED BY <1>1, <2>1, PartsList
<1>3. Completions(u, F, x) = ss  BY DEF Completions, CompleteCommand, CompletionArg
<1>4. ToSet(ss) = CompletionSet(u, F, x)  BY DEF ToSet, CompletionSet
<1>. QED BY <1>2, <1>3, <1>4

LEMMA SafetyHas ==
  ASSUME NEW u \in Update, NEW F \in Interpretations[u]
  PROVE  /\ IsList(SafetyIssues(u, F)) /\ IsList(Stops(F))
         /\ ToSet(SafetyIssues(u, F)) = SafetySet(u, F)
<1>. DEFINE ss == [i \in DOMAIN Stops(F) |-> SafetyCommand(u, F, i)]
<1>1. IsList(Stops(F))  BY SiteUpdateAssumption, StopsList DEF IsReading
<1>2. IsList(ss) /\ DOMAIN Stops(F) = 1..Len(Stops(F))
  <2>1. DOMAIN ss = DOMAIN Stops(F) /\ ss = [i \in DOMAIN Stops(F) |-> ss[i]]  OBVIOUS
  <2>. HIDE DEF ss
  <2>. QED BY <1>1, <2>1, PartsList
<1>3. SafetyIssues(u, F) = ss  BY DEF SafetyIssues, SafetyCommand
<1>4. ToSet(ss) = SafetySet(u, F)  BY <1>2 DEF ToSet, SafetySet
<1>. QED BY <1>1, <1>2, <1>3, <1>4

LEMMA PlanHas ==
  ASSUME NEW u \in Update, NEW F \in Interpretations[u], NEW x, IsContext(x)
  PROVE  IsList(Plan(u, F, x)) /\ ToSet(Plan(u, F, x)) = PlanSet(u, F, x)
<1>. DEFINE a == Completions(u, F, x)
            b == Issues(u, F, x)
            d == Materials(u, F, x)
<1>1. IsList(a) /\ IsList(b) /\ IsList(d)  BY CompletionsHave, IssuesHave, MaterialsHave
<1>2. CASE Stops(F) # <<>>  BY <1>2, SafetyHas DEF Plan, PlanSet
<1>3. CASE Stops(F) = <<>>
  <2>1. Plan(u, F, x) = a \o b \o d  BY <1>3 DEF Plan
  <2>2. IsList(a \o b) /\ ToSet(a \o b) = ToSet(a) \cup ToSet(b)
    <3>. HIDE DEF a, b, d
    <3>. QED BY <1>1, ConcatLists
  <2>3. IsList(a \o b \o d) /\ ToSet(a \o b \o d) = ToSet(a) \cup ToSet(b) \cup ToSet(d)
    <3>. HIDE DEF a, b, d
    <3>. QED BY <1>1, <2>2, ConcatLists
  <2>4. PlanSet(u, F, x) = ToSet(a) \cup ToSet(b) \cup ToSet(d)
    BY <1>3, CompletionsHave, IssuesHave, MaterialsHave DEF PlanSet
  <2>. QED BY <2>1, <2>3, <2>4
<1>. QED BY <1>2, <1>3

\* The keys, part by part.
LEMMA OneAndThree ==
  ASSUME NEW x, NEW y, NEW z, NEW w
  PROVE  <<x>> \o <<y, z, w>> = <<x, y, z, w>>
<1>. DEFINE S == {x, y, z, w}
            l == <<x>>
            r == <<y, z, w>>
            k == <<x, y, z, w>>
<1>1. l \in Seq(S) /\ r \in Seq(S) /\ k \in Seq(S)  OBVIOUS
<1>2. Len(l) = 1 /\ Len(r) = 3 /\ Len(k) = 4  OBVIOUS
<1>3. /\ l[1] = x /\ r[1] = y /\ r[2] = z /\ r[3] = w
      /\ k[1] = x /\ k[2] = y /\ k[3] = z /\ k[4] = w
  OBVIOUS
<1>. HIDE DEF S, l, r, k
<1>4. /\ l \o r \in Seq(S) /\ Len(l \o r) = Len(l) + Len(r)
      /\ \A i \in 1..(Len(l) + Len(r)) : (l \o r)[i] = IF i <= Len(l) THEN l[i] ELSE r[i - Len(l)]
  BY <1>1, ConcatProperties
<1>5. Len(l \o r) = 4 /\ \A i \in 1..4 : (l \o r)[i] = IF i <= 1 THEN l[i] ELSE r[i - 1]
  BY <1>2, <1>4
<1>6. \A i \in 1..4 : i = 1 \/ i = 2 \/ i = 3 \/ i = 4  OBVIOUS
<1>7. (l \o r)[1] = x /\ (l \o r)[2] = y /\ (l \o r)[3] = z /\ (l \o r)[4] = w  BY <1>3, <1>5
<1>8. \A i \in 1..4 : (l \o r)[i] = k[i]  BY <1>3, <1>6, <1>7
<1>9. l \o r = k  BY <1>1, <1>2, <1>4, <1>5, <1>8, SeqEqual
<1>. QED BY <1>9 DEF l, r, k

LEMMA KeyOfTwo ==
  ASSUME NEW u, NEW a, NEW b, NEW op, NEW id, NEW arg, NEW v,
         NEW c, c = Command(u, <<a, b>>, op, id, arg, v)
  PROVE  /\ c.key = <<u, a, b>> /\ c.key[2] = a /\ c.key[3] = b
         /\ c.env = [op |-> op, id |-> id, arg |-> arg]
         /\ c.env.op = op /\ c.env.id = id /\ c.env.arg = arg
BY OneAndTwo DEF Command

LEMMA KeyOfThree ==
  ASSUME NEW u, NEW a, NEW b, NEW d, NEW op, NEW id, NEW arg, NEW v,
         NEW c, c = Command(u, <<a, b, d>>, op, id, arg, v)
  PROVE  /\ c.key = <<u, a, b, d>> /\ c.key[2] = a /\ c.key[3] = b /\ c.key[4] = d
         /\ c.env = [op |-> op, id |-> id, arg |-> arg]
         /\ c.env.op = op /\ c.env.id = id /\ c.env.arg = arg
BY OneAndThree DEF Command

-----------------------------------------------------------------------------
(***************************************************************************)
(* What a report means for the project it was written about, whatever an   *)
(* attempt found when it looked.                                           *)
(***************************************************************************)
Base == [task |-> Setup.task, stock |-> Setup.stock]

Plain(F) == ~BlockedTwice(F) /\ ~DoneAndNext(F)

\* The fact that counts for a task or a material.
CompletionOf(F, t) == CHOOSE f \in ToSet(First(Resolved(F.completed, Base))) : f.task = t

BlockerOf(F, t) ==
  CHOOSE i \in 1..Len(Troubles(F)) : Troubles(F)[i].type = "blocker" /\ Troubles(F)[i].task = t

SaysFirst(F, m, i) ==
  Stocks(F)[i].material = m /\ \A j \in 1..i - 1 : Stocks(F)[j].material # m

Said(F, m) == Stocks(F)[CHOOSE i \in 1..Len(Stocks(F)) : SaysFirst(F, m, i)]

\* The tasks that the report completes and the tasks that it blocks.
Completes(F) ==
  IF Stops(F) # <<>> THEN {} ELSE {f.task : f \in ToSet(First(Resolved(F.completed, Base)))}

Blocks(F) ==
  IF Stops(F) # <<>> THEN {}
  ELSE {Troubles(F)[i].task : i \in {i \in 1..Len(Troubles(F)) : Blocker(F, i, Base)}}

\* What is missing of a material, once there is as much of it as the report says.
NeedOf(F, m) == Required(m, Focus(F, Base), Setup.stock[m].minimum)
NetOf(F, m) == IF Said(F, m).quantity > Reserved THEN Said(F, m).quantity - Reserved ELSE 0

AskCommand(u, F, m) ==
  Command(u, <<"shortage", m>>, "shortage", m,
          [quantity |-> NeedOf(F, m) - NetOf(F, m), need |-> NeedOf(F, m), net |-> NetOf(F, m),
           evidence |-> Said(F, m).evidence], 0)

ShortCommand(u, m, t) == IssueCommand(u, <<"material_risk", m, t>>, "delay_risk", {t}, "stock")

IsShort(F, m) ==
  /\ Setup.stock[m].version # Never
  /\ Said(F, m).quantity < NeedOf(F, m) /\ NetOf(F, m) < NeedOf(F, m)

AsksOf(u, F, m) ==
  IF IsShort(F, m)
  THEN {AskCommand(u, F, m)} \cup {ShortCommand(u, m, t) : t \in AtRisk(m, Focus(F, Base))}
  ELSE {}

Named(F) == IF Stops(F) # <<>> THEN {} ELSE {f.material : f \in ToSet(Stocks(F))}

AskSet(u, F) == UNION {AsksOf(u, F, m) : m \in Named(F)}

\* The risks and the requests that the report of the day will name.
RiskSet(u, F) ==
  (IF Stops(F) # <<>> THEN SafetySet(u, F)
   ELSE {RaiseCommand(u, i, Troubles(F)[i]) : i \in {i \in 1..Len(Troubles(F)) : Raised(F, i, Base)}}
        \cup {RiskCommand(u, i, Troubles(F)[i], Base) :
              i \in {i \in 1..Len(Troubles(F)) :
                       Blocker(F, i, Base) /\ Downstream(Troubles(F)[i].task, Base) # {}}})
  \cup {c \in AskSet(u, F) : c.env.op = "issue"}

ReportCommand(u, F) ==
  Command(u, <<"report">>, "report", <<>>,
    [completed |-> Completes(F),
     risks |-> {c.key : c \in RiskSet(u, F)},
     requests |-> {c.key : c \in {c \in AskSet(u, F) : c.env.op = "shortage"}},
     focus |-> F.focus,
     progress |-> {t \in Task : Setup.task[t].status = "in_progress"} \ (Completes(F) \cup Blocks(F))], 0)

\* What a key of the update stands for.  Only the movement of a stock depends on what
\* was there.
EnvOf(u, F, k) ==
  CASE k[2] = "complete" -> CompleteCommand(u, CompletionOf(F, k[3]), Base).env
    [] k[2] = "issue" -> RaiseCommand(u, k[3], Troubles(F)[k[3]]).env
    [] k[2] = "safety" -> SafetyCommand(u, F, k[3]).env
    [] k[2] = "blocked" -> BlockCommand(u, Troubles(F)[BlockerOf(F, k[3])], Base).env
    [] k[2] = "follow_up" -> FollowCommand(u, k[3], Troubles(F)[k[3]]).env
    [] k[2] = "impact" -> RiskCommand(u, k[3], Troubles(F)[k[3]], Base).env
    [] k[2] = "auto_create" -> [op |-> "create_material", id |-> k[3], arg |-> <<>>]
    [] k[2] = "shortage" -> AskCommand(u, F, k[3]).env
    [] k[2] = "material_risk" -> ShortCommand(u, k[3], k[4]).env
    [] k[2] = "report" -> ReportCommand(u, F).env

AdjustEnv(F, m, delta) ==
  [op |-> "adjust", id |-> m, arg |-> [delta |-> delta, evidence |-> Said(F, m).evidence]]

(***************************************************************************)
(* What holds while nobody but the update changes the project.             *)
(***************************************************************************)
Quiet(u, F) ==
  /\ ~UserActed
  /\ \A v \in Update \ {u}, k \in 1..MaxAttempts : attempt[v][k].told = {}
  /\ \A k \in 1..MaxAttempts : attempt[u][k].pc # "idle" => attempt[u][k].facts = F

\* The tasks y are the tasks x, but for what the report completes and blocks.
MovedTo(F, x, y) ==
  \A t \in Task :
    \/ y[t].status = x[t].status
    \/ /\ x[t].status \in {"planned", "in_progress"}
       /\ \/ y[t].status = "completed" /\ t \in Completes(F)
          \/ y[t].status = "blocked" /\ t \in Blocks(F)

InOrder(x) ==
  \A t \in Task : x[t].status = "completed" => \A d \in Depends[t] : x[d].status = "completed"

KeptStock(x) ==
  \A m \in Material : /\ x[m].minimum = Setup.stock[m].minimum
                      /\ Setup.stock[m].version # Never => x[m].version # Never

\* An entry of the activity ledger says what its key stands for, and it shows.
Canonical(u, F, e) ==
  /\ e.key[2] # "reported_stock" => e.env = EnvOf(u, F, e.key)
  /\ e.key[2] = "reported_stock" => /\ e.key = <<u, "reported_stock", e.key[3]>>
                                    /\ e.env = AdjustEnv(F, e.key[3], e.env.arg.delta)

Effective(F, e) ==
  /\ e.key[2] = "complete" => e.key[3] \in Task /\ task[e.key[3]].status = "completed"
  /\ e.key[2] = "follow_up" => e.key[4] \in Task /\ task[e.key[4]].status = "blocked"
  /\ e.key[2] = "reported_stock" =>
       /\ e.key[3] \in Material /\ Exists(e.key[3])
       /\ stock[e.key[3]].available = Said(F, e.key[3]).quantity

Settled(u, F) ==
  /\ MovedTo(F, Setup.task, task) /\ InOrder(task) /\ KeptStock(stock)
  /\ \A e \in activity : Canonical(u, F, e) /\ Effective(F, e)
  /\ \A e, o \in activity : e.key = o.key => e = o

\* What an attempt has read is there still, or the report has moved it.
ReadStock(u, x) ==
  \A m \in Material : x[m].version # Never =>
    \/ x[m].available = stock[m].available
    \/ \E e \in activity : /\ e.key = <<u, "reported_stock", m>>
                           /\ e.env.arg.delta = stock[m].available - x[m].available

Meant(u, F, x, c) == c \in PlanSet(u, F, x) \/ c \in AskSet(u, F) \/ c = ReportCommand(u, F)

\* A warning about what a blocker holds up comes after the follow-up of the blocker; a
\* stock is compared with what is needed after its movement.
Ripe(c) ==
  /\ c.env.op = "issue" /\ c.key[2] = "impact" => task[c.key[4]].status = "blocked"
  /\ c.env.op = "assess" /\ Setup.stock[c.env.id].version # Never =>
       stock[c.env.id].available = c.reported

Ripens(c, d) ==
  \/ /\ c.env.op = "follow_up"
     /\ d.env.op = "issue" /\ d.key[2] = "impact" /\ c.env.id = d.key[4]
  \/ c.env.op = "adjust" /\ d.env.op = "assess" /\ c.env.id = d.env.id

InTurn(s) == \A j \in 1..Len(s) : Ripe(s[j]) \/ \E i \in 1..j - 1 : Ripens(s[i], s[j])

Covered(u, F, a) ==
  \A c \in PlanSet(u, F, a.seen) :
    \/ c \in a.told \cup ToSet(a.todo)
    \/ c.env.op = "assess" /\ AsksOf(u, F, c.env.id) \subseteq a.told \cup ToSet(a.todo)

Underway(u, F, a) ==
  /\ a.pc # "conflict"
  /\ MovedTo(F, Setup.task, a.seen.task) /\ MovedTo(F, a.seen.task, task) /\ InOrder(a.seen.task)
  /\ KeptStock(a.seen.stock) /\ ReadStock(u, a.seen.stock)
  /\ \A c \in a.told \cup ToSet(a.todo) : Meant(u, F, a.seen, c)
  /\ \A c \in a.told : c.env.op # "assess"
  /\ InTurn(a.todo)
  /\ Covered(u, F, a)

Undisturbed(u, F) ==
  /\ Settled(u, F)
  /\ \A n \in 1..MaxAttempts : attempt[u][n].pc # "idle" => Underway(u, F, attempt[u][n])

-----------------------------------------------------------------------------
LEMMA OneAndOne ==
  ASSUME NEW x, NEW y
  PROVE  <<x>> \o <<y>> = <<x, y>>
<1>. DEFINE S == {x, y}
            l == <<x>>
            r == <<y>>
            k == <<x, y>>
<1>1. l \in Seq(S) /\ r \in Seq(S) /\ k \in Seq(S)  OBVIOUS
<1>2. Len(l) = 1 /\ Len(r) = 1 /\ Len(k) = 2  OBVIOUS
<1>3. l[1] = x /\ r[1] = y /\ k[1] = x /\ k[2] = y  OBVIOUS
<1>. HIDE DEF S, l, r, k
<1>4. /\ l \o r \in Seq(S) /\ Len(l \o r) = Len(l) + Len(r)
      /\ \A i \in 1..(Len(l) + Len(r)) : (l \o r)[i] = IF i <= Len(l) THEN l[i] ELSE r[i - Len(l)]
  BY <1>1, ConcatProperties
<1>5. Len(l \o r) = 2 /\ \A i \in 1..2 : (l \o r)[i] = IF i <= 1 THEN l[i] ELSE r[i - 1]
  BY <1>2, <1>4
<1>6. \A i \in 1..2 : i = 1 \/ i = 2  OBVIOUS
<1>7. (l \o r)[1] = x /\ (l \o r)[2] = y  BY <1>3, <1>5
<1>8. \A i \in 1..2 : (l \o r)[i] = k[i]  BY <1>3, <1>6, <1>7
<1>9. l \o r = k  BY <1>1, <1>2, <1>4, <1>5, <1>8, SeqEqual
<1>. QED BY <1>9 DEF l, r, k

LEMMA SafetyKey ==
  ASSUME NEW u, NEW F, NEW i, NEW c, c = SafetyCommand(u, F, i)
  PROVE  c.key[2] = "safety" /\ c.key[3] = i /\ c.key = <<u, "safety", i>> /\ c.env.op = "issue"
<1>1. PICK arg : arg = [type |-> "safety", tasks |-> {}, evidence |-> Stops(F)[i]]  OBVIOUS
<1>2. c = Command(u, <<"safety", i>>, "issue", <<>>, arg, 0)  BY <1>1 DEF SafetyCommand, IssueCommand
<1>3. /\ c.key = <<u, "safety", i>> /\ c.key[2] = "safety" /\ c.key[3] = i
      /\ c.env = [op |-> "issue", id |-> <<>>, arg |-> arg]
      /\ c.env.op = "issue" /\ c.env.id = <<>> /\ c.env.arg = arg
  BY <1>2, KeyOfTwo
<1>. QED BY <1>3

LEMMA CompleteKey ==
  ASSUME NEW u, NEW f, NEW x, NEW c, c = CompleteCommand(u, f, x)
  PROVE  /\ c.key[2] = "complete" /\ c.key[3] = f.task /\ c.key = <<u, "complete", f.task>>
         /\ c.env.op = "complete" /\ c.env.id = f.task
<1>1. PICK arg : arg = CompletionArg(f)  OBVIOUS
<1>2. PICK v : c = Command(u, <<"complete", f.task>>, "complete", f.task, arg, v)
  BY <1>1 DEF CompleteCommand
<1>3. /\ c.key = <<u, "complete", f.task>> /\ c.key[2] = "complete" /\ c.key[3] = f.task
      /\ c.env = [op |-> "complete", id |-> f.task, arg |-> arg]
      /\ c.env.op = "complete" /\ c.env.id = f.task /\ c.env.arg = arg
  BY <1>2, KeyOfTwo
<1>. QED BY <1>3

LEMMA CompleteEnv ==
  ASSUME NEW u, NEW f, NEW x
  PROVE  /\ CompleteCommand(u, f, x).env.arg = CompletionArg(f)
         /\ CompleteCommand(u, f, x).env = CompleteCommand(u, f, Base).env
<1>1. PICK arg : arg = CompletionArg(f)  OBVIOUS
<1>2. ASSUME NEW y, NEW c, c = CompleteCommand(u, f, y)
      PROVE  c.env = [op |-> "complete", id |-> f.task, arg |-> arg] /\ c.env.arg = arg
  <2>1. PICK v : c = Command(u, <<"complete", f.task>>, "complete", f.task, arg, v)
    BY <1>1, <1>2 DEF CompleteCommand
  <2>2. /\ c.key = <<u, "complete", f.task>> /\ c.key[2] = "complete" /\ c.key[3] = f.task
        /\ c.env = [op |-> "complete", id |-> f.task, arg |-> arg]
        /\ c.env.op = "complete" /\ c.env.id = f.task /\ c.env.arg = arg
    BY <2>1, KeyOfTwo
  <2>. QED BY <2>2
<1>. QED BY <1>1, <1>2

LEMMA RaiseKey ==
  ASSUME NEW u, NEW i, NEW f, NEW c, c = RaiseCommand(u, i, f)
  PROVE  c.key[2] = "issue" /\ c.key[3] = i /\ c.key = <<u, "issue", i, f.type>> /\ c.env.op = "issue"
<1>1. PICK arg : arg = [type |-> f.type, tasks |-> {f.task} \ {None}, evidence |-> f.evidence]  OBVIOUS
<1>2. c = Command(u, <<"issue", i, f.type>>, "issue", <<>>, arg, 0)  BY <1>1 DEF RaiseCommand, IssueCommand
<1>3. /\ c.key = <<u, "issue", i, f.type>> /\ c.key[2] = "issue" /\ c.key[3] = i /\ c.key[4] = f.type
      /\ c.env = [op |-> "issue", id |-> <<>>, arg |-> arg]
      /\ c.env.op = "issue" /\ c.env.id = <<>> /\ c.env.arg = arg
  BY <1>2, KeyOfThree
<1>. QED BY <1>3

LEMMA BlockKey ==
  ASSUME NEW u, NEW f, NEW x, NEW c, c = BlockCommand(u, f, x)
  PROVE  /\ c.key[2] = "blocked" /\ c.key[3] = f.task /\ c.key = <<u, "blocked", f.task>>
         /\ c.env.op = "progress" /\ c.env.id = f.task
<1>1. PICK arg : arg = BlockArg(f)  OBVIOUS
<1>2. PICK v : c = Command(u, <<"blocked", f.task>>, "progress", f.task, arg, v)
  BY <1>1 DEF BlockCommand
<1>3. /\ c.key = <<u, "blocked", f.task>> /\ c.key[2] = "blocked" /\ c.key[3] = f.task
      /\ c.env = [op |-> "progress", id |-> f.task, arg |-> arg]
      /\ c.env.op = "progress" /\ c.env.id = f.task /\ c.env.arg = arg
  BY <1>2, KeyOfTwo
<1>. QED BY <1>3

LEMMA BlockEnv ==
  ASSUME NEW u, NEW f, NEW x
  PROVE  /\ BlockCommand(u, f, x).env.arg = BlockArg(f)
         /\ BlockCommand(u, f, x).env = BlockCommand(u, f, Base).env
<1>1. PICK arg : arg = BlockArg(f)  OBVIOUS
<1>2. ASSUME NEW y, NEW c, c = BlockCommand(u, f, y)
      PROVE  c.env = [op |-> "progress", id |-> f.task, arg |-> arg] /\ c.env.arg = arg
  <2>1. c = Command(u, <<"blocked", f.task>>, "progress", f.task, arg, y.task[f.task].version)
    BY <1>1, <1>2 DEF BlockCommand
  <2>2. /\ c.key = <<u, "blocked", f.task>> /\ c.key[2] = "blocked" /\ c.key[3] = f.task
        /\ c.env = [op |-> "progress", id |-> f.task, arg |-> arg]
        /\ c.env.op = "progress" /\ c.env.id = f.task /\ c.env.arg = arg
    BY <2>1, KeyOfTwo
  <2>. QED BY <2>2
<1>. QED BY <1>1, <1>2

LEMMA FollowKey ==
  ASSUME NEW u, NEW i, NEW f, NEW c, c = FollowCommand(u, i, f)
  PROVE  /\ c.key[2] = "follow_up" /\ c.key[3] = i /\ c.key[4] = f.task
         /\ c.env.op = "follow_up" /\ c.env.id = f.task
<1>1. PICK arg : arg = [issue |-> <<u, "issue", i, f.type>>]  OBVIOUS
<1>2. c = Command(u, <<"follow_up", i, f.task>>, "follow_up", f.task, arg, 0)
  BY <1>1 DEF FollowCommand
<1>3. /\ c.key = <<u, "follow_up", i, f.task>> /\ c.key[2] = "follow_up" /\ c.key[3] = i /\ c.key[4] = f.task
      /\ c.env = [op |-> "follow_up", id |-> f.task, arg |-> arg]
      /\ c.env.op = "follow_up" /\ c.env.id = f.task /\ c.env.arg = arg
  BY <1>2, KeyOfThree
<1>. QED BY <1>3

LEMMA RiskKey ==
  ASSUME NEW u, NEW i, NEW f, NEW x, NEW c, c = RiskCommand(u, i, f, x)
  PROVE  /\ c.key[2] = "impact" /\ c.key[3] = i /\ c.key[4] = f.task
         /\ c.key = <<u, "impact", i, f.task>> /\ c.env.op = "issue"
         /\ Downstream(f.task, x) = Downstream(f.task, Base) =>
              c.env = RiskCommand(u, i, f, Base).env
<1>. DEFINE b == RiskCommand(u, i, f, Base)
            envOf(y) == [op |-> "issue", id |-> <<>>,
                         arg |-> [type |-> "delay_risk", tasks |-> Downstream(f.task, y),
                                  evidence |-> "impact"]]
<1>1. ASSUME NEW y, NEW d, d = RiskCommand(u, i, f, y)
      PROVE  /\ d.key[2] = "impact" /\ d.key[3] = i /\ d.key[4] = f.task
             /\ d.key = <<u, "impact", i, f.task>> /\ d.env.op = "issue"
             /\ d.env = envOf(y)
  <2>1. PICK arg : arg = [type |-> "delay_risk", tasks |-> Downstream(f.task, y),
                          evidence |-> "impact"]
    OBVIOUS
  <2>2. d = Command(u, <<"impact", i, f.task>>, "issue", <<>>, arg, 0)
    BY <1>1, <2>1 DEF RiskCommand, IssueCommand
  <2>. QED BY <2>1, <2>2, KeyOfThree
<1>2. Downstream(f.task, x) = Downstream(f.task, Base) => envOf(x) = envOf(Base)  OBVIOUS
<1>. HIDE DEF b, envOf
<1>3. c.env = envOf(x)  BY <1>1
<1>4. b.env = envOf(Base)  BY <1>1 DEF b
<1>5. /\ c.key[2] = "impact" /\ c.key[3] = i /\ c.key[4] = f.task
      /\ c.key = <<u, "impact", i, f.task>> /\ c.env.op = "issue"
  BY <1>1
<1>. QED BY <1>2, <1>3, <1>4, <1>5 DEF b

LEMMA CreateKey ==
  ASSUME NEW u, NEW f, NEW c, c = CreateCommand(u, f)
  PROVE  /\ c.key[2] = "auto_create" /\ c.key[3] = f.material
         /\ c.env = [op |-> "create_material", id |-> f.material, arg |-> <<>>]
         /\ c.env.op = "create_material" /\ c.env.id = f.material
<1>. DEFINE d == Command(u, <<"auto_create", f.material>>, "create_material", f.material, <<>>, 0)
<1>1. /\ d.key[2] = "auto_create" /\ d.key[3] = f.material
      /\ d.env = [op |-> "create_material", id |-> f.material, arg |-> <<>>]
  BY KeyOfTwo
<1>2. c.key = d.key /\ c.env = d.env  BY DEF CreateCommand, Command
<1>. HIDE DEF d
<1>. QED BY <1>1, <1>2

LEMMA AdjustKey ==
  ASSUME NEW u, NEW f, NEW x, NEW c, c = AdjustCommand(u, f, x)
  PROVE  /\ c.key[2] = "reported_stock" /\ c.key[3] = f.material
         /\ c.key = <<u, "reported_stock", f.material>>
         /\ c.env = [op |-> "adjust", id |-> f.material,
                     arg |-> [delta |-> f.quantity - x.stock[f.material].available,
                              evidence |-> f.evidence]]
         /\ c.env.op = "adjust" /\ c.env.id = f.material
<1>. DEFINE arg == [delta |-> f.quantity - x.stock[f.material].available, evidence |-> f.evidence]
<1>1. \E v : c = Command(u, <<"reported_stock", f.material>>, "adjust", f.material, arg, v)
  BY DEF AdjustCommand
<1>. HIDE DEF arg
<1>2. /\ c.key[2] = "reported_stock" /\ c.key[3] = f.material
      /\ c.key = <<u, "reported_stock", f.material>>
      /\ c.env = [op |-> "adjust", id |-> f.material, arg |-> arg]
      /\ c.env.op = "adjust" /\ c.env.id = f.material
  BY <1>1, KeyOfTwo
<1>. QED BY <1>2 DEF arg

LEMMA AssessFields ==
  ASSUME NEW f, NEW x, NEW c, c = AssessStep(f, x)
  PROVE  /\ c.env.op = "assess" /\ c.env.id = f.material /\ c.reported = f.quantity
         /\ c.evidence = f.evidence /\ c.minimum = x.stock[f.material].minimum
BY DEF AssessStep

LEMMA AskKey ==
  ASSUME NEW u, NEW F, NEW m, NEW c, c = AskCommand(u, F, m)
  PROVE  c.key[2] = "shortage" /\ c.key[3] = m /\ c.env.op = "shortage" /\ c.env.id = m
<1>1. PICK arg : arg = [quantity |-> NeedOf(F, m) - NetOf(F, m), need |-> NeedOf(F, m),
                        net |-> NetOf(F, m), evidence |-> Said(F, m).evidence]
  OBVIOUS
<1>2. c = Command(u, <<"shortage", m>>, "shortage", m, arg, 0)  BY <1>1 DEF AskCommand
<1>3. /\ c.key = <<u, "shortage", m>> /\ c.key[2] = "shortage" /\ c.key[3] = m
      /\ c.env = [op |-> "shortage", id |-> m, arg |-> arg]
      /\ c.env.op = "shortage" /\ c.env.id = m /\ c.env.arg = arg
  BY <1>2, KeyOfTwo
<1>. QED BY <1>3

LEMMA ShortKey ==
  ASSUME NEW u, NEW m, NEW t, NEW c, c = ShortCommand(u, m, t)
  PROVE  c.key[2] = "material_risk" /\ c.key[3] = m /\ c.key[4] = t /\ c.env.op = "issue"
<1>1. PICK arg : arg = [type |-> "delay_risk", tasks |-> {t}, evidence |-> "stock"]  OBVIOUS
<1>2. c = Command(u, <<"material_risk", m, t>>, "issue", <<>>, arg, 0)  BY <1>1 DEF ShortCommand, IssueCommand
<1>3. /\ c.key = <<u, "material_risk", m, t>> /\ c.key[2] = "material_risk" /\ c.key[3] = m /\ c.key[4] = t
      /\ c.env = [op |-> "issue", id |-> <<>>, arg |-> arg]
      /\ c.env.op = "issue" /\ c.env.id = <<>> /\ c.env.arg = arg
  BY <1>2, KeyOfThree
<1>. QED BY <1>3

LEMMA ReportKey ==
  ASSUME NEW u, NEW F, NEW c, c = ReportCommand(u, F)
  PROVE  c.key[2] = "report" /\ c.env.op = "report"
BY OneAndOne DEF ReportCommand, Command

\* What a key of the update stands for, kind by kind.
LEMMA EnvOfKinds ==
  ASSUME NEW u, NEW F, NEW k
  PROVE  /\ k[2] = "complete" => EnvOf(u, F, k) = CompleteCommand(u, CompletionOf(F, k[3]), Base).env
         /\ k[2] = "issue" => EnvOf(u, F, k) = RaiseCommand(u, k[3], Troubles(F)[k[3]]).env
         /\ k[2] = "safety" => EnvOf(u, F, k) = SafetyCommand(u, F, k[3]).env
         /\ k[2] = "blocked" =>
              EnvOf(u, F, k) = BlockCommand(u, Troubles(F)[BlockerOf(F, k[3])], Base).env
         /\ k[2] = "follow_up" => EnvOf(u, F, k) = FollowCommand(u, k[3], Troubles(F)[k[3]]).env
         /\ k[2] = "impact" => EnvOf(u, F, k) = RiskCommand(u, k[3], Troubles(F)[k[3]], Base).env
         /\ k[2] = "auto_create" =>
              EnvOf(u, F, k) = [op |-> "create_material", id |-> k[3], arg |-> <<>>]
         /\ k[2] = "shortage" => EnvOf(u, F, k) = AskCommand(u, F, k[3]).env
         /\ k[2] = "material_risk" => EnvOf(u, F, k) = ShortCommand(u, k[3], k[4]).env
         /\ k[2] = "report" => EnvOf(u, F, k) = ReportCommand(u, F).env
BY DEF EnvOf

-----------------------------------------------------------------------------
(***************************************************************************)
(* What a report calls for does not depend on what it has brought about.   *)
(***************************************************************************)
LEMMA MovedTwice ==
  ASSUME NEW F, NEW x, NEW y, NEW z, MovedTo(F, x, y), MovedTo(F, y, z)
  PROVE  MovedTo(F, x, z)
BY DEF MovedTo

LEMMA MovedVisible ==
  ASSUME NEW F, NEW x, NEW y, MovedTo(F, x.task, y.task)
  PROVE  Visible(y) = Visible(x)
BY DEF MovedTo, Visible

LEMMA ResolvedSame ==
  ASSUME NEW s, NEW x, NEW y, Visible(x) = Visible(y)
  PROVE  Resolved(s, x) = Resolved(s, y)
<1>1. PICK V : V = Visible(x) /\ V = Visible(y)  OBVIOUS
<1>. DEFINE p == [i \in DOMAIN s |-> IF s[i].sure /\ s[i].task \in V THEN <<s[i]>> ELSE <<>>]
<1>2. Resolved(s, x) = FlattenSeq(p)  BY <1>1 DEF Resolved, Kept
<1>3. Resolved(s, y) = FlattenSeq(p)  BY <1>1 DEF Resolved, Kept
<1>. QED BY <1>2, <1>3

\* The facts about completed tasks are those of the project as it was set up.
LEMMA CompletionCounts ==
  ASSUME NEW u \in Update, NEW F \in Interpretations[u], NEW x, Visible(x) = Visible(Base)
  PROVE  /\ First(Resolved(F.completed, x)) = First(Resolved(F.completed, Base))
         /\ \A f \in ToSet(First(Resolved(F.completed, x))) :
              /\ f = CompletionOf(F, f.task) /\ f \in ToSet(Actionable(F.completed))
              /\ Stops(F) = <<>> => f.task \in Completes(F)
<1>1. Resolved(F.completed, x) = Resolved(F.completed, Base)  BY ResolvedSame
<1>2. PICK s : s = Resolved(F.completed, Base)  OBVIOUS
<1>3. IsList(F.completed)  BY SiteUpdateAssumption DEF IsReading
<1>4. IsList(s)  BY <1>2, <1>3, ResolvedList
<1>5. \A f \in ToSet(First(s)) : \E i \in 1..Len(s) : f = s[i] /\ \A j \in 1..i - 1 : s[j].task # s[i].task
  BY <1>4, FirstSet
<1>6. ASSUME NEW f \in ToSet(First(s)), NEW g \in ToSet(First(s)), f.task = g.task PROVE f = g
  <2>1. PICK i \in 1..Len(s) : f = s[i] /\ \A j \in 1..i - 1 : s[j].task # s[i].task  BY <1>5
  <2>2. PICK k \in 1..Len(s) : g = s[k] /\ \A j \in 1..k - 1 : s[j].task # s[k].task  BY <1>5
  <2>3. Len(s) \in Nat  BY <1>4, ListShape
  <2>4. ~(i < k)
    <3>1. i < k => i \in 1..k - 1  BY <2>3
    <3>. QED BY <1>6, <2>1, <2>2, <3>1
  <2>5. ~(k < i)
    <3>1. k < i => k \in 1..i - 1  BY <2>3
    <3>. QED BY <1>6, <2>1, <2>2, <3>1
  <2>6. i = k  BY <2>3, <2>4, <2>5
  <2>. QED BY <2>1, <2>2, <2>6
<1>7. ASSUME NEW f \in ToSet(First(s))
      PROVE  f = CompletionOf(F, f.task) /\ f \in ToSet(Actionable(F.completed))
  <2>1. \E g \in ToSet(First(s)) : g.task = f.task  OBVIOUS
  <2>2. CompletionOf(F, f.task) \in ToSet(First(s)) /\ CompletionOf(F, f.task).task = f.task
    BY <1>2, <2>1 DEF CompletionOf
  <2>3. f = CompletionOf(F, f.task)  BY <1>6, <2>2
  <2>4. f \in ToSet(s)  BY <1>4, FirstList
  <2>5. f \in ToSet(Actionable(F.completed))  BY <1>2, <1>3, <2>4, ResolvedSet
  <2>. QED BY <2>3, <2>5
<1>8. \A f \in ToSet(First(s)) : Stops(F) = <<>> => f.task \in Completes(F)
  BY <1>2 DEF Completes
<1>. QED BY <1>1, <1>2, <1>7, <1>8

\* What is to be worked on next is nothing that the report completes.
LEMMA FocusSame ==
  ASSUME NEW u \in Update, NEW F \in Interpretations[u], Plain(F), NEW x,
         MovedTo(F, Setup.task, x.task)
  PROVE  Focus(F, x) = Focus(F, Base)
<1>1. Base.task = Setup.task  BY DEF Base
<1>2. Visible(x) = Visible(Base)  BY <1>1, MovedVisible
<1>3. PICK s : s = Resolved(F.focus, x) /\ s = Resolved(F.focus, Base)  BY <1>2, ResolvedSame
<1>4. IsList(F.focus)  BY SiteUpdateAssumption DEF IsReading
<1>5. \A f \in ToSet(s) : f \in ToSet(Actionable(F.focus)) /\ f.task \in Visible(x)
  BY <1>3, <1>4, ResolvedSet
<1>6. ASSUME NEW f \in ToSet(s)
      PROVE  x.task[f.task].status \in Terminal <=> Base.task[f.task].status \in Terminal
  <2>1. f.task \in Task  BY <1>5 DEF Visible
  <2>2. f.task \notin Completes(F)
    <3>. SUFFICES ASSUME f.task \in Completes(F) PROVE FALSE  OBVIOUS
    <3>1. PICK g \in ToSet(First(Resolved(F.completed, Base))) : g.task = f.task  BY DEF Completes
    <3>2. g \in ToSet(Actionable(F.completed))  BY CompletionCounts
    <3>. QED BY <1>5, <3>1, <3>2 DEF Plain, DoneAndNext
  <2>. QED BY <1>1, <2>1, <2>2 DEF MovedTo, Terminal
<1>. DEFINE ts == {f.task : f \in ToSet(s)}
<1>7. Focus(F, x) = {t \in ts : x.task[t].status \notin Terminal}  BY <1>3 DEF Focus
<1>8. Focus(F, Base) = {t \in ts : Base.task[t].status \notin Terminal}  BY <1>3 DEF Focus
<1>. QED BY <1>6, <1>7, <1>8

\* Nothing that waits for an open task has been completed before it.
LEMMA DownstreamSame ==
  ASSUME NEW t \in Task, NEW F, NEW x, MovedTo(F, Setup.task, x.task), InOrder(x.task),
         x.task[t].status # "completed"
  PROVE  Downstream(t, x) = Downstream(t, Base)
<1>. DEFINE N == Cardinality(Task)
<1>0. N \in Nat  BY RecordsAssumption, FS_CardinalityType
<1>1. Base.task = Setup.task  BY DEF Base
<1>2. Visible(x) = Visible(Base)  BY <1>1, MovedVisible
<1>3. ASSUME NEW S, S \subseteq Task, \A d \in S : x.task[d].status # "completed"
      PROVE  /\ WaitsFor(S, x) = WaitsFor(S, Base) /\ WaitsFor(S, x) \subseteq Task
             /\ \A d \in WaitsFor(S, x) : x.task[d].status # "completed"
  <2>0. Visible(x) \subseteq Task  BY DEF Visible
  <2>1. ASSUME NEW d \in Visible(x), Depends[d] \cap S # {}
        PROVE  x.task[d].status \notin Terminal <=> Base.task[d].status \notin Terminal
    <3>1. d \in Task /\ x.task[d].status # "completed"  BY <1>3, <2>0, <2>1 DEF InOrder
    <3>. QED BY <1>1, <3>1 DEF MovedTo, Terminal
  <2>2. WaitsFor(S, x) = WaitsFor(S, Base)  BY <1>2, <2>1 DEF WaitsFor
  <2>. QED BY <2>0, <2>2 DEF WaitsFor, Terminal
<1>4. PICK f : /\ \A n \in 0..N : f[n] = IF n = 0 THEN {t} ELSE f[n - 1] \cup WaitsFor(f[n - 1], x)
               /\ Downstream(t, x) = f[N] \ {t}
  BY DownstreamSteps
<1>5. PICK g : /\ \A n \in 0..N : g[n] = IF n = 0 THEN {t} ELSE g[n - 1] \cup WaitsFor(g[n - 1], Base)
               /\ Downstream(t, Base) = g[N] \ {t}
  BY DownstreamSteps
<1>. DEFINE Same(n) == f[n] = g[n] /\ f[n] \subseteq Task /\ \A d \in f[n] : x.task[d].status # "completed"
            In == {n \in Nat : n <= N => Same(n)}
<1>6. 0 \in In
  <2>1. 0 \in 0..N  BY <1>0
  <2>2. f[0] = {t} /\ g[0] = {t}  BY <1>4, <1>5, <2>1
  <2>. QED BY <2>2
<1>7. ASSUME NEW n \in Nat, n \in In PROVE n + 1 \in In
  <2>. SUFFICES ASSUME n + 1 <= N PROVE Same(n + 1)  OBVIOUS
  <2>1. n + 1 \in 0..N /\ n + 1 # 0 /\ (n + 1) - 1 = n /\ n <= N  BY <1>0
  <2>2. f[n + 1] = f[n] \cup WaitsFor(f[n], x)  BY <1>4, <2>1
  <2>3. g[n + 1] = g[n] \cup WaitsFor(g[n], Base)  BY <1>5, <2>1
  <2>4. Same(n)  BY <1>7, <2>1
  <2>5. /\ WaitsFor(f[n], x) = WaitsFor(f[n], Base) /\ WaitsFor(f[n], x) \subseteq Task
        /\ \A d \in WaitsFor(f[n], x) : x.task[d].status # "completed"
    BY <1>3, <2>4
  <2>. QED BY <2>2, <2>3, <2>4, <2>5
<1>8. N \in In
  <2>. HIDE DEF In, N
  <2>1. Nat \subseteq In  BY <1>6, <1>7, SetInduction
  <2>. QED BY <1>0, <2>1
<1>. QED BY <1>0, <1>4, <1>5, <1>8

\* Of what is said of a stock the first counts, and of a blocker the only one.
LEMMA SaidCounts ==
  ASSUME NEW u \in Update, NEW F \in Interpretations[u], NEW i \in 1..Len(Stocks(F)), NEW m,
         SaysFirst(F, m, i)
  PROVE  Stocks(F)[i] = Said(F, m)
<1>1. Len(Stocks(F)) \in Nat
  BY SiteUpdateAssumption, ActionableList, ListShape DEF IsReading, Stocks
<1>2. PICK k \in 1..Len(Stocks(F)) : Said(F, m) = Stocks(F)[k] /\ SaysFirst(F, m, k)  BY DEF Said
<1>3. ~(i < k)
  <2>1. i < k => i \in 1..k - 1  BY <1>1
  <2>. QED BY <1>2, <2>1 DEF SaysFirst
<1>4. ~(k < i)
  <2>1. k < i => k \in 1..i - 1  BY <1>1
  <2>. QED BY <1>2, <2>1 DEF SaysFirst
<1>5. i = k  BY <1>1, <1>3, <1>4
<1>. QED BY <1>2, <1>5

LEMMA BlockerCounts ==
  ASSUME NEW F, Plain(F), NEW i, NEW x, Blocker(F, i, x)
  PROVE  BlockerOf(F, Troubles(F)[i].task) = i
<1>1. PICK fs, t : fs = Troubles(F) /\ t = fs[i].task  OBVIOUS
<1>2. i \in 1..Len(fs) /\ fs[i].type = "blocker" /\ t # None  BY <1>1 DEF Blocker, Raised
<1>3. PICK k \in 1..Len(fs) : BlockerOf(F, t) = k /\ fs[k].type = "blocker" /\ fs[k].task = t
  BY <1>1, <1>2 DEF BlockerOf
<1>. QED BY <1>1, <1>2, <1>3 DEF Plain, BlockedTwice, Troubles

-----------------------------------------------------------------------------
(***************************************************************************)
(* Every command, by its kind.                                             *)
(***************************************************************************)
IsCompletion(u, F, x, c) ==
  Stops(F) = <<>> /\ \E f \in ToSet(First(Resolved(F.completed, x))) : c = CompleteCommand(u, f, x)

IsRaise(u, F, x, c) ==
  Stops(F) = <<>> /\ \E i \in 1..Len(Troubles(F)) : Raised(F, i, x) /\ c = RaiseCommand(u, i, Troubles(F)[i])

IsBlock(u, F, x, c) ==
  /\ Stops(F) = <<>>
  /\ \E i \in 1..Len(Troubles(F)) : Blocker(F, i, x) /\ c = BlockCommand(u, Troubles(F)[i], x)

IsFollow(u, F, x, c) ==
  /\ Stops(F) = <<>>
  /\ \E i \in 1..Len(Troubles(F)) : Blocker(F, i, x) /\ c = FollowCommand(u, i, Troubles(F)[i])

IsRisk(u, F, x, c) ==
  /\ Stops(F) = <<>>
  /\ \E i \in 1..Len(Troubles(F)) :
       /\ Blocker(F, i, x) /\ Downstream(Troubles(F)[i].task, x) # {}
       /\ c = RiskCommand(u, i, Troubles(F)[i], x)

IsCreate(u, F, x, c) ==
  Stops(F) = <<>> /\ \E i \in 1..Len(Stocks(F)) : Stated(F, i, x) /\ c = CreateCommand(u, Stocks(F)[i])

IsAdjust(u, F, x, c) ==
  /\ Stops(F) = <<>>
  /\ \E i \in 1..Len(Stocks(F)) :
       /\ SaysFirst(F, Stocks(F)[i].material, i) /\ c = AdjustCommand(u, Stocks(F)[i], x)
       /\ x.stock[Stocks(F)[i].material].version # Never
       /\ Stocks(F)[i].quantity # x.stock[Stocks(F)[i].material].available

IsAssess(u, F, x, c) ==
  Stops(F) = <<>> /\ \E i \in 1..Len(Stocks(F)) : Stated(F, i, x) /\ c = AssessStep(Stocks(F)[i], x)

IsSafety(u, F, c) == \E i \in 1..Len(Stops(F)) : c = SafetyCommand(u, F, i)

LEMMA PlanKinds ==
  ASSUME NEW u, NEW F, NEW x, NEW c \in PlanSet(u, F, x)
  PROVE  \/ IsSafety(u, F, c) /\ Stops(F) # <<>>
         \/ IsCompletion(u, F, x, c) \/ IsRaise(u, F, x, c) \/ IsBlock(u, F, x, c)
         \/ IsFollow(u, F, x, c) \/ IsRisk(u, F, x, c) \/ IsCreate(u, F, x, c)
         \/ IsAdjust(u, F, x, c) \/ IsAssess(u, F, x, c)
<1>1. CASE Stops(F) # <<>>
  <2>1. c \in SafetySet(u, F)  BY <1>1 DEF PlanSet
  <2>. QED BY <1>1, <2>1 DEF SafetySet, IsSafety
<1>2. CASE Stops(F) = <<>> /\ c \in CompletionSet(u, F, x)
  BY <1>2 DEF CompletionSet, IsCompletion
<1>3. CASE Stops(F) = <<>> /\ c \in IssueSet(u, F, x)
  <2>1. CASE \E i \in 1..Len(Troubles(F)) : Raised(F, i, x) /\ c = RaiseCommand(u, i, Troubles(F)[i])
    BY <1>3, <2>1 DEF IsRaise
  <2>2. CASE \E i \in 1..Len(Troubles(F)) :
               Blocker(F, i, x) /\ c \in BlockingSet(u, i, Troubles(F)[i], x)
    <3>1. PICK i \in 1..Len(Troubles(F)) :
            Blocker(F, i, x) /\ c \in BlockingSet(u, i, Troubles(F)[i], x)
      BY <2>2
    <3>2. PICK f : f = Troubles(F)[i]  OBVIOUS
    <3>3. \/ c = BlockCommand(u, f, x) \/ c = FollowCommand(u, i, f)
          \/ c = RiskCommand(u, i, f, x) /\ Downstream(f.task, x) # {}
      BY <3>1, <3>2 DEF BlockingSet
    <3>. QED BY <1>3, <3>1, <3>2, <3>3 DEF IsBlock, IsFollow, IsRisk
  <2>. QED BY <1>3, <2>1, <2>2 DEF IssueSet
<1>4. CASE Stops(F) = <<>> /\ c \in StockSet(u, F, x)
  <2>1. PICK i \in 1..Len(Stocks(F)) : Stated(F, i, x) /\ c \in MaterialSet(u, Stocks(F)[i], x)
    BY <1>4 DEF StockSet
  <2>2. PICK f : f = Stocks(F)[i]  OBVIOUS
  <2>3. \/ c = CreateCommand(u, f) \/ c = AssessStep(f, x)
        \/ /\ c = AdjustCommand(u, f, x) /\ x.stock[f.material].version # Never
           /\ f.quantity # x.stock[f.material].available
    BY <2>1, <2>2 DEF MaterialSet
  <2>4. x.stock[f.material].version # Never => SaysFirst(F, f.material, i)
    BY <2>1, <2>2 DEF Stated, SaysFirst
  <2>. QED BY <1>4, <2>1, <2>2, <2>3, <2>4 DEF IsCreate, IsAdjust, IsAssess
<1>. QED BY <1>1, <1>2, <1>3, <1>4 DEF PlanSet

IsAsk(u, F, c) == \E m \in Named(F) : IsShort(F, m) /\ c = AskCommand(u, F, m)

IsShortRisk(u, F, c) ==
  \E m \in Named(F) : IsShort(F, m) /\ \E t \in AtRisk(m, Focus(F, Base)) : c = ShortCommand(u, m, t)

LEMMA AskKinds ==
  ASSUME NEW u, NEW F, NEW c \in AskSet(u, F)
  PROVE  IsAsk(u, F, c) \/ IsShortRisk(u, F, c)
BY DEF AskSet, AsksOf, IsAsk, IsShortRisk

\* What an attempt reads while nobody else changes the project.
Reading(u, F, x) ==
  /\ u \in Update /\ F \in Interpretations[u] /\ Plain(F) /\ IsContext(x)
  /\ MovedTo(F, Setup.task, x.task) /\ InOrder(x.task) /\ KeptStock(x.stock)

LEMMA ReadingSame ==
  ASSUME NEW u, NEW F, NEW x, Reading(u, F, x)
  PROVE  /\ Visible(x) = Visible(Base) /\ Focus(F, x) = Focus(F, Base)
         /\ \A i : Raised(F, i, x) <=> Raised(F, i, Base)
         /\ \A i : Blocker(F, i, x) <=> Blocker(F, i, Base)
<1>1. Base.task = Setup.task  BY DEF Base
<1>2. Visible(x) = Visible(Base)  BY <1>1, MovedVisible DEF Reading
<1>3. Focus(F, x) = Focus(F, Base)  BY FocusSame DEF Reading
<1>4. ASSUME NEW i PROVE Raised(F, i, x) <=> Raised(F, i, Base)  BY <1>2 DEF Raised
<1>5. ASSUME NEW i PROVE Blocker(F, i, x) <=> Blocker(F, i, Base)  BY <1>4 DEF Blocker
<1>. QED BY <1>2, <1>3, <1>4, <1>5

LEMMA BlockedTask ==
  ASSUME NEW u, NEW F, NEW x, Reading(u, F, x), NEW i \in 1..Len(Troubles(F)), Blocker(F, i, x),
         Stops(F) = <<>>
  PROVE  Troubles(F)[i].task \in Task /\ Troubles(F)[i].task \in Blocks(F)
<1>1. Troubles(F)[i].task \in Task  BY DEF Blocker, Raised, Visible
<1>2. Blocker(F, i, Base)  BY ReadingSame
<1>. QED BY <1>1, <1>2 DEF Blocks

LEMMA StockFact ==
  ASSUME NEW u \in Update, NEW F \in Interpretations[u], NEW i \in 1..Len(Stocks(F))
  PROVE  /\ Stocks(F)[i].material \in Material /\ Stocks(F)[i].quantity \in Nat
         /\ Stops(F) = <<>> => Stocks(F)[i].material \in Named(F)
<1>1. PICK s : s = Stocks(F)  OBVIOUS
<1>2. IsList(s) /\ \A f \in ToSet(s) : f.material \in Material /\ f.quantity \in Nat
  BY <1>1, SiteUpdateAssumption, ActionableList DEF IsReading, Stocks
<1>3. s[i] \in ToSet(s)  BY <1>1, <1>2, ListShape
<1>. QED BY <1>1, <1>2, <1>3 DEF Named

\* What an attempt sends is what its key stands for; a warning about a task that was
\* completed when the attempt read it is not sent.
LEMMA MeantIsCanonical ==
  ASSUME NEW u, NEW F, NEW x, Reading(u, F, x), NEW c, Meant(u, F, x, c), c.env.op # "assess",
         c.key[2] = "impact" => x.task[c.key[4]].status # "completed"
  PROVE  Canonical(u, F, c)
<1>. USE DEF Reading
<1>1. PICK k : k = c.key  OBVIOUS
<1>2. CASE IsSafety(u, F, c)
  <2>1. PICK i \in 1..Len(Stops(F)) : c = SafetyCommand(u, F, i)  BY <1>2 DEF IsSafety
  <2>2. c.key[2] = "safety" /\ c.key[3] = i  BY <2>1, SafetyKey
  <2>3. EnvOf(u, F, c.key) = SafetyCommand(u, F, i).env  BY <2>2, EnvOfKinds
  <2>. QED BY <2>1, <2>2, <2>3 DEF Canonical
<1>3. CASE IsCompletion(u, F, x, c)
  <2>1. PICK f \in ToSet(First(Resolved(F.completed, x))) : c = CompleteCommand(u, f, x)
    BY <1>3 DEF IsCompletion
  <2>2. f = CompletionOf(F, f.task)
    <3>1. Visible(x) = Visible(Base)  BY ReadingSame
    <3>. QED BY <3>1, CompletionCounts
  <2>3. c.key[2] = "complete" /\ c.key[3] = f.task /\ c.env = CompleteCommand(u, f, Base).env
    <3>1. /\ c.key[2] = "complete" /\ c.key[3] = f.task /\ c.key = <<u, "complete", f.task>>
          /\ c.env.op = "complete" /\ c.env.id = f.task
      BY <2>1, CompleteKey
    <3>2. c.env = CompleteCommand(u, f, Base).env  BY <2>1, CompleteEnv
    <3>. QED BY <3>1, <3>2
  <2>4. EnvOf(u, F, c.key) = CompleteCommand(u, f, Base).env  BY <2>2, <2>3, EnvOfKinds
  <2>. QED BY <2>3, <2>4 DEF Canonical
<1>4. CASE IsRaise(u, F, x, c)
  <2>1. PICK i \in 1..Len(Troubles(F)) : c = RaiseCommand(u, i, Troubles(F)[i])
    BY <1>4 DEF IsRaise
  <2>2. c.key[2] = "issue" /\ c.key[3] = i  BY <2>1, RaiseKey
  <2>3. EnvOf(u, F, c.key) = RaiseCommand(u, i, Troubles(F)[i]).env  BY <2>2, EnvOfKinds
  <2>. QED BY <2>1, <2>2, <2>3 DEF Canonical
<1>5. CASE IsBlock(u, F, x, c)
  <2>1. PICK i \in 1..Len(Troubles(F)) : Blocker(F, i, x) /\ c = BlockCommand(u, Troubles(F)[i], x)
    BY <1>5 DEF IsBlock
  <2>2. PICK f : f = Troubles(F)[i]  OBVIOUS
  <2>3. BlockerOf(F, f.task) = i  BY <2>1, <2>2, BlockerCounts
  <2>4. c.key[2] = "blocked" /\ c.key[3] = f.task /\ c.env = BlockCommand(u, f, Base).env
    <3>1. /\ c.key[2] = "blocked" /\ c.key[3] = f.task /\ c.key = <<u, "blocked", f.task>>
          /\ c.env.op = "progress" /\ c.env.id = f.task
      BY <2>1, <2>2, BlockKey
    <3>2. c.env = BlockCommand(u, f, Base).env  BY <2>1, <2>2, BlockEnv
    <3>. QED BY <3>1, <3>2
  <2>5. EnvOf(u, F, c.key) = BlockCommand(u, f, Base).env  BY <2>2, <2>3, <2>4, EnvOfKinds
  <2>. QED BY <2>4, <2>5 DEF Canonical
<1>6. CASE IsFollow(u, F, x, c)
  <2>1. PICK i \in 1..Len(Troubles(F)) : c = FollowCommand(u, i, Troubles(F)[i])
    BY <1>6 DEF IsFollow
  <2>2. c.key[2] = "follow_up" /\ c.key[3] = i  BY <2>1, FollowKey
  <2>3. EnvOf(u, F, c.key) = FollowCommand(u, i, Troubles(F)[i]).env  BY <2>2, EnvOfKinds
  <2>. QED BY <2>1, <2>2, <2>3 DEF Canonical
<1>7. CASE IsRisk(u, F, x, c)
  <2>1. PICK i \in 1..Len(Troubles(F)) : Blocker(F, i, x) /\ c = RiskCommand(u, i, Troubles(F)[i], x)
    BY <1>7 DEF IsRisk
  <2>2. PICK f : f = Troubles(F)[i]  OBVIOUS
  <2>3. c.key[2] = "impact" /\ c.key[3] = i /\ c.key[4] = f.task  BY <2>1, <2>2, RiskKey
  <2>4. f.task \in Task  BY <2>1, <2>2 DEF Blocker, Raised, Visible
  <2>5. Downstream(f.task, x) = Downstream(f.task, Base)  BY <2>3, <2>4, DownstreamSame
  <2>6. c.env = RiskCommand(u, i, f, Base).env  BY <2>1, <2>2, <2>5, RiskKey
  <2>7. EnvOf(u, F, c.key) = RiskCommand(u, i, f, Base).env  BY <2>2, <2>3, EnvOfKinds
  <2>. QED BY <2>3, <2>6, <2>7 DEF Canonical
<1>8. CASE IsCreate(u, F, x, c)
  <2>1. PICK i \in 1..Len(Stocks(F)) : c = CreateCommand(u, Stocks(F)[i])  BY <1>8 DEF IsCreate
  <2>2. PICK f : f = Stocks(F)[i]  OBVIOUS
  <2>3. /\ c.key[2] = "auto_create" /\ c.key[3] = f.material
        /\ c.env = [op |-> "create_material", id |-> f.material, arg |-> <<>>]
    BY <2>1, <2>2, CreateKey
  <2>4. EnvOf(u, F, c.key) = [op |-> "create_material", id |-> c.key[3], arg |-> <<>>]
    BY <2>3, EnvOfKinds
  <2>. QED BY <2>3, <2>4 DEF Canonical
<1>9. CASE IsAdjust(u, F, x, c)
  <2>1. PICK i \in 1..Len(Stocks(F)) : /\ SaysFirst(F, Stocks(F)[i].material, i)
                                      /\ c = AdjustCommand(u, Stocks(F)[i], x)
    BY <1>9 DEF IsAdjust
  <2>2. PICK f : f = Stocks(F)[i]  OBVIOUS
  <2>3. f = Said(F, f.material)  BY <2>1, <2>2, SaidCounts
  <2>4. PICK delta : delta = f.quantity - x.stock[f.material].available  OBVIOUS
  <2>5. /\ c.key[2] = "reported_stock" /\ c.key[3] = f.material
        /\ c.key = <<u, "reported_stock", f.material>>
        /\ c.env = [op |-> "adjust", id |-> f.material, arg |-> [delta |-> delta, evidence |-> f.evidence]]
        /\ c.env.op = "adjust" /\ c.env.id = f.material
    BY <2>1, <2>2, <2>4, AdjustKey
  <2>6. c.env.arg.delta = delta  BY <2>5
  <2>7. c.env = AdjustEnv(F, c.key[3], c.env.arg.delta)  BY <2>3, <2>5, <2>6 DEF AdjustEnv
  <2>8. c.key = <<u, "reported_stock", c.key[3]>>  BY <2>5
  <2>. QED BY <2>5, <2>7, <2>8 DEF Canonical
<1>10. CASE IsAsk(u, F, c)
  <2>1. PICK m \in Named(F) : c = AskCommand(u, F, m)  BY <1>10 DEF IsAsk
  <2>2. c.key[2] = "shortage" /\ c.key[3] = m  BY <2>1, AskKey
  <2>3. EnvOf(u, F, c.key) = AskCommand(u, F, m).env  BY <2>2, EnvOfKinds
  <2>. QED BY <2>1, <2>2, <2>3 DEF Canonical
<1>11. CASE IsShortRisk(u, F, c)
  <2>1. PICK m, t : c = ShortCommand(u, m, t)  BY <1>11 DEF IsShortRisk
  <2>2. c.key[2] = "material_risk" /\ c.key[3] = m /\ c.key[4] = t  BY <2>1, ShortKey
  <2>3. EnvOf(u, F, c.key) = ShortCommand(u, m, t).env  BY <2>2, EnvOfKinds
  <2>. QED BY <2>1, <2>2, <2>3 DEF Canonical
<1>12. CASE c = ReportCommand(u, F)
  <2>1. c.key[2] = "report"  BY <1>12, ReportKey
  <2>2. EnvOf(u, F, c.key) = ReportCommand(u, F).env  BY <2>1, EnvOfKinds
  <2>. QED BY <1>12, <2>1, <2>2 DEF Canonical
<1>13. ~IsAssess(u, F, x, c)  BY AssessFields DEF IsAssess
<1>14. c \in PlanSet(u, F, x) \/ c \in AskSet(u, F) \/ c = ReportCommand(u, F)  BY DEF Meant
<1>15. CASE c \in PlanSet(u, F, x)
  BY <1>2, <1>3, <1>4, <1>5, <1>6, <1>7, <1>8, <1>9, <1>13, <1>15, PlanKinds
<1>16. CASE c \in AskSet(u, F)  BY <1>10, <1>11, <1>16, AskKinds
<1>. QED BY <1>12, <1>14, <1>15, <1>16

-----------------------------------------------------------------------------
(***************************************************************************)
(* What a command that an attempt sends does.                              *)
(***************************************************************************)
CompletesTask(F, c) ==
  /\ c.env.op = "complete" /\ c.key[2] = "complete" /\ c.key[3] = c.env.id
  /\ c.env.id \in Task /\ c.env.id \in Completes(F)
  /\ c.env.arg.percent = Whole /\ c.env.arg.human = FALSE

BlocksTask(F, c) ==
  /\ c.env.op = "progress" /\ c.key[2] = "blocked"
  /\ c.env.id \in Task /\ c.env.id \in Blocks(F)
  /\ c.env.arg.target = "blocked" /\ c.env.arg.percent = NoPercent /\ c.env.arg.human = FALSE

FollowsUp(F, c) ==
  c.env.op = "follow_up" /\ c.key[2] = "follow_up" /\ c.key[4] = c.env.id /\ c.env.id \in Task
  /\ c.env.id \in Blocks(F)

CreatesStock(c) ==
  c.env.op = "create_material" /\ c.key[2] = "auto_create" /\ c.env.id \in Material

AdjustsStock(u, F, x, c) ==
  /\ c.env.op = "adjust" /\ c.key[2] = "reported_stock" /\ c.key[3] = c.env.id
  /\ c.env.id \in Material /\ c.key = <<u, "reported_stock", c.env.id>>
  /\ Said(F, c.env.id).quantity \in Nat /\ x.stock[c.env.id].version # Never
  /\ c.env.arg.delta = Said(F, c.env.id).quantity - x.stock[c.env.id].available
  /\ Said(F, c.env.id).quantity # x.stock[c.env.id].available

OnlyTells(c) ==
  /\ c.env.op \in {"issue", "shortage", "report"}
  /\ c.key[2] \in {"safety", "issue", "impact", "shortage", "material_risk", "report"}
  /\ c.key[2] = "impact" => c.env.op = "issue" /\ c.key[4] \in Task

LEMMA MeantEffects ==
  ASSUME NEW u, NEW F, NEW x, Reading(u, F, x), NEW c, Meant(u, F, x, c), c.env.op # "assess"
  PROVE  CompletesTask(F, c) \/ BlocksTask(F, c) \/ FollowsUp(F, c) \/ CreatesStock(c)
         \/ AdjustsStock(u, F, x, c) \/ OnlyTells(c)
<1>1. u \in Update /\ F \in Interpretations[u]  BY DEF Reading
<1>2. CASE IsSafety(u, F, c)
  BY <1>2, SafetyKey DEF IsSafety, OnlyTells
<1>3. CASE IsCompletion(u, F, x, c)
  <2>1. PICK f \in ToSet(First(Resolved(F.completed, x))) : c = CompleteCommand(u, f, x)
    BY <1>3 DEF IsCompletion
  <2>2. Stops(F) = <<>>  BY <1>3 DEF IsCompletion
  <2>3. Visible(x) = Visible(Base)  BY ReadingSame
  <2>4. f.task \in Completes(F)  BY <1>1, <2>2, <2>3, CompletionCounts
  <2>5. f.task \in Task
    <3>1. IsList(F.completed)  BY <1>1, SiteUpdateAssumption DEF IsReading
    <3>2. IsList(Resolved(F.completed, x))  BY <3>1, ResolvedList
    <3>3. f \in ToSet(Resolved(F.completed, x))  BY <3>2, FirstList
    <3>. QED BY <3>1, <3>3, ResolvedList DEF Visible
  <2>6. /\ c.key[2] = "complete" /\ c.key[3] = f.task /\ c.key = <<u, "complete", f.task>>
        /\ c.env.op = "complete" /\ c.env.id = f.task
    BY <2>1, CompleteKey
  <2>7. c.env.arg = CompletionArg(f)  BY <2>1, CompleteEnv
  <2>8. c.env.arg.percent = Whole /\ c.env.arg.human = FALSE  BY <2>7 DEF CompletionArg
  <2>. QED BY <2>4, <2>5, <2>6, <2>8 DEF CompletesTask
<1>4. CASE IsRaise(u, F, x, c)
  BY <1>4, RaiseKey DEF IsRaise, OnlyTells
<1>5. CASE IsBlock(u, F, x, c)
  <2>1. PICK i \in 1..Len(Troubles(F)) : Blocker(F, i, x) /\ c = BlockCommand(u, Troubles(F)[i], x)
    BY <1>5 DEF IsBlock
  <2>2. PICK f : f = Troubles(F)[i]  OBVIOUS
  <2>3. f.task \in Task /\ f.task \in Blocks(F)  BY <1>5, <2>1, <2>2, BlockedTask DEF IsBlock
  <2>4. /\ c.key[2] = "blocked" /\ c.key[3] = f.task /\ c.key = <<u, "blocked", f.task>>
        /\ c.env.op = "progress" /\ c.env.id = f.task
    BY <2>1, <2>2, BlockKey
  <2>5. c.env.arg = BlockArg(f)  BY <2>1, <2>2, BlockEnv
  <2>6. c.env.arg.target = "blocked" /\ c.env.arg.percent = NoPercent /\ c.env.arg.human = FALSE
    BY <2>5 DEF BlockArg
  <2>. QED BY <2>3, <2>4, <2>6 DEF BlocksTask
<1>6. CASE IsFollow(u, F, x, c)
  <2>1. PICK i \in 1..Len(Troubles(F)) : Blocker(F, i, x) /\ c = FollowCommand(u, i, Troubles(F)[i])
    BY <1>6 DEF IsFollow
  <2>2. PICK f : f = Troubles(F)[i]  OBVIOUS
  <2>3. f.task \in Task /\ f.task \in Blocks(F)  BY <1>6, <2>1, <2>2, BlockedTask DEF IsFollow
  <2>4. /\ c.key[2] = "follow_up" /\ c.key[3] = i /\ c.key[4] = f.task
        /\ c.env.op = "follow_up" /\ c.env.id = f.task
    BY <2>1, <2>2, FollowKey
  <2>. QED BY <2>3, <2>4 DEF FollowsUp
<1>7. CASE IsRisk(u, F, x, c)
  <2>1. PICK i \in 1..Len(Troubles(F)) : Blocker(F, i, x) /\ c = RiskCommand(u, i, Troubles(F)[i], x)
    BY <1>7 DEF IsRisk
  <2>2. PICK f : f = Troubles(F)[i]  OBVIOUS
  <2>3. f.task \in Task  BY <1>7, <2>1, <2>2, BlockedTask DEF IsRisk
  <2>4. c.key[2] = "impact" /\ c.key[4] = f.task /\ c.env.op = "issue"  BY <2>1, <2>2, RiskKey
  <2>. QED BY <2>3, <2>4 DEF OnlyTells
<1>8. CASE IsCreate(u, F, x, c)
  <2>1. PICK i \in 1..Len(Stocks(F)) : c = CreateCommand(u, Stocks(F)[i])  BY <1>8 DEF IsCreate
  <2>2. PICK f : f = Stocks(F)[i]  OBVIOUS
  <2>3. f.material \in Material  BY <1>1, <2>2, StockFact
  <2>4. /\ c.key[2] = "auto_create" /\ c.key[3] = f.material
        /\ c.env = [op |-> "create_material", id |-> f.material, arg |-> <<>>]
        /\ c.env.op = "create_material" /\ c.env.id = f.material
    BY <2>1, <2>2, CreateKey
  <2>. QED BY <2>3, <2>4 DEF CreatesStock
<1>9. CASE IsAdjust(u, F, x, c)
  <2>1. PICK i \in 1..Len(Stocks(F)) :
          /\ SaysFirst(F, Stocks(F)[i].material, i) /\ c = AdjustCommand(u, Stocks(F)[i], x)
          /\ x.stock[Stocks(F)[i].material].version # Never
          /\ Stocks(F)[i].quantity # x.stock[Stocks(F)[i].material].available
    BY <1>9 DEF IsAdjust
  <2>2. PICK f : f = Stocks(F)[i]  OBVIOUS
  <2>3. f = Said(F, f.material)  BY <1>1, <2>1, <2>2, SaidCounts
  <2>4. f.material \in Material /\ f.quantity \in Nat  BY <1>1, <2>2, StockFact
  <2>5. PICK delta : delta = f.quantity - x.stock[f.material].available  OBVIOUS
  <2>6. /\ c.key[2] = "reported_stock" /\ c.key[3] = f.material
        /\ c.key = <<u, "reported_stock", f.material>>
        /\ c.env = [op |-> "adjust", id |-> f.material, arg |-> [delta |-> delta, evidence |-> f.evidence]]
        /\ c.env.op = "adjust" /\ c.env.id = f.material
    BY <2>1, <2>2, <2>5, AdjustKey
  <2>7. c.env.arg.delta = delta  BY <2>6
  <2>. QED BY <2>1, <2>2, <2>3, <2>4, <2>5, <2>6, <2>7 DEF AdjustsStock
<1>10. CASE IsAsk(u, F, c)
  BY <1>10, AskKey DEF IsAsk, OnlyTells
<1>11. CASE IsShortRisk(u, F, c)
  BY <1>11, ShortKey DEF IsShortRisk, OnlyTells
<1>12. CASE c = ReportCommand(u, F)
  BY <1>12, ReportKey DEF OnlyTells
<1>13. ~IsAssess(u, F, x, c)  BY AssessFields DEF IsAssess
<1>14. CASE c \in PlanSet(u, F, x)
  BY <1>2, <1>3, <1>4, <1>5, <1>6, <1>7, <1>8, <1>9, <1>13, <1>14, PlanKinds
<1>15. CASE c \in AskSet(u, F)  BY <1>10, <1>11, <1>15, AskKinds
<1>. QED BY <1>12, <1>14, <1>15 DEF Meant

\* What is compared with the need: the quantity that the report says, of a material
\* that was there from the beginning.
LEMMA MeantAssess ==
  ASSUME NEW u, NEW F, NEW x, Reading(u, F, x), NEW c, Meant(u, F, x, c), c.env.op = "assess"
  PROVE  /\ c.env.id \in Material /\ c.env.id \in Named(F) /\ c.reported \in Nat
         /\ c.minimum = Setup.stock[c.env.id].minimum
         /\ Setup.stock[c.env.id].version # Never =>
              c.reported = Said(F, c.env.id).quantity /\ c.evidence = Said(F, c.env.id).evidence
<1>1. u \in Update /\ F \in Interpretations[u] /\ KeptStock(x.stock)  BY DEF Reading
<1>2. IsAssess(u, F, x, c)
  <2>1. ASSUME c \in PlanSet(u, F, x) PROVE IsAssess(u, F, x, c)
    <3>1. ~IsSafety(u, F, c)  BY SafetyKey DEF IsSafety
    <3>2. ~IsCompletion(u, F, x, c)
      <4>. SUFFICES ASSUME NEW f, c = CompleteCommand(u, f, x) PROVE FALSE  BY DEF IsCompletion
      <4>1. /\ c.key[2] = "complete" /\ c.key[3] = f.task /\ c.key = <<u, "complete", f.task>>
            /\ c.env.op = "complete" /\ c.env.id = f.task
        BY CompleteKey
      <4>. QED BY <4>1
    <3>3. ~IsRaise(u, F, x, c)  BY RaiseKey DEF IsRaise
    <3>4. ~IsBlock(u, F, x, c)
      <4>. SUFFICES ASSUME NEW f, c = BlockCommand(u, f, x) PROVE FALSE  BY DEF IsBlock
      <4>1. /\ c.key[2] = "blocked" /\ c.key[3] = f.task /\ c.key = <<u, "blocked", f.task>>
            /\ c.env.op = "progress" /\ c.env.id = f.task
        BY BlockKey
      <4>. QED BY <4>1
    <3>5. ~IsFollow(u, F, x, c)  BY FollowKey DEF IsFollow
    <3>6. ~IsRisk(u, F, x, c)
      <4>. SUFFICES ASSUME NEW i, NEW f, c = RiskCommand(u, i, f, x) PROVE FALSE  BY DEF IsRisk
      <4>. QED BY RiskKey
    <3>7. ~IsCreate(u, F, x, c)
      <4>. SUFFICES ASSUME NEW f, c = CreateCommand(u, f) PROVE FALSE  BY DEF IsCreate
      <4>. QED BY CreateKey
    <3>8. ~IsAdjust(u, F, x, c)
      <4>. SUFFICES ASSUME NEW f, c = AdjustCommand(u, f, x) PROVE FALSE  BY DEF IsAdjust
      <4>1. c.env.op = "adjust"  BY AdjustKey
      <4>. QED BY <4>1
    <3>. QED BY <2>1, <3>1, <3>2, <3>3, <3>4, <3>5, <3>6, <3>7, <3>8, PlanKinds
  <2>2. c \notin AskSet(u, F)
    <3>1. ~IsAsk(u, F, c)  BY AskKey DEF IsAsk
    <3>2. ~IsShortRisk(u, F, c)  BY ShortKey DEF IsShortRisk
    <3>. QED BY <3>1, <3>2, AskKinds
  <2>3. c # ReportCommand(u, F)  BY ReportKey
  <2>. QED BY <2>1, <2>2, <2>3 DEF Meant
<1>3. PICK i \in 1..Len(Stocks(F)) : Stated(F, i, x) /\ c = AssessStep(Stocks(F)[i], x)
  BY <1>2 DEF IsAssess
<1>4. PICK f : f = Stocks(F)[i]  OBVIOUS
<1>5. f.material \in Material /\ f.quantity \in Nat /\ f.material \in Named(F)
  BY <1>1, <1>2, <1>4, StockFact DEF IsAssess
<1>6. /\ c.env.op = "assess" /\ c.env.id = f.material /\ c.reported = f.quantity
      /\ c.evidence = f.evidence /\ c.minimum = x.stock[f.material].minimum
  BY <1>3, <1>4, AssessFields
<1>7. ASSUME Setup.stock[f.material].version # Never PROVE f = Said(F, f.material)
  <2>1. x.stock[f.material].version # Never  BY <1>1, <1>5, <1>7 DEF KeptStock
  <2>2. SaysFirst(F, f.material, i)  BY <1>3, <1>4, <2>1 DEF Stated, SaysFirst
  <2>. QED BY <1>1, <1>4, <2>2, SaidCounts
<1>8. x.stock[f.material].minimum = Setup.stock[f.material].minimum  BY <1>1, <1>5 DEF KeptStock
<1>. QED BY <1>5, <1>6, <1>7, <1>8

-----------------------------------------------------------------------------
(***************************************************************************)
(* One command of the update is performed.                                 *)
(***************************************************************************)
\* A stock that is there changes once, by the movement that is recorded for it.
StockSteps(u) ==
  \A m \in Material : Exists(m) =>
    \/ stock'[m].available = stock[m].available
    \/ /\ ~\E e \in activity : e.key = <<u, "reported_stock", m>>
       /\ \E e \in activity' : /\ e.key = <<u, "reported_stock", m>>
                               /\ e.env.arg.delta = stock'[m].available - stock[m].available

StockStays == \A m \in Material : Exists(m) => Exists(m)' /\ stock'[m] = stock[m]

\* The tasks and the stock, by the command.
LEMMA CompletionGoes ==
  ASSUME RecordsInv, NEW F, NEW c, CompletesTask(F, c), Can(c), Do(c), InOrder(task)
  PROVE  /\ MovedTo(F, task, task') /\ InOrder(task') /\ task'[c.env.id].status = "completed"
         /\ UNCHANGED stock
<1>1. PICK t, a : t = c.env.id /\ a = c.env.arg  OBVIOUS
<1>2. t \in Task /\ t \in Completes(F) /\ a.percent = Whole /\ a.human = FALSE /\ c.env.op = "complete"
  BY <1>1 DEF CompletesTask
<1>3. CanUpdateTask(c) /\ UpdateTask(c)  BY <1>2 DEF Can, Do
<1>4. Target(t, a) = "completed"  BY <1>2 DEF Target, RequestsCompletion
<1>5. /\ task[t].status \in {"planned", "in_progress", "completed"}
      /\ \A d \in Depends[t] : task[d].status = "completed"
  BY <1>1, <1>2, <1>3, <1>4 DEF CanUpdateTask, MayMove, DependenciesDone, RecordsInv, TasksInv,
                                TaskRecord, Statuses, Transitions
<1>6. PICK r : task' = [task EXCEPT ![t] = r] /\ r.status = "completed"
  <2>1. PICK r : r = [status |-> Target(t, a), percent |-> Percent(t, a),
                      start |-> IF Target(t, a) = "in_progress" /\ task[t].start = Never
                                THEN c.at ELSE task[t].start,
                      end |-> CASE Target(t, a) = "completed" -> c.at
                                [] task[t].status = "completed" /\ Target(t, a) = "in_progress" -> Never
                                [] OTHER -> task[t].end,
                      version |-> task[t].version + 1]
    OBVIOUS
  <2>2. r.status = "completed"  BY <1>4, <2>1
  <2>3. task' = [task EXCEPT ![t] = r]  BY <1>1, <1>3, <2>1 DEF UpdateTask
  <2>. QED BY <2>2, <2>3
<1>7. task \in [Task -> TaskRecord]  BY DEF RecordsInv, TasksInv
<1>8. \A d \in Task : task'[d] = IF d = t THEN r ELSE task[d]  BY <1>2, <1>6, <1>7
<1>9. MovedTo(F, task, task')  BY <1>2, <1>5, <1>6, <1>8 DEF MovedTo
<1>10. InOrder(task')
  <2>1. \A d \in Task : task[d].status = "completed" => task'[d].status = "completed"  BY <1>6, <1>8
  <2>2. \A d \in Task : Depends[d] \subseteq Task  BY RecordsAssumption
  <2>. QED BY <1>5, <1>6, <1>8, <2>1, <2>2 DEF InOrder
<1>11. UNCHANGED stock  BY <1>3 DEF UpdateTask
<1>. QED BY <1>1, <1>2, <1>6, <1>8, <1>9, <1>10, <1>11

LEMMA BlockGoes ==
  ASSUME RecordsInv, NEW F, NEW c, BlocksTask(F, c), Can(c), Do(c), InOrder(task)
  PROVE  MovedTo(F, task, task') /\ InOrder(task') /\ UNCHANGED stock
<1>1. PICK t, a : t = c.env.id /\ a = c.env.arg  OBVIOUS
<1>2. /\ t \in Task /\ t \in Blocks(F) /\ a.target = "blocked" /\ a.percent = NoPercent
      /\ a.human = FALSE /\ c.env.op = "progress"
  BY <1>1 DEF BlocksTask
<1>3. CanUpdateTask(c) /\ UpdateTask(c)  BY <1>2 DEF Can, Do
<1>4. Target(t, a) = "blocked"
  BY <1>2 DEF Target, RequestsCompletion, NoPercent, Whole, None
<1>5. task[t].status \in {"planned", "in_progress", "blocked"}
  BY <1>1, <1>2, <1>3, <1>4 DEF CanUpdateTask, MayMove, RecordsInv, TasksInv, TaskRecord, Statuses,
                                Transitions
<1>6. PICK r : task' = [task EXCEPT ![t] = r] /\ r.status = "blocked"
  <2>1. PICK r : r = [status |-> Target(t, a), percent |-> Percent(t, a),
                      start |-> IF Target(t, a) = "in_progress" /\ task[t].start = Never
                                THEN c.at ELSE task[t].start,
                      end |-> CASE Target(t, a) = "completed" -> c.at
                                [] task[t].status = "completed" /\ Target(t, a) = "in_progress" -> Never
                                [] OTHER -> task[t].end,
                      version |-> task[t].version + 1]
    OBVIOUS
  <2>2. r.status = "blocked"  BY <1>4, <2>1
  <2>3. task' = [task EXCEPT ![t] = r]  BY <1>1, <1>3, <2>1 DEF UpdateTask
  <2>. QED BY <2>2, <2>3
<1>7. task \in [Task -> TaskRecord]  BY DEF RecordsInv, TasksInv
<1>8. \A d \in Task : task'[d] = IF d = t THEN r ELSE task[d]  BY <1>2, <1>6, <1>7
<1>9. MovedTo(F, task, task')  BY <1>2, <1>5, <1>6, <1>8 DEF MovedTo
<1>10. InOrder(task')
  <2>1. \A d \in Task : task[d].status = "completed" <=> task'[d].status = "completed"
    BY <1>5, <1>6, <1>8
  <2>2. \A d \in Task : Depends[d] \subseteq Task  BY RecordsAssumption
  <2>. QED BY <2>1, <2>2 DEF InOrder
<1>11. UNCHANGED stock  BY <1>3 DEF UpdateTask
<1>. QED BY <1>9, <1>10, <1>11

LEMMA CreationGoes ==
  ASSUME RecordsInv, NEW c, CreatesStock(c), Can(c), Do(c), KeptStock(stock)
  PROVE  StockStays /\ KeptStock(stock') /\ UNCHANGED task
<1>1. PICK m : m = c.env.id  OBVIOUS
<1>2. m \in Material /\ c.env.op = "create_material"  BY <1>1 DEF CreatesStock
<1>3. ~Exists(m) /\ CreateMaterial(c)  BY <1>1, <1>2 DEF Can, CanCreateMaterial, Do
<1>4. /\ stock' = [stock EXCEPT ![m] = [@ EXCEPT !.available = c.quantity, !.version = 0]]
      /\ UNCHANGED task
  BY <1>1, <1>3 DEF CreateMaterial
<1>5. stock \in [Material -> StockRecord]  BY DEF RecordsInv, StockInv
<1>6. /\ \A n \in Material : n # m => stock'[n] = stock[n]
      /\ stock'[m].minimum = stock[m].minimum /\ stock'[m].version = 0
  BY <1>2, <1>4, <1>5 DEF StockRecord
<1>7. StockStays  BY <1>3, <1>6 DEF StockStays, Exists
<1>8. KeptStock(stock')  BY <1>6 DEF KeptStock, Never
<1>. QED BY <1>4, <1>7, <1>8

LEMMA AdjustmentGoes ==
  ASSUME RecordsInv, NEW u, NEW F, NEW x, IsContext(x), NEW c, AdjustsStock(u, F, x, c), Can(c), Do(c),
         KeptStock(stock), x.stock[c.env.id].available = stock[c.env.id].available
  PROVE  /\ \A m \in Material : Exists(m) => Exists(m)' /\ (m # c.env.id => stock'[m] = stock[m])
         /\ Exists(c.env.id) /\ stock'[c.env.id].available = Said(F, c.env.id).quantity
         /\ stock'[c.env.id].available - stock[c.env.id].available = c.env.arg.delta
         /\ KeptStock(stock') /\ UNCHANGED task
<1>1. PICK m, delta : m = c.env.id /\ delta = c.env.arg.delta  OBVIOUS
<1>2. /\ m \in Material /\ c.env.op = "adjust" /\ Said(F, m).quantity \in Nat
      /\ delta = Said(F, m).quantity - x.stock[m].available
  BY <1>1 DEF AdjustsStock
<1>3. Exists(m) /\ AdjustQuantity(c)  BY <1>1, <1>2 DEF Can, CanAdjust, Do
<1>4. /\ stock' = [stock EXCEPT ![m].available = stock[m].available + delta, ![m].version = @ + 1]
      /\ UNCHANGED task
  BY <1>1, <1>3 DEF AdjustQuantity, Move
<1>5. stock \in [Material -> StockRecord]  BY DEF RecordsInv, StockInv
<1>6. /\ \A n \in Material : n # m => stock'[n] = stock[n]
      /\ stock'[m].minimum = stock[m].minimum /\ stock'[m].version = stock[m].version + 1
      /\ stock'[m].available = stock[m].available + delta
  BY <1>2, <1>4, <1>5 DEF StockRecord
<1>7. stock[m].available \in Int /\ stock[m].version \in Nat
  BY <1>2, <1>3, <1>5 DEF StockRecord, Exists
<1>8. stock'[m].version # Never  BY <1>6, <1>7 DEF Never
<1>9. stock'[m].available = Said(F, m).quantity /\ stock'[m].available - stock[m].available = delta
  <2>1. x.stock[m].available = stock[m].available  BY <1>1
  <2>2. delta \in Int  BY <1>2, <1>7, <2>1
  <2>. QED BY <1>2, <1>6, <1>7, <2>1, <2>2
<1>10. \A n \in Material : Exists(n) => Exists(n)' /\ (n # m => stock'[n] = stock[n])
  BY <1>6, <1>8 DEF Exists
<1>11. KeptStock(stock')  BY <1>6, <1>8 DEF KeptStock
<1>. QED BY <1>1, <1>3, <1>4, <1>9, <1>10, <1>11

LEMMA EntrySettles ==
  ASSUME NEW u, NEW F, Settled(u, F), MovedTo(F, task, task'), InOrder(task'), KeptStock(stock'),
         NEW e, activity' = activity \cup {e}, \A o \in activity : o.key # e.key,
         Canonical(u, F, e), Effective(F, e)',
         \A o \in activity : o.key[2] = "reported_stock" =>
           Exists(o.key[3])' /\ stock'[o.key[3]].available = stock[o.key[3]].available
  PROVE  Settled(u, F)'
<1>1. MovedTo(F, Setup.task, task')  BY MovedTwice DEF Settled
<1>2. ASSUME NEW o \in activity PROVE Canonical(u, F, o) /\ Effective(F, o)'
  <2>1. Canonical(u, F, o) /\ Effective(F, o)  BY DEF Settled
  <2>2. \A t \in Task : task[t].status \in {"completed", "blocked"} => task'[t].status = task[t].status
    BY DEF MovedTo
  <2>3. o.key[2] = "complete" => o.key[3] \in Task /\ task'[o.key[3]].status = "completed"
    BY <2>1, <2>2 DEF Effective
  <2>4. o.key[2] = "follow_up" => o.key[4] \in Task /\ task'[o.key[4]].status = "blocked"
    BY <2>1, <2>2 DEF Effective
  <2>5. o.key[2] = "reported_stock" =>
          /\ o.key[3] \in Material /\ Exists(o.key[3])'
          /\ stock'[o.key[3]].available = Said(F, o.key[3]).quantity
    BY <2>1 DEF Effective
  <2>. QED BY <2>1, <2>3, <2>4, <2>5 DEF Effective
<1>3. \A o \in activity' : Canonical(u, F, o) /\ Effective(F, o)'  BY <1>2
<1>4. \A o, p \in activity' : o.key = p.key => o = p  BY DEF Settled
<1>. QED BY <1>1, <1>3, <1>4 DEF Settled

LEMMA RipeIsCanonical ==
  ASSUME NEW u, NEW F, NEW x, Reading(u, F, x), MovedTo(F, x.task, task), NEW c, Meant(u, F, x, c),
         c.env.op # "assess", Ripe(c)
  PROVE  Canonical(u, F, c)
<1>1. CompletesTask(F, c) \/ BlocksTask(F, c) \/ FollowsUp(F, c) \/ CreatesStock(c)
      \/ AdjustsStock(u, F, x, c) \/ OnlyTells(c)
  BY MeantEffects
<1>2. c.key[2] = "impact" => x.task[c.key[4]].status # "completed"
  <2>. SUFFICES ASSUME c.key[2] = "impact" PROVE x.task[c.key[4]].status # "completed"  OBVIOUS
  <2>1. c.env.op = "issue" /\ c.key[4] \in Task
    BY <1>1 DEF CompletesTask, BlocksTask, FollowsUp, CreatesStock, AdjustsStock, OnlyTells
  <2>2. task[c.key[4]].status = "blocked"  BY <2>1 DEF Ripe
  <2>. QED BY <2>1, <2>2 DEF MovedTo
<1>. QED BY <1>2, MeantIsCanonical

LEMMA PerformSettles ==
  ASSUME RecordsInv, NEW u, NEW F, NEW x, Reading(u, F, x), Settled(u, F), MovedTo(F, x.task, task),
         ReadStock(u, x.stock), NEW c, Meant(u, F, x, c), c.env.op # "assess", Ripe(c), Perform(c)
  PROVE  Settled(u, F)' /\ MovedTo(F, task, task') /\ StockSteps(u)
<1>0. PICK e : e = [key |-> c.key, env |-> c.env]  OBVIOUS
<1>1. /\ e.key = c.key /\ e.env = c.env
      /\ Fresh(c) /\ Can(c) /\ Do(c) /\ activity' = activity \cup {e}
  BY <1>0 DEF Perform, Record
<1>2. \A o \in activity : o.key # e.key  BY <1>1 DEF Fresh, Known
<1>3. CompletesTask(F, c) \/ BlocksTask(F, c) \/ FollowsUp(F, c) \/ CreatesStock(c)
      \/ AdjustsStock(u, F, x, c) \/ OnlyTells(c)
  BY MeantEffects
<1>4. Canonical(u, F, e)
  <2>1. Canonical(u, F, c)  BY RipeIsCanonical
  <2>. QED BY <1>1, <2>1 DEF Canonical
<1>5. InOrder(task) /\ KeptStock(stock)  BY DEF Settled
<1>6. \A o \in activity : o.key[2] = "reported_stock" => o.key[3] \in Material /\ Exists(o.key[3])
  BY DEF Settled, Effective
<1>7. ASSUME UNCHANGED stock
      PROVE  /\ StockSteps(u) /\ KeptStock(stock')
             /\ \A o \in activity : o.key[2] = "reported_stock" =>
                  Exists(o.key[3])' /\ stock'[o.key[3]].available = stock[o.key[3]].available
  BY <1>5, <1>6, <1>7 DEF StockSteps, Exists
<1>8. CASE CompletesTask(F, c)
  <2>1. /\ MovedTo(F, task, task') /\ InOrder(task') /\ task'[c.env.id].status = "completed"
        /\ UNCHANGED stock
    BY <1>1, <1>5, <1>8, CompletionGoes
  <2>2. Effective(F, e)'  BY <1>1, <1>8, <2>1 DEF Effective, CompletesTask
  <2>. QED BY <1>1, <1>2, <1>4, <1>7, <2>1, <2>2, EntrySettles
<1>9. CASE BlocksTask(F, c)
  <2>1. MovedTo(F, task, task') /\ InOrder(task') /\ UNCHANGED stock
    BY <1>1, <1>5, <1>9, BlockGoes
  <2>2. Effective(F, e)'  BY <1>1, <1>9 DEF Effective, BlocksTask
  <2>. QED BY <1>1, <1>2, <1>4, <1>7, <2>1, <2>2, EntrySettles
<1>10. ASSUME UNCHANGED task PROVE MovedTo(F, task, task') /\ InOrder(task')
  BY <1>5, <1>10 DEF MovedTo, InOrder
<1>11. CASE FollowsUp(F, c)
  <2>1. c.env.op = "follow_up" /\ c.key[2] = "follow_up" /\ c.key[4] = c.env.id /\ c.env.id \in Task
    BY <1>11 DEF FollowsUp
  <2>2. CanFollowUp(c) /\ FollowUp(c)  BY <1>1, <2>1 DEF Can, Do
  <2>3. UNCHANGED <<task, stock>> /\ task[c.env.id].status = "blocked"
    BY <2>2 DEF CanFollowUp, FollowUp
  <2>4. Effective(F, e)'  BY <1>1, <2>1, <2>3 DEF Effective
  <2>. QED BY <1>1, <1>2, <1>4, <1>7, <1>10, <2>3, <2>4, EntrySettles
<1>12. CASE OnlyTells(c)
  <2>1. CreateIssue(c) \/ NewRequest(c) \/ ProjectReport(c)  BY <1>1, <1>12 DEF OnlyTells, Do
  <2>2. UNCHANGED <<task, stock>>  BY <2>1 DEF CreateIssue, NewRequest, ProjectReport
  <2>3. Effective(F, e)'  BY <1>1, <1>12 DEF Effective, OnlyTells
  <2>. QED BY <1>1, <1>2, <1>4, <1>7, <1>10, <2>2, <2>3, EntrySettles
<1>13. CASE CreatesStock(c)
  <2>1. StockStays /\ KeptStock(stock') /\ UNCHANGED task  BY <1>1, <1>5, <1>13, CreationGoes
  <2>2. Effective(F, e)'  BY <1>1, <1>13 DEF Effective, CreatesStock
  <2>3. StockSteps(u)  BY <2>1 DEF StockSteps, StockStays
  <2>4. \A o \in activity : o.key[2] = "reported_stock" =>
          Exists(o.key[3])' /\ stock'[o.key[3]].available = stock[o.key[3]].available
    BY <1>6, <2>1 DEF StockStays
  <2>. QED BY <1>1, <1>2, <1>4, <1>10, <2>1, <2>2, <2>3, <2>4, EntrySettles
<1>14. CASE AdjustsStock(u, F, x, c)
  <2>. DEFINE m == c.env.id
  <2>1. /\ c.key = <<u, "reported_stock", m>> /\ c.key[2] = "reported_stock" /\ c.key[3] = m
        /\ m \in Material /\ x.stock[m].version # Never
    BY <1>14 DEF AdjustsStock
  <2>2. ~\E o \in activity : o.key = <<u, "reported_stock", m>>  BY <1>1, <1>2, <2>1
  <2>3. x.stock[m].available = stock[m].available  BY <2>1, <2>2 DEF ReadStock
  <2>4. /\ \A n \in Material : Exists(n) => Exists(n)' /\ (n # m => stock'[n] = stock[n])
        /\ Exists(m) /\ stock'[m].available = Said(F, m).quantity
        /\ stock'[m].available - stock[m].available = c.env.arg.delta
        /\ KeptStock(stock') /\ UNCHANGED task
    <3>1. IsContext(x)  BY DEF Reading
    <3>. QED BY <1>1, <1>5, <1>14, <2>3, <3>1, AdjustmentGoes
  <2>. HIDE DEF m
  <2>5. Effective(F, e)'  BY <1>1, <2>1, <2>4 DEF Effective
  <2>6. StockSteps(u)
    <3>1. e \in activity' /\ e.key = <<u, "reported_stock", m>>
          /\ e.env.arg.delta = stock'[m].available - stock[m].available
      BY <1>1, <2>1, <2>4 DEF m
    <3>. QED BY <2>2, <2>4, <3>1 DEF StockSteps
  <2>7. ASSUME NEW o \in activity, o.key[2] = "reported_stock"
        PROVE  Exists(o.key[3])' /\ stock'[o.key[3]].available = stock[o.key[3]].available
    <3>1. o.key = <<u, "reported_stock", o.key[3]>>  BY <2>7 DEF Settled, Canonical
    <3>2. o.key[3] # m  BY <2>2, <3>1
    <3>. QED BY <1>6, <2>4, <2>7, <3>2
  <2>. QED BY <1>1, <1>2, <1>4, <1>10, <2>4, <2>5, <2>6, <2>7, EntrySettles
<1>. QED BY <1>3, <1>8, <1>9, <1>11, <1>12, <1>13, <1>14

-----------------------------------------------------------------------------
(***************************************************************************)
(* The attempts, while the report changes the project.                     *)
(***************************************************************************)
LEMMA RipeStays ==
  ASSUME NEW u, NEW F, NEW x, Reading(u, F, x), Settled(u, F), Settled(u, F)', MovedTo(F, task, task'),
         StockSteps(u), NEW c, Meant(u, F, x, c), Ripe(c)
  PROVE  Ripe(c)'
<1>1. ASSUME c.env.op = "issue", c.key[2] = "impact" PROVE task'[c.key[4]].status = "blocked"
  <2>1. CompletesTask(F, c) \/ BlocksTask(F, c) \/ FollowsUp(F, c) \/ CreatesStock(c)
        \/ AdjustsStock(u, F, x, c) \/ OnlyTells(c)
    BY <1>1, MeantEffects
  <2>2. c.key[4] \in Task
    BY <1>1, <2>1 DEF CompletesTask, BlocksTask, FollowsUp, CreatesStock, AdjustsStock, OnlyTells
  <2>3. task[c.key[4]].status = "blocked"  BY <1>1 DEF Ripe
  <2>. QED BY <2>2, <2>3 DEF MovedTo
<1>2. ASSUME c.env.op = "assess", Setup.stock[c.env.id].version # Never
      PROVE  stock'[c.env.id].available = c.reported
  <2>1. PICK m : m = c.env.id  OBVIOUS
  <2>2. m \in Material /\ c.reported = Said(F, m).quantity  BY <1>2, <2>1, MeantAssess
  <2>3. Exists(m) /\ stock[m].available = c.reported
    BY <1>2, <2>1, <2>2 DEF Ripe, Settled, KeptStock, Exists
  <2>4. CASE stock'[m].available = stock[m].available  BY <2>1, <2>3, <2>4
  <2>5. CASE \E e \in activity' : e.key = <<u, "reported_stock", m>>
    <3>1. PICK e \in activity' : e.key = <<u, "reported_stock", m>>  BY <2>5
    <3>2. e.key[2] = "reported_stock" /\ e.key[3] = m  BY <3>1
    <3>3. stock'[m].available = Said(F, m).quantity  BY <3>2 DEF Settled, Effective
    <3>. QED BY <2>1, <2>2, <3>3
  <2>. QED BY <2>2, <2>3, <2>4, <2>5 DEF StockSteps
<1>. QED BY <1>1, <1>2 DEF Ripe

LEMMA ReadStockStays ==
  ASSUME RecordsInv, NEW u, NEW x, IsContext(x), SeenBefore(x), ReadStock(u, x.stock), StockSteps(u),
         activity \subseteq activity'
  PROVE  ReadStock(u, x.stock)'
<1>. SUFFICES ASSUME NEW m \in Material, x.stock[m].version # Never
              PROVE  \/ x.stock[m].available = stock'[m].available
                     \/ \E e \in activity' : /\ e.key = <<u, "reported_stock", m>>
                                             /\ e.env.arg.delta = stock'[m].available - x.stock[m].available
  BY DEF ReadStock
<1>1. Exists(m)
  <2>1. x.stock[m].version \in Nat  BY DEF IsContext, StockRecord
  <2>2. stock[m].version \in {Never} \cup Nat  BY DEF RecordsInv, StockInv, StockRecord
  <2>3. stock[m] = x.stock[m] \/ x.stock[m].version < stock[m].version  BY DEF SeenBefore
  <2>. QED BY <2>1, <2>2, <2>3 DEF Exists, Never
<1>2. CASE x.stock[m].available = stock[m].available  BY <1>1, <1>2 DEF StockSteps
<1>3. CASE \E e \in activity : /\ e.key = <<u, "reported_stock", m>>
                               /\ e.env.arg.delta = stock[m].available - x.stock[m].available
  <2>1. stock'[m].available = stock[m].available  BY <1>1, <1>3 DEF StockSteps
  <2>. QED BY <1>3, <2>1
<1>. QED BY <1>2, <1>3 DEF ReadStock

LEMMA UnderwayStays ==
  ASSUME RecordsInv, NEW u, NEW F, NEW a, IsList(a.todo), Reading(u, F, a.seen), SeenBefore(a.seen),
         Settled(u, F), Settled(u, F)', MovedTo(F, task, task'), StockSteps(u),
         activity \subseteq activity', Underway(u, F, a)
  PROVE  Underway(u, F, a)'
<1>1. MovedTo(F, a.seen.task, task')  BY MovedTwice DEF Underway
<1>2. ReadStock(u, a.seen.stock)'  BY ReadStockStays DEF Underway, Reading
<1>3. InTurn(a.todo)'
  <2>. SUFFICES ASSUME NEW j \in 1..Len(a.todo)
                PROVE  Ripe(a.todo[j])' \/ \E i \in 1..j - 1 : Ripens(a.todo[i], a.todo[j])
    BY DEF InTurn
  <2>1. PICK c : c = a.todo[j]  OBVIOUS
  <2>2. c \in ToSet(a.todo)  BY <2>1, ListShape
  <2>3. Meant(u, F, a.seen, c)  BY <2>2 DEF Underway
  <2>4. Ripe(c) \/ \E i \in 1..j - 1 : Ripens(a.todo[i], c)  BY <2>1 DEF Underway, InTurn
  <2>5. Ripe(c) => Ripe(c)'  BY <2>3, RipeStays
  <2>. QED BY <2>1, <2>4, <2>5
<1>. QED BY <1>1, <1>2, <1>3 DEF Underway

\* What a command of the list makes ripe when it has been done, now or before.
LEMMA HeadRipens ==
  ASSUME NEW u, NEW F, NEW x, Reading(u, F, x), Settled(u, F)', NEW c, Meant(u, F, x, c),
         NEW d, Meant(u, F, x, d), \E e \in activity' : e.key = c.key, Ripens(c, d)
  PROVE  Ripe(d)'
<1>1. PICK e \in activity' : e.key = c.key  OBVIOUS
<1>2. c.env.op \in {"follow_up", "adjust"}  BY DEF Ripens
<1>3. CompletesTask(F, c) \/ BlocksTask(F, c) \/ FollowsUp(F, c) \/ CreatesStock(c)
      \/ AdjustsStock(u, F, x, c) \/ OnlyTells(c)
  BY <1>2, MeantEffects
<1>4. CASE c.env.op = "follow_up"
  <2>1. c.key[2] = "follow_up" /\ c.key[4] = c.env.id
    BY <1>3, <1>4 DEF CompletesTask, BlocksTask, FollowsUp, CreatesStock, AdjustsStock, OnlyTells
  <2>2. task'[c.env.id].status = "blocked"  BY <1>1, <2>1 DEF Settled, Effective
  <2>3. d.env.op = "issue" /\ c.env.id = d.key[4]  BY <1>4 DEF Ripens
  <2>. QED BY <2>2, <2>3 DEF Ripe
<1>5. CASE c.env.op = "adjust"
  <2>1. c.key[2] = "reported_stock" /\ c.key[3] = c.env.id
    BY <1>3, <1>5 DEF CompletesTask, BlocksTask, FollowsUp, CreatesStock, AdjustsStock, OnlyTells
  <2>2. stock'[c.env.id].available = Said(F, c.env.id).quantity  BY <1>1, <2>1 DEF Settled, Effective
  <2>3. d.env.op = "assess" /\ c.env.id = d.env.id  BY <1>5 DEF Ripens
  <2>4. Setup.stock[d.env.id].version # Never => d.reported = Said(F, d.env.id).quantity
    BY <2>3, MeantAssess
  <2>. QED BY <2>2, <2>3, <2>4 DEF Ripe
<1>. QED BY <1>2, <1>4, <1>5

LEMMA TailInTurn ==
  ASSUME NEW s, IsList(s), s # <<>>, InTurn(s),
         \A d \in ToSet(s) : Ripe(d) \/ Ripens(Head(s), d) => Ripe(d)'
  PROVE  InTurn(Tail(s))' /\ Ripe(Head(s))
<1>1. s \in Seq(ToSet(s)) /\ Len(s) \in Nat /\ Len(s) # 0 /\ Head(s) = s[1]  BY DEF IsList
<1>2. /\ Len(Tail(s)) = Len(s) - 1
      /\ \A i \in 1..Len(Tail(s)) : Tail(s)[i] = s[i + 1]
  BY <1>1, HeadTailProperties
<1>3. ASSUME NEW j \in 1..Len(Tail(s))
      PROVE  Ripe(Tail(s)[j])' \/ \E i \in 1..j - 1 : Ripens(Tail(s)[i], Tail(s)[j])
  <2>1. PICK d : d = s[j + 1]  OBVIOUS
  <2>2. Tail(s)[j] = d /\ j + 1 \in 1..Len(s)  BY <1>1, <1>2, <2>1
  <2>3. d \in ToSet(s)  BY <2>1, <2>2, ListShape
  <2>4. Ripe(d) \/ \E i \in 1..(j + 1) - 1 : Ripens(s[i], d)  BY <2>1, <2>2 DEF InTurn
  <2>5. CASE Ripe(d)  BY <2>2, <2>3, <2>5
  <2>6. CASE \E i \in 1..(j + 1) - 1 : Ripens(s[i], d)
    <3>1. PICK i \in 1..j : Ripens(s[i], d)  BY <2>6
    <3>2. CASE i = 1  BY <1>1, <2>2, <2>3, <3>1, <3>2
    <3>3. CASE i # 1
      <4>1. i - 1 \in 1..j - 1 /\ i - 1 \in 1..Len(Tail(s)) /\ (i - 1) + 1 = i  BY <3>3
      <4>2. Tail(s)[i - 1] = s[i]  BY <1>2, <4>1
      <4>. QED BY <2>2, <3>1, <4>1, <4>2
    <3>. QED BY <3>2, <3>3
  <2>. QED BY <2>4, <2>5, <2>6
<1>4. Ripe(Head(s))
  <2>1. 1 \in 1..Len(s) /\ 1..1 - 1 = {}  BY <1>1
  <2>. QED BY <1>1, <2>1 DEF InTurn
<1>5. \A j \in 1..Len(Tail(s)) : Ripe(Tail(s)[j])' \/ \E i \in 1..j - 1 : Ripens(Tail(s)[i], Tail(s)[j])
  BY <1>3
<1>. QED BY <1>4, <1>5 DEF InTurn

LEMMA ListHeadTail ==
  ASSUME NEW s, IsList(s), s # <<>>
  PROVE  s = <<Head(s)>> \o Tail(s) /\ ToSet(s) = {Head(s)} \cup ToSet(Tail(s))
<1>1. s \in Seq(ToSet(s)) /\ Len(s) \in Nat /\ Len(s) # 0 /\ Head(s) = s[1]  BY DEF IsList
<1>. DEFINE l == <<Head(s)>>
<1>2. /\ Tail(s) \in Seq(ToSet(s)) /\ Len(Tail(s)) = Len(s) - 1
      /\ \A i \in 1..Len(Tail(s)) : Tail(s)[i] = s[i + 1]
  BY <1>1, HeadTailProperties
<1>3. Head(s) \in ToSet(s)  BY TailList
<1>4. l \in Seq(ToSet(s)) /\ Len(l) = 1 /\ l[1] = Head(s)  BY <1>3
<1>. HIDE DEF l
<1>5. /\ l \o Tail(s) \in Seq(ToSet(s)) /\ Len(l \o Tail(s)) = Len(l) + Len(Tail(s))
      /\ \A i \in 1..Len(l) + Len(Tail(s)) :
           (l \o Tail(s))[i] = IF i <= Len(l) THEN l[i] ELSE Tail(s)[i - Len(l)]
  <2>1. PICK S, r : S = ToSet(s) /\ r = Tail(s)  OBVIOUS
  <2>2. l \in Seq(S) /\ r \in Seq(S)  BY <1>2, <1>4, <2>1
  <2>3. /\ l \o r \in Seq(S) /\ Len(l \o r) = Len(l) + Len(r)
        /\ \A i \in 1..(Len(l) + Len(r)) : (l \o r)[i] = IF i <= Len(l) THEN l[i] ELSE r[i - Len(l)]
    BY <2>2, ConcatProperties
  <2>. QED BY <2>1, <2>3
<1>6. Len(l \o Tail(s)) = Len(s)  BY <1>1, <1>2, <1>4, <1>5
<1>7. ASSUME NEW i \in 1..Len(s) PROVE (l \o Tail(s))[i] = s[i]
  <2>1. CASE i = 1  BY <1>1, <1>2, <1>4, <1>5, <2>1
  <2>2. CASE i # 1
    <3>1. i - 1 \in 1..Len(Tail(s)) /\ ~(i <= 1) /\ (i - 1) + 1 = i /\ i \in 1..1 + Len(Tail(s))
      BY <1>1, <1>2, <2>2
    <3>. QED BY <1>2, <1>4, <1>5, <3>1
  <2>. QED BY <2>1, <2>2
<1>8. s = l \o Tail(s)  BY <1>1, <1>5, <1>6, <1>7, SeqEqual
<1>9. IsList(l) /\ ToSet(l) = {Head(s)} /\ IsList(Tail(s))  BY SingleList, TailList DEF l
<1>10. ToSet(l \o Tail(s)) = ToSet(l) \cup ToSet(Tail(s))  BY <1>9, ConcatLists
<1>. QED BY <1>8, <1>9, <1>10 DEF l

-----------------------------------------------------------------------------
(***************************************************************************)
(* A plan is in turn when it is made.                                      *)
(***************************************************************************)
LEMMA InTurnConcat ==
  ASSUME NEW s, NEW t, IsList(s), IsList(t), InTurn(s), InTurn(t)
  PROVE  InTurn(s \o t)
<1>. DEFINE S == ToSet(s) \cup ToSet(t)
<1>1. s \in Seq(S) /\ t \in Seq(S)  BY ListOf
<1>2. Len(s) \in Nat /\ Len(t) \in Nat  BY ListShape
<1>. HIDE DEF S
<1>3. /\ Len(s \o t) = Len(s) + Len(t)
      /\ \A i \in 1..Len(s) + Len(t) : (s \o t)[i] = IF i <= Len(s) THEN s[i] ELSE t[i - Len(s)]
  BY <1>1, ConcatProperties
<1>4. ASSUME NEW j \in 1..Len(s \o t)
      PROVE  Ripe((s \o t)[j]) \/ \E i \in 1..j - 1 : Ripens((s \o t)[i], (s \o t)[j])
  <2>1. CASE j <= Len(s)
    <3>1. j \in 1..Len(s) /\ (s \o t)[j] = s[j]  BY <1>2, <1>3, <2>1
    <3>2. Ripe(s[j]) \/ \E i \in 1..j - 1 : Ripens(s[i], s[j])  BY <3>1 DEF InTurn
    <3>3. \A i \in 1..j - 1 : (s \o t)[i] = s[i]  BY <1>2, <1>3, <3>1
    <3>. QED BY <3>1, <3>2, <3>3
  <2>2. CASE ~(j <= Len(s))
    <3>1. PICK k : k = j - Len(s)  OBVIOUS
    <3>2. k \in 1..Len(t) /\ (s \o t)[j] = t[k]  BY <1>2, <1>3, <2>2, <3>1
    <3>3. Ripe(t[k]) \/ \E i \in 1..k - 1 : Ripens(t[i], t[k])  BY <3>2 DEF InTurn
    <3>4. ASSUME NEW i \in 1..k - 1, Ripens(t[i], t[k])
          PROVE  \E h \in 1..j - 1 : Ripens((s \o t)[h], (s \o t)[j])
      <4>1. PICK h : h = i + Len(s)  OBVIOUS
      <4>2. h \in 1..j - 1 /\ h \in 1..Len(s) + Len(t) /\ ~(h <= Len(s)) /\ h - Len(s) = i
        BY <1>2, <3>1, <3>2, <4>1
      <4>3. (s \o t)[h] = t[i]  BY <1>3, <4>2
      <4>. QED BY <3>2, <3>4, <4>2, <4>3
    <3>. QED BY <3>2, <3>3, <3>4
  <2>. QED BY <2>1, <2>2
<1>. QED BY <1>4 DEF InTurn

LEMMA InTurnRipe ==
  ASSUME NEW s, IsList(s), \A c \in ToSet(s) : Ripe(c)
  PROVE  InTurn(s)
BY ListShape DEF InTurn

\* One more command at the end.
LEMMA InTurnNext ==
  ASSUME NEW s, IsList(s), InTurn(s), NEW d, Ripe(d) \/ \E c \in ToSet(s) : Ripens(c, d)
  PROVE  InTurn(s \o <<d>>)
<1>. DEFINE t == <<d>>
            S == ToSet(s) \cup {d}
<1>1. s \in Seq(S) /\ t \in Seq(S) /\ Len(t) = 1 /\ t[1] = d  BY ListOf
<1>2. Len(s) \in Nat  BY ListShape
<1>. HIDE DEF S, t
<1>3. /\ Len(s \o t) = Len(s) + 1
      /\ \A i \in 1..Len(s) + 1 : (s \o t)[i] = IF i <= Len(s) THEN s[i] ELSE t[i - Len(s)]
  <2>1. /\ Len(s \o t) = Len(s) + Len(t)
        /\ \A i \in 1..Len(s) + Len(t) : (s \o t)[i] = IF i <= Len(s) THEN s[i] ELSE t[i - Len(s)]
    BY <1>1, ConcatProperties
  <2>. QED BY <1>1, <2>1
<1>4. ASSUME NEW j \in 1..Len(s \o t)
      PROVE  Ripe((s \o t)[j]) \/ \E i \in 1..j - 1 : Ripens((s \o t)[i], (s \o t)[j])
  <2>1. CASE j <= Len(s)
    <3>1. j \in 1..Len(s) /\ (s \o t)[j] = s[j]  BY <1>2, <1>3, <2>1
    <3>2. Ripe(s[j]) \/ \E i \in 1..j - 1 : Ripens(s[i], s[j])  BY <3>1 DEF InTurn
    <3>3. \A i \in 1..j - 1 : (s \o t)[i] = s[i]  BY <1>2, <1>3, <3>1
    <3>. QED BY <3>1, <3>2, <3>3
  <2>2. CASE ~(j <= Len(s))
    <3>1. j = Len(s) + 1 /\ (s \o t)[j] = d  BY <1>1, <1>2, <1>3, <2>2
    <3>2. ASSUME NEW c \in ToSet(s), Ripens(c, d)
          PROVE  \E h \in 1..j - 1 : Ripens((s \o t)[h], (s \o t)[j])
      <4>1. PICK h \in 1..Len(s) : c = s[h]  BY ListShape
      <4>2. h \in 1..j - 1 /\ (s \o t)[h] = c  BY <1>2, <1>3, <3>1, <4>1
      <4>. QED BY <3>1, <3>2, <4>2
    <3>. QED BY <3>1, <3>2
  <2>. QED BY <2>1, <2>2
<1>5. InTurn(s \o t)  BY <1>4 DEF InTurn
<1>. QED BY <1>5 DEF t

LEMMA InTurnFlat ==
  ASSUME NEW ss, IsList(ss), \A i \in 1..Len(ss) : IsList(ss[i]) /\ InTurn(ss[i])
  PROVE  InTurn(FlattenSeq(ss))
<1>. DEFINE S == UNION {ToSet(ss[i]) : i \in 1..Len(ss)}
            C == {s \in Seq(S) : InTurn(s)}
<1>1. \A i \in 1..Len(ss) : ss[i] \in Seq(S)
  <2>. TAKE i \in 1..Len(ss)
  <2>1. ToSet(ss[i]) \subseteq S  OBVIOUS
  <2>. HIDE DEF S
  <2>. QED BY <2>1, ListOf
<1>. HIDE DEF S
<1>2. ss \in Seq(Seq(S))
  <2>1. ToSet(ss) \subseteq Seq(S)  BY <1>1, ListShape
  <2>. QED BY <2>1, ListOf
<1>3. C \subseteq Seq(S) /\ \A i \in 1..Len(ss) : ss[i] \in C  BY <1>1
<1>4. <<>> \in C
  <2>1. InTurn(<<>>)  BY DEF InTurn
  <2>. QED BY <2>1
<1>5. ASSUME NEW s \in C, NEW t \in C PROVE s \o t \in C
  <2>1. s \in Seq(S) /\ t \in Seq(S) /\ InTurn(s) /\ InTurn(t)  OBVIOUS
  <2>2. s \o t \in Seq(S) /\ IsList(s) /\ IsList(t)  BY <2>1, ListOf
  <2>3. InTurn(s \o t)  BY <2>1, <2>2, InTurnConcat
  <2>. QED BY <2>2, <2>3
<1>. HIDE DEF C
<1>6. FlattenSeq(ss) \in C  BY <1>2, <1>3, <1>4, <1>5, FlattenClosed
<1>. QED BY <1>6 DEF C

LEMMA BlockingInTurn ==
  ASSUME NEW u, NEW i, NEW f, NEW x
  PROVE  InTurn(Blocking(u, i, f, x))
<1>1. PICK block, follow, risk : /\ block = BlockCommand(u, f, x) /\ follow = FollowCommand(u, i, f)
                                /\ risk = RiskCommand(u, i, f, x)
  OBVIOUS
<1>. DEFINE first == IF x.task[f.task].status \in {"planned", "in_progress"} THEN <<block>> ELSE <<>>
            last == IF Downstream(f.task, x) # {} THEN <<risk>> ELSE <<>>
<1>2. Blocking(u, i, f, x) = first \o <<follow>> \o last
  BY <1>1 DEF Blocking, BlockCommand, BlockArg, FollowCommand, RiskCommand
<1>3. /\ block.key[2] = "blocked" /\ block.key[3] = f.task /\ block.key = <<u, "blocked", f.task>>
      /\ block.env.op = "progress" /\ block.env.id = f.task
  BY <1>1, BlockKey
<1>4. /\ follow.key[2] = "follow_up" /\ follow.key[3] = i /\ follow.key[4] = f.task
      /\ follow.env.op = "follow_up" /\ follow.env.id = f.task
  BY <1>1, FollowKey
<1>5. risk.key[2] = "impact" /\ risk.key[4] = f.task /\ risk.env.op = "issue"  BY <1>1, RiskKey
<1>6. Ripe(block) /\ Ripe(follow) /\ Ripens(follow, risk)  BY <1>3, <1>4, <1>5 DEF Ripe, Ripens
<1>7. IsList(first) /\ \A c \in ToSet(first) : c = block
  <2>1. first \in {<<>>, <<block>>}  OBVIOUS
  <2>. HIDE DEF first
  <2>. QED BY <2>1, SingleList
<1>8. last \in {<<>>, <<risk>>}  OBVIOUS
<1>. HIDE DEF first, last
<1>9. InTurn(first)  BY <1>6, <1>7, InTurnRipe
<1>10. InTurn(first \o <<follow>>)  BY <1>6, <1>7, <1>9, InTurnNext
<1>11. IsList(<<follow>>) /\ ToSet(<<follow>>) = {follow}  BY SingleList
<1>12. IsList(first \o <<follow>>) /\ ToSet(first \o <<follow>>) = ToSet(first) \cup ToSet(<<follow>>)
  BY <1>7, <1>11, ConcatLists
<1>13. InTurn(first \o <<follow>> \o <<risk>>)
  BY <1>6, <1>10, <1>11, <1>12, InTurnNext
<1>14. first \o <<follow>> \o <<>> = first \o <<follow>>
  <2>1. first \o <<follow>> \in Seq(ToSet(first \o <<follow>>))  BY <1>12 DEF IsList
  <2>. QED BY <2>1, ConcatEmptySeq
<1>. QED BY <1>2, <1>8, <1>10, <1>13, <1>14

LEMMA IssuesInTurn ==
  ASSUME NEW u \in Update, NEW F \in Interpretations[u], NEW x
  PROVE  InTurn(Issues(u, F, x))
<1>. DEFINE fs == Troubles(F)
            N == Len(fs)
            part(i) ==
              IF ~({fs[i].task} \ {None} \subseteq Visible(x)) THEN <<>>
              ELSE <<RaiseCommand(u, i, fs[i])>>
                   \o (IF fs[i].type = "blocker" /\ {fs[i].task} \ {None} # {}
                       THEN Blocking(u, i, fs[i], x) ELSE <<>>)
            ss == [i \in DOMAIN fs |-> part(i)]
<1>1. IsList(fs)  BY SiteUpdateAssumption, ActionableList DEF IsReading, Troubles
<1>2. IsList(ss) /\ Len(ss) = N /\ DOMAIN fs = 1..N
  <2>1. DOMAIN ss = DOMAIN fs /\ ss = [i \in DOMAIN fs |-> ss[i]]  OBVIOUS
  <2>. HIDE DEF ss, fs
  <2>. QED BY <1>1, <2>1, PartsList
<1>3. \A i \in 1..N : ss[i] = part(i)  BY <1>2
<1>4. Issues(u, F, x) = FlattenSeq(ss)  BY DEF Issues, Troubles, RaiseCommand
<1>5. IsList(<<>>) /\ InTurn(<<>>)
  <2>1. InTurn(<<>>)  BY DEF InTurn
  <2>. QED BY <2>1, SingleList
<1>6. ASSUME NEW i \in 1..N PROVE IsList(part(i)) /\ InTurn(part(i))
  <2>. DEFINE c == RaiseCommand(u, i, fs[i])
              rest == IF fs[i].type = "blocker" /\ {fs[i].task} \ {None} # {}
                      THEN Blocking(u, i, fs[i], x) ELSE <<>>
  <2>1. part(i) = <<>> \/ part(i) = <<c>> \o rest  OBVIOUS
  <2>2. Ripe(c)
    <3>1. c.key[2] = "issue" /\ c.env.op = "issue"  BY RaiseKey
    <3>. QED BY <3>1 DEF Ripe
  <2>3. IsList(rest) /\ InTurn(rest)
    <3>1. rest = <<>> \/ rest = Blocking(u, i, fs[i], x)  OBVIOUS
    <3>2. IsList(Blocking(u, i, fs[i], x)) /\ InTurn(Blocking(u, i, fs[i], x))
      BY BlockingHas, BlockingInTurn
    <3>. HIDE DEF rest
    <3>. QED BY <1>5, <3>1, <3>2
  <2>. HIDE DEF part, rest, c
  <2>4. IsList(<<c>>) /\ ToSet(<<c>>) = {c}  BY SingleList
  <2>5. InTurn(<<c>>)  BY <2>2, <2>4, InTurnRipe
  <2>6. IsList(<<c>> \o rest) /\ ToSet(<<c>> \o rest) = ToSet(<<c>>) \cup ToSet(rest)
    BY <2>3, <2>4, ConcatLists
  <2>7. InTurn(<<c>> \o rest)  BY <2>3, <2>4, <2>5, InTurnConcat
  <2>. QED BY <1>5, <2>1, <2>6, <2>7
<1>. HIDE DEF ss, part
<1>7. \A i \in 1..Len(ss) : IsList(ss[i]) /\ InTurn(ss[i])  BY <1>2, <1>3, <1>6
<1>8. InTurn(FlattenSeq(ss))  BY <1>2, <1>7, InTurnFlat
<1>. QED BY <1>4, <1>8

LEMMA MaterialsInTurn ==
  ASSUME NEW u, NEW F, NEW x, Reading(u, F, x), KeptStock(x.stock),
         \A m \in Material : x.stock[m].available = stock[m].available
  PROVE  InTurn(Materials(u, F, x))
<1>. DEFINE fs == Stocks(F)
            N == Len(fs)
            known(f) == x.stock[f.material].version # Never
            first(f) == IF x.stock[f.material].version = Never THEN <<CreateCommand(u, f)>>
                        ELSE IF f.quantity - x.stock[f.material].available # 0
                             THEN <<AdjustCommand(u, f, x)>> ELSE <<>>
            part(f) == first(f) \o <<AssessStep(f, x)>>
            repeated(i) == known(fs[i]) /\ \E j \in 1..i - 1 : fs[j].material = fs[i].material
            ss == [i \in DOMAIN fs |-> IF repeated(i) THEN <<>> ELSE part(fs[i])]
<1>0. u \in Update /\ F \in Interpretations[u] /\ IsContext(x)  BY DEF Reading
<1>1. IsList(fs)  BY <1>0, SiteUpdateAssumption, ActionableList DEF IsReading, Stocks
<1>2. IsList(ss) /\ Len(ss) = N /\ DOMAIN fs = 1..N
  <2>1. DOMAIN ss = DOMAIN fs /\ ss = [i \in DOMAIN fs |-> ss[i]]  OBVIOUS
  <2>. HIDE DEF ss, fs
  <2>. QED BY <1>1, <2>1, PartsList
<1>3. \A i \in 1..N : ss[i] = <<>> \/ ss[i] = part(fs[i])
  <2>. HIDE DEF part, repeated
  <2>. QED BY <1>2
<1>4. Materials(u, F, x) = FlattenSeq(ss)
  BY DEF Materials, Stocks, CreateCommand, AdjustCommand, AssessStep
<1>5. IsList(<<>>) /\ InTurn(<<>>) /\ ToSet(<<>>) = {}
  <2>1. InTurn(<<>>)  BY DEF InTurn
  <2>. QED BY <2>1, SingleList
<1>6. ASSUME NEW i \in 1..N PROVE IsList(part(fs[i])) /\ InTurn(part(fs[i]))
  <2>1. PICK f, m : f = fs[i] /\ m = f.material  OBVIOUS
  <2>2. m \in Material /\ f.quantity \in Nat  BY <1>0, <2>1, StockFact
  <2>3. PICK create, adjust, assess : /\ create = CreateCommand(u, f)
                                     /\ adjust = AdjustCommand(u, f, x)
                                     /\ assess = AssessStep(f, x)
    OBVIOUS
  <2>4. /\ create.key[2] = "auto_create" /\ create.key[3] = f.material
        /\ create.env = [op |-> "create_material", id |-> f.material, arg |-> <<>>]
        /\ create.env.op = "create_material" /\ create.env.id = f.material
    BY <2>3, CreateKey
  <2>5. adjust.env.op = "adjust" /\ adjust.env.id = m
    <3>1. PICK delta : delta = f.quantity - x.stock[f.material].available  OBVIOUS
    <3>2. /\ adjust.key[2] = "reported_stock" /\ adjust.key[3] = f.material
          /\ adjust.key = <<u, "reported_stock", f.material>>
          /\ adjust.env = [op |-> "adjust", id |-> f.material,
                           arg |-> [delta |-> delta, evidence |-> f.evidence]]
          /\ adjust.env.op = "adjust" /\ adjust.env.id = f.material
      BY <2>3, <3>1, AdjustKey
    <3>. QED BY <2>1, <3>2
  <2>6. /\ assess.env.op = "assess" /\ assess.env.id = f.material /\ assess.reported = f.quantity
        /\ assess.evidence = f.evidence /\ assess.minimum = x.stock[f.material].minimum
    BY <2>3, AssessFields
  <2>7. Ripe(create) /\ Ripe(adjust) /\ Ripens(adjust, assess)
    BY <2>1, <2>4, <2>5, <2>6 DEF Ripe, Ripens
  <2>8. \/ first(f) = <<create>> /\ x.stock[m].version = Never
        \/ first(f) = <<adjust>>
        \/ first(f) = <<>> /\ x.stock[m].available = f.quantity
    <3>1. x.stock[m].available \in Int  BY <1>0, <2>2 DEF IsContext, StockRecord
    <3>2. f.quantity - x.stock[m].available = 0 => x.stock[m].available = f.quantity
      BY <2>2, <3>1
    <3>. QED BY <2>1, <2>3, <3>2
  <2>9. part(fs[i]) = first(f) \o <<assess>>  BY <2>1, <2>3
  <2>. HIDE DEF first, part, fs
  <2>10. IsList(<<create>>) /\ ToSet(<<create>>) = {create}  BY SingleList
  <2>11. IsList(<<adjust>>) /\ ToSet(<<adjust>>) = {adjust}  BY SingleList
  <2>12. IsList(first(f)) /\ InTurn(first(f)) /\ (Ripe(assess) \/ \E c \in ToSet(first(f)) : Ripens(c, assess))
    <3>1. CASE first(f) = <<create>> /\ x.stock[m].version = Never
      <4>1. Setup.stock[m].version = Never  BY <2>2, <3>1 DEF KeptStock
      <4>2. Ripe(assess)  BY <2>1, <2>6, <4>1 DEF Ripe
      <4>3. InTurn(<<create>>)  BY <2>7, <2>10, InTurnRipe
      <4>. QED BY <2>10, <3>1, <4>2, <4>3
    <3>2. CASE first(f) = <<adjust>>
      <4>1. InTurn(<<adjust>>)  BY <2>7, <2>11, InTurnRipe
      <4>. QED BY <2>7, <2>11, <3>2, <4>1
    <3>3. CASE first(f) = <<>> /\ x.stock[m].available = f.quantity
      <4>1. stock[m].available = f.quantity  BY <2>2, <3>3
      <4>2. Ripe(assess)  BY <2>1, <2>6, <4>1 DEF Ripe
      <4>. QED BY <1>5, <3>3, <4>2
    <3>. QED BY <2>8, <3>1, <3>2, <3>3
  <2>13. InTurn(first(f) \o <<assess>>)  BY <2>12, InTurnNext
  <2>14. IsList(<<assess>>)  BY SingleList
  <2>15. IsList(first(f) \o <<assess>>) /\ ToSet(first(f) \o <<assess>>) = ToSet(first(f)) \cup ToSet(<<assess>>)
    BY <2>12, <2>14, ConcatLists
  <2>. QED BY <2>9, <2>13, <2>15
<1>. HIDE DEF ss, part
<1>7. \A i \in 1..Len(ss) : IsList(ss[i]) /\ InTurn(ss[i])  BY <1>2, <1>3, <1>5, <1>6
<1>8. InTurn(FlattenSeq(ss))  BY <1>2, <1>7, InTurnFlat
<1>. QED BY <1>4, <1>8

LEMMA PlanInTurn ==
  ASSUME NEW u, NEW F, NEW x, Reading(u, F, x),
         \A m \in Material : x.stock[m].available = stock[m].available
  PROVE  /\ InTurn(Plan(u, F, x)) /\ IsList(Plan(u, F, x))
         /\ ToSet(Plan(u, F, x)) = PlanSet(u, F, x)
<1>0. u \in Update /\ F \in Interpretations[u] /\ IsContext(x) /\ KeptStock(x.stock)  BY DEF Reading
<1>1. IsList(Plan(u, F, x)) /\ ToSet(Plan(u, F, x)) = PlanSet(u, F, x)  BY <1>0, PlanHas
<1>2. CASE Stops(F) # <<>>
  <2>1. PlanSet(u, F, x) = SafetySet(u, F)  BY <1>2 DEF PlanSet
  <2>2. ASSUME NEW c \in SafetySet(u, F) PROVE Ripe(c)
    <3>1. PICK i \in 1..Len(Stops(F)) : c = SafetyCommand(u, F, i)  BY DEF SafetySet
    <3>2. c.key[2] = "safety" /\ c.env.op = "issue"  BY <3>1, SafetyKey
    <3>. QED BY <3>2 DEF Ripe
  <2>3. InTurn(Plan(u, F, x))  BY <1>1, <2>1, <2>2, InTurnRipe
  <2>. QED BY <1>1, <2>3
<1>3. CASE Stops(F) = <<>>
  <2>1. PICK a, b, d : a = Completions(u, F, x) /\ b = Issues(u, F, x) /\ d = Materials(u, F, x)
    OBVIOUS
  <2>2. IsList(a) /\ IsList(b) /\ IsList(d)  BY <1>0, <2>1, CompletionsHave, IssuesHave, MaterialsHave
  <2>3. InTurn(a)
    <3>1. ToSet(a) = CompletionSet(u, F, x)  BY <1>0, <2>1, CompletionsHave
    <3>2. ASSUME NEW c \in CompletionSet(u, F, x) PROVE Ripe(c)
      <4>1. PICK f : c = CompleteCommand(u, f, x)  BY DEF CompletionSet
      <4>2. /\ c.key[2] = "complete" /\ c.key[3] = f.task /\ c.key = <<u, "complete", f.task>>
            /\ c.env.op = "complete" /\ c.env.id = f.task
        BY <4>1, CompleteKey
      <4>. QED BY <4>2 DEF Ripe
    <3>. QED BY <2>2, <3>1, <3>2, InTurnRipe
  <2>4. InTurn(b)  BY <1>0, <2>1, IssuesInTurn
  <2>5. InTurn(d)  BY <1>0, <2>1, MaterialsInTurn
  <2>6. IsList(a \o b) /\ ToSet(a \o b) = ToSet(a) \cup ToSet(b)  BY <2>2, ConcatLists
  <2>7. InTurn(a \o b)  BY <2>2, <2>3, <2>4, InTurnConcat
  <2>8. InTurn(a \o b \o d)  BY <2>2, <2>5, <2>6, <2>7, InTurnConcat
  <2>9. Plan(u, F, x) = a \o b \o d  BY <1>3, <2>1 DEF Plan
  <2>. QED BY <1>1, <2>8, <2>9
<1>. QED BY <1>2, <1>3

-----------------------------------------------------------------------------
(***************************************************************************)
(* The steps of the attempts.                                              *)
(***************************************************************************)
LEMMA OnwardSame ==
  ASSUME SiteUpdateInv, NEW u \in Update, NEW n \in 1..MaxAttempts, NEW F, NEW a, a = attempt[u][n],
         Reading(u, F, a.seen), KeptStock(stock), \A c \in ToSet(a.todo) : Meant(u, F, a.seen, c),
         a.pc = "working", a.todo # <<>>
  PROVE  Onward(u, n) = Tail(a.todo) /\ Current(u, n) = Head(a.todo)
<1>1. PICK rest : rest = Tail(a.todo)  OBVIOUS
<1>2. /\ IsList(a.todo) /\ \A c \in ToSet(a.todo) : IsStep(c, a.seen)
  BY DEF SiteUpdateInv, AttemptsInv, IsAttempt
<1>3. IsList(rest) /\ ToSet(rest) \subseteq ToSet(a.todo)  BY <1>1, <1>2, TailList
<1>4. ASSUME rest # <<>>, Head(rest).env.op = "assess"
      PROVE  <<[Head(rest) EXCEPT !.minimum = stock[Head(rest).env.id].minimum]>> \o Tail(rest) = rest
  <2>1. PICK h, m : h = Head(rest) /\ m = h.env.id  OBVIOUS
  <2>2. h \in ToSet(rest)  BY <1>3, <1>4, <2>1, TailList
  <2>3. Meant(u, F, a.seen, h) /\ h.env.op = "assess"  BY <1>3, <1>4, <2>1, <2>2
  <2>4. m \in Material /\ h.minimum = Setup.stock[m].minimum  BY <2>1, <2>3, MeantAssess
  <2>5. h.minimum = stock[m].minimum  BY <2>4 DEF KeptStock
  <2>6. IsAssessment(h)  BY <1>2, <1>3, <2>2, <2>3 DEF IsStep
  <2>7. [h EXCEPT !.minimum = stock[m].minimum] = h
    <3>1. h = [env |-> h.env, reported |-> h.reported, evidence |-> h.evidence, minimum |-> h.minimum]
      BY <2>6 DEF IsAssessment
    <3>. QED BY <2>5, <3>1
  <2>8. rest = <<Head(rest)>> \o Tail(rest)  BY <1>3, <1>4, ListHeadTail
  <2>. QED BY <2>1, <2>7, <2>8
<1>. QED BY <1>1, <1>4 DEF Onward, Current

LEMMA HeadRipe ==
  ASSUME NEW s, IsList(s), s # <<>>, InTurn(s)
  PROVE  Ripe(Head(s)) /\ Head(s) \in ToSet(s)
<1>1. s \in Seq(ToSet(s)) /\ Len(s) \in Nat /\ Len(s) # 0 /\ Head(s) = s[1]  BY DEF IsList
<1>2. 1 \in 1..Len(s) /\ 1..1 - 1 = {}  BY <1>1
<1>. QED BY <1>1, <1>2, TailList DEF InTurn

\* A command has been done, now or before; the attempt goes on with the next one.
LEMMA AdvanceStays ==
  ASSUME RecordsInv, NEW u, NEW F, NEW a, IsList(a.todo), Reading(u, F, a.seen), SeenBefore(a.seen),
         Settled(u, F), Settled(u, F)', MovedTo(F, task, task'), StockSteps(u),
         activity \subseteq activity', Underway(u, F, a),
         a.todo # <<>>, Head(a.todo).env.op # "assess",
         \E e \in activity' : e.key = Head(a.todo).key,
         NEW b, b.pc # "conflict", b.seen = a.seen, b.told = a.told \cup {Head(a.todo)},
         b.todo = Tail(a.todo)
  PROVE  Underway(u, F, b)'
<1>1. Underway(u, F, a)'  BY UnderwayStays
<1>2. PICK c : c = Head(a.todo)  OBVIOUS
<1>3. ToSet(a.todo) = {c} \cup ToSet(b.todo)  BY <1>2, ListHeadTail
<1>4. \A d \in ToSet(a.todo) : Meant(u, F, a.seen, d)  BY DEF Underway
<1>5. ASSUME NEW d \in ToSet(a.todo), Ripe(d) \/ Ripens(c, d) PROVE Ripe(d)'
  <2>1. Meant(u, F, a.seen, c) /\ Meant(u, F, a.seen, d)  BY <1>3, <1>4
  <2>2. Ripe(d) => Ripe(d)'  BY <2>1, RipeStays
  <2>3. Ripens(c, d) => Ripe(d)'
    <3>1. \E e \in activity' : e.key = c.key  BY <1>2
    <3>. QED BY <2>1, <3>1, HeadRipens
  <2>. QED BY <1>5, <2>2, <2>3
<1>6. InTurn(b.todo)'
  <2>1. InTurn(a.todo)  BY DEF Underway
  <2>2. InTurn(Tail(a.todo))'  BY <1>2, <1>5, <2>1, TailInTurn
  <2>. QED BY <2>2
<1>7. \A d \in b.told \cup ToSet(b.todo) : Meant(u, F, b.seen, d)  BY <1>2, <1>3 DEF Underway
<1>8. \A d \in b.told : d.env.op # "assess"  BY DEF Underway
<1>9. b.told \cup ToSet(b.todo) = a.told \cup ToSet(a.todo)  BY <1>2, <1>3
<1>10. Covered(u, F, b)  BY <1>9 DEF Underway, Covered
<1>. QED BY <1>1, <1>6, <1>7, <1>8, <1>10 DEF Underway

\* An attempt that is given another list.
LEMMA ListedAnew ==
  ASSUME NEW u, NEW F, NEW a, Underway(u, F, a), NEW b, b.pc # "conflict", b.seen = a.seen,
         b.told = a.told, \A c \in ToSet(b.todo) : Meant(u, F, a.seen, c), InTurn(b.todo),
         Covered(u, F, b)
  PROVE  Underway(u, F, b)
BY DEF Underway

LEMMA SetToSeqAll ==
  ASSUME NEW S, IsFiniteSet(S)
  PROVE  IsList(SetToSeq(S)) /\ ToSet(SetToSeq(S)) = S
<1>. DEFINE N == Cardinality(S)
<1>1. N \in Nat /\ ExistsBijection(1..N, S)  BY FS_CardinalityType
<1>2. PICK g : g \in Bijection(1..N, S)  BY <1>1 DEF ExistsBijection
<1>3. g \in [1..N -> S] /\ \A i, j \in 1..N : g[i] = g[j] => i = j
  BY <1>2 DEF Bijection, Injection, Surjection, IsInjective
<1>4. IsInjective(g)  BY <1>3 DEF IsInjective
<1>5. SetToSeq(S) \in [1..N -> S] /\ IsInjective(SetToSeq(S))  BY <1>3, <1>4 DEF SetToSeq
<1>6. PICK f : f = SetToSeq(S)  OBVIOUS
<1>7. f \in [1..N -> S] /\ \A i, j \in 1..N : f[i] = f[j] => i = j  BY <1>5, <1>6 DEF IsInjective
<1>8. f \in Injection(1..N, S)  BY <1>7 DEF Injection, IsInjective
<1>9. IsFiniteSet(1..N) /\ Cardinality(1..N) = N  BY <1>1, FS_Interval
<1>10. f \in Surjection(1..N, S)  BY <1>8, <1>9, FS_Injection
<1>11. ToSet(f) = S  BY <1>7, <1>10 DEF Surjection, ToSet
<1>. QED BY <1>6, <1>11, SetToSeqList

\* Nothing is needed of a material that the project did not have.
LEMMA NeedOfNone ==
  ASSUME NEW m \in Material, Setup.stock[m].version = Never, NEW S
  PROVE  Required(m, S, Setup.stock[m].minimum) = 0
<1>1. Setup.stock[m].minimum = 0 /\ \A t \in Task : Needs[m][t] = 0  BY SiteUpdateAssumption
<1>2. ~\E t \in Task : Needs[m][t] > 0  BY <1>1
<1>. QED BY <1>1, <1>2 DEF Required

\* The requests and warnings that a comparison adds to the list are those that the
\* report calls for.
LEMMA AssessAsks ==
  ASSUME SiteUpdateInv, NEW u \in Update, NEW n \in 1..MaxAttempts, NEW F, NEW a, a = attempt[u][n],
         a.facts = F, Reading(u, F, a.seen), Settled(u, F), Underway(u, F, a), Assess(u, n)
  PROVE  \E first : /\ Goto(u, n, [a EXCEPT !.todo = first \o Tail(a.todo)])
                    /\ IsList(first) /\ ToSet(first) = AsksOf(u, F, Head(a.todo).env.id)
                    /\ Head(a.todo).env.id \in Named(F)
                    /\ a.pc = "working" /\ a.todo # <<>> /\ Head(a.todo).env.op = "assess"
<1>1. /\ a.pc = "working" /\ a.todo # <<>> /\ IsList(a.todo)
  BY DEF Assess, Is, SiteUpdateInv, AttemptsInv, IsAttempt
<1>2. Onward(u, n) = Tail(a.todo) /\ Current(u, n) = Head(a.todo)
  BY <1>1, OnwardSame DEF Settled, Underway
<1>3. PICK s, m : s = Head(a.todo) /\ m = s.env.id  OBVIOUS
<1>4. s.env.op = "assess"  BY <1>2, <1>3 DEF Assess
<1>5. Ripe(s) /\ s \in ToSet(a.todo)  BY <1>1, <1>3, HeadRipe DEF Underway
<1>6. Meant(u, F, a.seen, s)  BY <1>5 DEF Underway
<1>7. /\ m \in Material /\ m \in Named(F) /\ s.reported \in Nat /\ s.minimum = Setup.stock[m].minimum
      /\ Setup.stock[m].version # Never =>
           s.reported = Said(F, m).quantity /\ s.evidence = Said(F, m).evidence
  <2>1. /\ s.env.id \in Material /\ s.env.id \in Named(F) /\ s.reported \in Nat
        /\ s.minimum = Setup.stock[s.env.id].minimum
        /\ Setup.stock[s.env.id].version # Never =>
             s.reported = Said(F, s.env.id).quantity /\ s.evidence = Said(F, s.env.id).evidence
    <3>. HIDE SiteUpdateAssumption
    <3>1. PICK y : y = a.seen  OBVIOUS
    <3>2. Reading(u, F, y) /\ Meant(u, F, y, s)  BY <1>6, <3>1
    <3>. QED BY <1>4, <3>2, MeantAssess
  <2>2. m = s.env.id  BY <1>3
  <2>. QED BY <2>1, <2>2, Zenon
<1>8. Focus(F, a.seen) = Focus(F, Base)  BY ReadingSame
<1>. DEFINE focus == Focus(F, Base)
            net == IF stock[m].available > Reserved THEN stock[m].available - Reserved ELSE 0
            need == NeedOf(F, m)
            ask == Command(u, <<"shortage", m>>, "shortage", m,
                           [quantity |-> need - net, need |-> need, net |-> net,
                            evidence |-> s.evidence], 0)
            R == {ShortCommand(u, m, t) : t \in AtRisk(m, focus)}
            first == IF s.reported < need /\ net < need THEN <<ask>> \o SetToSeq(R) ELSE <<>>
<1>9. Required(m, focus, s.minimum) = need  BY <1>7 DEF NeedOf
<1>10. Goto(u, n, [a EXCEPT !.todo = first \o Tail(a.todo)])
  <2>. DEFINE cur == Current(u, n)
              foc == Focus(attempt[u][n].facts, attempt[u][n].seen)
              req == Required(cur.env.id, foc, cur.minimum)
              free == IF stock[cur.env.id].available > Reserved
                      THEN stock[cur.env.id].available - Reserved ELSE 0
              asked == Command(u, <<"shortage", cur.env.id>>, "shortage", cur.env.id,
                               [quantity |-> req - free, need |-> req, net |-> free,
                                evidence |-> cur.evidence], 0)
              risks == {IssueCommand(u, <<"material_risk", cur.env.id, t>>, "delay_risk", {t}, "stock")
                        : t \in AtRisk(cur.env.id, foc)}
              add == IF cur.reported < req /\ free < req THEN <<asked>> \o SetToSeq(risks) ELSE <<>>
  <2>1. Goto(u, n, [attempt[u][n] EXCEPT !.todo = add \o Onward(u, n)])  BY DEF Assess
  <2>2. cur = s /\ foc = focus /\ cur.env.id = m  BY <1>2, <1>3, <1>8
  <2>3. risks = R
    <3>1. \A t : IssueCommand(u, <<"material_risk", m, t>>, "delay_risk", {t}, "stock")
                   = ShortCommand(u, m, t)
      BY DEF ShortCommand
    <3>. HIDE DEF cur, foc, focus
    <3>2. AtRisk(cur.env.id, foc) = AtRisk(m, focus)  BY <2>2
    <3>3. \A t : IssueCommand(u, <<"material_risk", cur.env.id, t>>, "delay_risk", {t}, "stock")
                   = ShortCommand(u, m, t)
      BY <2>2, <3>1
    <3>4. \A r : r \in risks <=> r \in R  BY <3>2, <3>3
    <3>. HIDE DEF risks, R
    <3>. QED BY <3>4
  <2>. HIDE DEF cur, foc, focus, risks, R
  <2>4. req = need /\ free = net
    <3>. HIDE DEF need
    <3>. QED BY <1>9, <2>2
  <2>. HIDE DEF req, need, free, net
  <2>5. asked = ask  BY <2>2, <2>4
  <2>. HIDE DEF asked, ask
  <2>6. add = first  BY <2>2, <2>3, <2>4, <2>5
  <2>. HIDE DEF add, first
  <2>. QED BY <1>2, <2>1, <2>6
<1>11. CASE Setup.stock[m].version = Never
  <2>1. need = 0  BY <1>7, <1>11, NeedOfNone DEF NeedOf
  <2>2. ~(s.reported < need)  BY <1>7, <2>1
  <2>3. first = <<>>  BY <2>2
  <2>4. AsksOf(u, F, m) = {}  BY <1>11 DEF AsksOf, IsShort
  <2>5. IsList(<<>>) /\ ToSet(<<>>) = {}  BY SingleList
  <2>. HIDE DEF first
  <2>. QED BY <1>1, <1>3, <1>4, <1>7, <1>10, <2>3, <2>4, <2>5
<1>12. CASE Setup.stock[m].version # Never
  <2>1. s.reported = Said(F, m).quantity /\ s.evidence = Said(F, m).evidence  BY <1>7, <1>12
  <2>2. stock[m].available = Said(F, m).quantity  BY <1>3, <1>4, <1>5, <1>12, <2>1 DEF Ripe
  <2>3. net = NetOf(F, m)  BY <2>2 DEF NetOf
  <2>4. ask = AskCommand(u, F, m)  BY <2>1, <2>3 DEF AskCommand
  <2>5. IsShort(F, m) <=> s.reported < need /\ net < need  BY <1>12, <2>1, <2>3 DEF IsShort
  <2>6. IsFiniteSet(R)
    <3>. DEFINE T == AtRisk(m, focus)
                f == [t \in T |-> ShortCommand(u, m, t)]
    <3>1. f \in Surjection(T, R)  BY DEF Surjection
    <3>2. focus \subseteq Task  BY FocusIsTasks DEF Reading
    <3>3. T \subseteq Task
      <4>. HIDE DEF focus
      <4>. QED BY <3>2 DEF AtRisk
    <3>4. IsFiniteSet(T)  BY <3>3, RecordsAssumption, FS_Subset
    <3>. HIDE DEF f, T, R
    <3>. QED BY <3>1, <3>4, FS_Surjection
  <2>7. IsList(SetToSeq(R)) /\ ToSet(SetToSeq(R)) = R
    <3>. HIDE DEF R
    <3>. QED BY <2>6, SetToSeqAll
  <2>8. IsList(<<ask>>) /\ ToSet(<<ask>>) = {ask}
    <3>. HIDE DEF ask
    <3>. QED BY SingleList
  <2>9. /\ IsList(<<ask>> \o SetToSeq(R))
        /\ ToSet(<<ask>> \o SetToSeq(R)) = ToSet(<<ask>>) \cup ToSet(SetToSeq(R))
    <3>. HIDE DEF ask, R
    <3>. QED BY <2>7, <2>8, ConcatLists
  <2>10. IsShort(F, m) => AsksOf(u, F, m) = {ask} \cup R  BY <2>4 DEF AsksOf
  <2>11. ~IsShort(F, m) => AsksOf(u, F, m) = {}  BY DEF AsksOf
  <2>12. IsList(<<>>) /\ ToSet(<<>>) = {}  BY SingleList
  <2>13. IsShort(F, m) => first = <<ask>> \o SetToSeq(R)  BY <2>5
  <2>14. ~IsShort(F, m) => first = <<>>  BY <2>5
  <2>15. IsList(first) /\ ToSet(first) = AsksOf(u, F, m)
    <3>. HIDE DEF ask, R, first
    <3>. QED BY <2>7, <2>8, <2>9, <2>10, <2>11, <2>12, <2>13, <2>14
  <2>. HIDE DEF first
  <2>. QED BY <1>1, <1>3, <1>4, <1>7, <1>10, <2>15
<1>. QED BY <1>11, <1>12

LEMMA AskFields ==
  ASSUME NEW u, NEW F, NEW m \in Named(F), NEW c \in AsksOf(u, F, m)
  PROVE  Ripe(c) /\ c.env.op # "assess" /\ c \in AskSet(u, F)
<1>1. c \in AskSet(u, F)  BY DEF AskSet
<1>2. CASE c = AskCommand(u, F, m)
  <2>1. c.key[2] = "shortage" /\ c.key[3] = m /\ c.env.op = "shortage" /\ c.env.id = m
    BY <1>2, AskKey
  <2>. QED BY <1>1, <2>1 DEF Ripe
<1>3. CASE \E t : c = ShortCommand(u, m, t)
  <2>1. PICK t : c = ShortCommand(u, m, t)  BY <1>3
  <2>2. c.key[2] = "material_risk" /\ c.key[3] = m /\ c.key[4] = t /\ c.env.op = "issue"
    BY <2>1, ShortKey
  <2>. QED BY <1>1, <2>2 DEF Ripe
<1>. QED BY <1>2, <1>3 DEF AsksOf

\* After a comparison: what was missing is on the list.
LEMMA AssessStays ==
  ASSUME NEW u, NEW F, NEW a, IsList(a.todo), a.todo # <<>>, Underway(u, F, a),
         NEW s, s = Head(a.todo), s.env.op = "assess", s.env.id \in Named(F),
         NEW first, IsList(first), ToSet(first) = AsksOf(u, F, s.env.id),
         NEW b, b.pc # "conflict", b.seen = a.seen, b.told = a.told, b.todo = first \o Tail(a.todo),
         InTurn(Tail(a.todo))
  PROVE  Underway(u, F, b)
<1>1. ToSet(a.todo) = {s} \cup ToSet(Tail(a.todo)) /\ IsList(Tail(a.todo))  BY ListHeadTail, TailList
<1>2. ToSet(b.todo) = ToSet(first) \cup ToSet(Tail(a.todo))  BY <1>1, ConcatLists
<1>3. \A c \in ToSet(first) : Ripe(c) /\ c \in AskSet(u, F)  BY AskFields
<1>4. InTurn(b.todo)
  <2>1. InTurn(first)  BY <1>3, InTurnRipe
  <2>. QED BY <1>1, <2>1, InTurnConcat
<1>5. \A c \in ToSet(b.todo) : Meant(u, F, a.seen, c)
  <2>1. \A c \in ToSet(first) : Meant(u, F, a.seen, c)  BY <1>3 DEF Meant
  <2>2. \A c \in ToSet(Tail(a.todo)) : Meant(u, F, a.seen, c)  BY <1>1 DEF Underway
  <2>. QED BY <1>2, <2>1, <2>2
<1>6. ASSUME NEW c \in PlanSet(u, F, b.seen)
      PROVE  \/ c \in b.told \cup ToSet(b.todo)
             \/ c.env.op = "assess" /\ AsksOf(u, F, c.env.id) \subseteq b.told \cup ToSet(b.todo)
  <2>1. \/ c \in a.told \cup ToSet(a.todo)
        \/ c.env.op = "assess" /\ AsksOf(u, F, c.env.id) \subseteq a.told \cup ToSet(a.todo)
    BY <1>6 DEF Underway, Covered
  <2>2. CASE c = s  BY <1>2, <2>2
  <2>3. CASE c # s /\ c \in a.told \cup ToSet(a.todo)  BY <1>1, <1>2, <2>3
  <2>4. CASE c # s /\ c.env.op = "assess" /\ AsksOf(u, F, c.env.id) \subseteq a.told \cup ToSet(a.todo)
    <3>1. CASE c.env.id \in Named(F)
      <4>1. s \notin AsksOf(u, F, c.env.id)  BY <3>1, AskFields
      <4>2. AsksOf(u, F, c.env.id) \subseteq b.told \cup ToSet(b.todo)  BY <1>1, <1>2, <2>4, <4>1
      <4>. QED BY <2>4, <4>2
    <3>2. CASE c.env.id \notin Named(F)
      <4>1. ASSUME NEW d \in AsksOf(u, F, c.env.id) PROVE d # s
        <5>1. CASE d = AskCommand(u, F, c.env.id)
          <6>1. PICK m : m = c.env.id  OBVIOUS
          <6>2. d.key[2] = "shortage" /\ d.key[3] = m /\ d.env.op = "shortage" /\ d.env.id = m
            BY <5>1, <6>1, AskKey
          <6>. QED BY <6>2
        <5>2. CASE \E t : d = ShortCommand(u, c.env.id, t)
          <6>1. PICK m, t : m = c.env.id /\ d = ShortCommand(u, m, t)  BY <5>2
          <6>2. d.key[2] = "material_risk" /\ d.key[3] = m /\ d.key[4] = t /\ d.env.op = "issue"
            BY <6>1, ShortKey
          <6>. QED BY <6>2
        <5>. QED BY <5>1, <5>2 DEF AsksOf
      <4>2. AsksOf(u, F, c.env.id) \subseteq b.told \cup ToSet(b.todo)  BY <1>1, <1>2, <2>4, <4>1
      <4>. QED BY <2>4, <4>2
    <3>. QED BY <3>1, <3>2
  <2>. QED BY <2>1, <2>2, <2>3, <2>4
<1>7. Covered(u, F, b)  BY <1>6 DEF Covered
<1>. QED BY <1>4, <1>5, <1>7, ListedAnew

\* A plan asks for nothing and reports nothing.
LEMMA PlanOps ==
  ASSUME NEW u, NEW F, NEW x, NEW c \in PlanSet(u, F, x)
  PROVE  c.env.op \notin {"shortage", "report"}
<1>1. CASE IsSafety(u, F, c)
  <2>1. PICK i : c = SafetyCommand(u, F, i)  BY <1>1 DEF IsSafety
  <2>2. c.key[2] = "safety" /\ c.key[3] = i /\ c.key = <<u, "safety", i>> /\ c.env.op = "issue"
    BY <2>1, SafetyKey
  <2>. QED BY <2>2
<1>2. CASE IsCompletion(u, F, x, c)
  <2>1. PICK f : c = CompleteCommand(u, f, x)  BY <1>2 DEF IsCompletion
  <2>2. /\ c.key[2] = "complete" /\ c.key[3] = f.task /\ c.key = <<u, "complete", f.task>>
        /\ c.env.op = "complete" /\ c.env.id = f.task
    BY <2>1, CompleteKey
  <2>. QED BY <2>2
<1>3. CASE IsRaise(u, F, x, c)
  <2>1. PICK i, f : c = RaiseCommand(u, i, f)  BY <1>3 DEF IsRaise
  <2>2. c.key[2] = "issue" /\ c.key[3] = i /\ c.key = <<u, "issue", i, f.type>> /\ c.env.op = "issue"
    BY <2>1, RaiseKey
  <2>. QED BY <2>2
<1>4. CASE IsBlock(u, F, x, c)
  <2>1. PICK f : c = BlockCommand(u, f, x)  BY <1>4 DEF IsBlock
  <2>2. /\ c.key[2] = "blocked" /\ c.key[3] = f.task /\ c.key = <<u, "blocked", f.task>>
        /\ c.env.op = "progress" /\ c.env.id = f.task
    BY <2>1, BlockKey
  <2>. QED BY <2>2
<1>5. CASE IsFollow(u, F, x, c)
  <2>1. PICK i, f : c = FollowCommand(u, i, f)  BY <1>5 DEF IsFollow
  <2>2. /\ c.key[2] = "follow_up" /\ c.key[3] = i /\ c.key[4] = f.task
        /\ c.env.op = "follow_up" /\ c.env.id = f.task
    BY <2>1, FollowKey
  <2>. QED BY <2>2
<1>6. CASE IsRisk(u, F, x, c)
  <2>1. PICK i, f : c = RiskCommand(u, i, f, x)  BY <1>6 DEF IsRisk
  <2>2. c.key[2] = "impact" /\ c.env.op = "issue"  BY <2>1, RiskKey
  <2>. QED BY <2>2
<1>7. CASE IsCreate(u, F, x, c)
  <2>1. PICK f : c = CreateCommand(u, f)  BY <1>7 DEF IsCreate
  <2>2. /\ c.key[2] = "auto_create" /\ c.key[3] = f.material
        /\ c.env = [op |-> "create_material", id |-> f.material, arg |-> <<>>]
        /\ c.env.op = "create_material" /\ c.env.id = f.material
    BY <2>1, CreateKey
  <2>. QED BY <2>2
<1>8. CASE IsAdjust(u, F, x, c)
  <2>1. PICK f : c = AdjustCommand(u, f, x)  BY <1>8 DEF IsAdjust
  <2>2. PICK delta : delta = f.quantity - x.stock[f.material].available  OBVIOUS
  <2>3. /\ c.key[2] = "reported_stock" /\ c.key[3] = f.material
        /\ c.key = <<u, "reported_stock", f.material>>
        /\ c.env = [op |-> "adjust", id |-> f.material,
                    arg |-> [delta |-> delta, evidence |-> f.evidence]]
        /\ c.env.op = "adjust" /\ c.env.id = f.material
    BY <2>1, <2>2, AdjustKey
  <2>. QED BY <2>3
<1>9. CASE IsAssess(u, F, x, c)
  <2>1. PICK f : c = AssessStep(f, x)  BY <1>9 DEF IsAssess
  <2>2. c.env.op = "assess"  BY <2>1, AssessFields
  <2>. QED BY <2>2
<1>. QED BY <1>1, <1>2, <1>3, <1>4, <1>5, <1>6, <1>7, <1>8, <1>9, PlanKinds

-----------------------------------------------------------------------------
(***************************************************************************)
(* The report of the day, when everything else has been done.              *)
(***************************************************************************)
AllDone(u, F, a) ==
  /\ u \in Update /\ F \in Interpretations[u] /\ Reading(u, F, a.seen) /\ Settled(u, F)
  /\ Underway(u, F, a) /\ Knows(a) /\ a.facts = F /\ a.todo = <<>>

LEMMA PlanIsDone ==
  ASSUME NEW u, NEW F, NEW a, AllDone(u, F, a), NEW c \in PlanSet(u, F, a.seen), c.env.op # "assess"
  PROVE  c \in a.told /\ \E e \in activity : e.key = c.key /\ e.env = c.env
<1>1. ToSet(a.todo) = {}  BY SingleList DEF AllDone
<1>2. c \in a.told  BY <1>1 DEF AllDone, Underway, Covered
<1>. QED BY <1>2 DEF AllDone, Knows

LEMMA BlockersAreBlocked ==
  ASSUME NEW u, NEW F, NEW a, AllDone(u, F, a), Stops(F) = <<>>, NEW i \in 1..Len(Troubles(F)),
         Blocker(F, i, a.seen), NEW t, t = Troubles(F)[i].task
  PROVE  t \in Task /\ task[t].status = "blocked" /\ Downstream(t, a.seen) = Downstream(t, Base)
<1>1. PICK f, x, c : f = Troubles(F)[i] /\ x = a.seen /\ c = FollowCommand(u, i, f)  OBVIOUS
<1>2. t \in Task  BY BlockedTask DEF AllDone
<1>3. /\ c.key[2] = "follow_up" /\ c.key[3] = i /\ c.key[4] = f.task
      /\ c.env.op = "follow_up" /\ c.env.id = f.task
  BY <1>1, FollowKey
<1>4. c \in PlanSet(u, F, x)  BY <1>1 DEF PlanSet, IssueSet, BlockingSet
<1>5. PICK e \in activity : e.key = c.key  BY <1>1, <1>3, <1>4, PlanIsDone
<1>6. task[t].status = "blocked"  BY <1>1, <1>3, <1>5 DEF AllDone, Settled, Effective
<1>7. x.task[t].status # "completed"  BY <1>1, <1>2, <1>6 DEF AllDone, Underway, MovedTo
<1>8. Downstream(t, x) = Downstream(t, Base)
  BY <1>1, <1>2, <1>7, DownstreamSame DEF AllDone, Reading
<1>. QED BY <1>1, <1>2, <1>6, <1>8

\* Of what is said of a material there is a first.
LEMMA FirstSaid ==
  ASSUME NEW u \in Update, NEW F \in Interpretations[u], NEW m \in Named(F)
  PROVE  Stops(F) = <<>> /\ \E i \in 1..Len(Stocks(F)) : SaysFirst(F, m, i)
<1>1. PICK s : s = Stocks(F)  OBVIOUS
<1>2. IsList(s)  BY <1>1, SiteUpdateAssumption, ActionableList DEF IsReading, Stocks
<1>3. Stops(F) = <<>> /\ \E f \in ToSet(s) : f.material = m  BY <1>1 DEF Named
<1>4. Len(s) \in Nat /\ \E i \in 1..Len(s) : s[i].material = m  BY <1>2, <1>3, ListShape
<1>. DEFINE T == {i \in Nat : i \in 1..Len(s) /\ s[i].material = m}
<1>5. PICK x \in T : \A y \in T : ~(<<y, x>> \in OpToRel(<, Nat))
  <2>1. T \subseteq Nat /\ T # {}  BY <1>4
  <2>. HIDE DEF T
  <2>. QED BY <2>1, NatLessThanWellFounded, WFMin
<1>6. ASSUME NEW j \in 1..x - 1 PROVE s[j].material # m
  <2>1. j \in Nat /\ x \in Nat /\ j < x /\ j \in 1..Len(s)  BY <1>4
  <2>2. <<j, x>> \in OpToRel(<, Nat)  BY <2>1 DEF OpToRel
  <2>. QED BY <1>5, <2>1, <2>2
<1>7. SaysFirst(F, m, x)  BY <1>1, <1>6 DEF SaysFirst
<1>. QED BY <1>1, <1>3, <1>7

LEMMA NamedIsAsked ==
  ASSUME NEW u, NEW F, NEW a, AllDone(u, F, a), NEW m \in Named(F)
  PROVE  AsksOf(u, F, m) \subseteq a.told
<1>1. PICK i \in 1..Len(Stocks(F)) : SaysFirst(F, m, i)  BY FirstSaid DEF AllDone
<1>2. Stops(F) = <<>>  BY FirstSaid DEF AllDone
<1>3. PICK f, x, c : f = Stocks(F)[i] /\ x = a.seen /\ c = AssessStep(f, x)  OBVIOUS
<1>4. f.material = m /\ Stated(F, i, x)  BY <1>1, <1>3 DEF SaysFirst, Stated
<1>5. c \in PlanSet(u, F, x)  BY <1>2, <1>3, <1>4 DEF PlanSet, StockSet, MaterialSet
<1>6. /\ c.env.op = "assess" /\ c.env.id = f.material /\ c.reported = f.quantity
      /\ c.evidence = f.evidence /\ c.minimum = x.stock[f.material].minimum
  BY <1>3, AssessFields
<1>7. ToSet(a.todo) = {}  BY SingleList DEF AllDone
<1>. QED BY <1>3, <1>4, <1>5, <1>6, <1>7 DEF AllDone, Underway, Covered

ToldOf(a, op) == {c \in a.told : c.env.op = op}

LEMMA CompletionsTold ==
  ASSUME NEW u, NEW F, NEW a, AllDone(u, F, a)
  PROVE  /\ {c.env.id : c \in ToldOf(a, "complete")} = Completes(F)
         /\ \A t \in Completes(F) : task[t].status = "completed" /\ t \in Task
<1>1. PICK x : x = a.seen  OBVIOUS
<1>2. Reading(u, F, x) /\ Visible(x) = Visible(Base)  BY <1>1, ReadingSame DEF AllDone
<1>3. ASSUME NEW c \in ToldOf(a, "complete") PROVE c.env.id \in Completes(F)
  <2>1. Meant(u, F, x, c) /\ c.env.op = "complete"  BY <1>1 DEF AllDone, Underway, ToldOf
  <2>2. CompletesTask(F, c) \/ BlocksTask(F, c) \/ FollowsUp(F, c) \/ CreatesStock(c)
        \/ AdjustsStock(u, F, x, c) \/ OnlyTells(c)
    BY <1>2, <2>1, MeantEffects
  <2>. QED BY <2>1, <2>2 DEF CompletesTask, BlocksTask, FollowsUp, CreatesStock, AdjustsStock, OnlyTells
<1>4. ASSUME NEW t \in Completes(F)
      PROVE  /\ \E c \in ToldOf(a, "complete") : c.env.id = t
             /\ task[t].status = "completed" /\ t \in Task
  <2>1. Stops(F) = <<>> /\ \E f \in ToSet(First(Resolved(F.completed, Base))) : f.task = t
    BY DEF Completes
  <2>2. First(Resolved(F.completed, x)) = First(Resolved(F.completed, Base))
    BY <1>2, CompletionCounts DEF AllDone
  <2>3. PICK f \in ToSet(First(Resolved(F.completed, x))) : f.task = t  BY <2>1, <2>2
  <2>4. PICK c : c = CompleteCommand(u, f, x)  OBVIOUS
  <2>5. c \in PlanSet(u, F, x)  BY <2>1, <2>4 DEF PlanSet, CompletionSet
  <2>6. /\ c.key[2] = "complete" /\ c.key[3] = f.task /\ c.key = <<u, "complete", f.task>>
        /\ c.env.op = "complete" /\ c.env.id = f.task
    BY <2>4, CompleteKey
  <2>7. c \in a.told /\ \E e \in activity : e.key = c.key /\ e.env = c.env
    BY <1>1, <2>5, <2>6, PlanIsDone
  <2>8. task[t].status = "completed" /\ t \in Task
    BY <2>3, <2>6, <2>7 DEF AllDone, Settled, Effective
  <2>. QED BY <2>3, <2>6, <2>7, <2>8 DEF ToldOf
<1>. QED BY <1>3, <1>4

LEMMA RequestsTold ==
  ASSUME NEW u, NEW F, NEW a, AllDone(u, F, a)
  PROVE  {c.key : c \in ToldOf(a, "shortage")} = {c.key : c \in {c \in AskSet(u, F) : c.env.op = "shortage"}}
<1>1. PICK x : x = a.seen  OBVIOUS
<1>2. ASSUME NEW c \in ToldOf(a, "shortage") PROVE c \in AskSet(u, F) /\ c.env.op = "shortage"
  <2>1. Meant(u, F, x, c) /\ c.env.op = "shortage"  BY <1>1 DEF AllDone, Underway, ToldOf
  <2>2. c \notin PlanSet(u, F, x)  BY <2>1, PlanOps
  <2>3. c # ReportCommand(u, F)  BY <2>1, ReportKey
  <2>. QED BY <2>1, <2>2, <2>3 DEF Meant
<1>3. ASSUME NEW c \in AskSet(u, F), c.env.op = "shortage" PROVE c \in ToldOf(a, "shortage")
  <2>1. PICK m \in Named(F) : c \in AsksOf(u, F, m)  BY DEF AskSet
  <2>2. c \in a.told  BY <2>1, NamedIsAsked
  <2>. QED BY <1>3, <2>2 DEF ToldOf
<1>4. ToldOf(a, "shortage") = {c \in AskSet(u, F) : c.env.op = "shortage"}  BY <1>2, <1>3
<1>. QED BY <1>4

\* A warning that belongs to the report of the day.
LEMMA RiskSetKinds ==
  ASSUME NEW u, NEW F, NEW d \in RiskSet(u, F)
  PROVE  \/ Stops(F) # <<>> /\ d \in SafetySet(u, F)
         \/ /\ Stops(F) = <<>>
            /\ \E i \in 1..Len(Troubles(F)) : Raised(F, i, Base) /\ d = RaiseCommand(u, i, Troubles(F)[i])
         \/ /\ Stops(F) = <<>>
            /\ \E i \in 1..Len(Troubles(F)) :
                 /\ Blocker(F, i, Base) /\ Downstream(Troubles(F)[i].task, Base) # {}
                 /\ d = RiskCommand(u, i, Troubles(F)[i], Base)
         \/ d \in AskSet(u, F) /\ d.env.op = "issue"
BY DEF RiskSet

LEMMA RiskSetHas ==
  ASSUME NEW u, NEW F
  PROVE  /\ Stops(F) # <<>> => SafetySet(u, F) \subseteq RiskSet(u, F)
         /\ Stops(F) = <<>> => \A i \in 1..Len(Troubles(F)) :
              /\ Raised(F, i, Base) => RaiseCommand(u, i, Troubles(F)[i]) \in RiskSet(u, F)
              /\ Blocker(F, i, Base) /\ Downstream(Troubles(F)[i].task, Base) # {} =>
                   RiskCommand(u, i, Troubles(F)[i], Base) \in RiskSet(u, F)
         /\ \A c \in AskSet(u, F) : c.env.op = "issue" => c \in RiskSet(u, F)
BY DEF RiskSet

LEMMA RisksTold ==
  ASSUME NEW u, NEW F, NEW a, AllDone(u, F, a)
  PROVE  {c.key : c \in ToldOf(a, "issue")} = {c.key : c \in RiskSet(u, F)}
<1>1. PICK x : x = a.seen  OBVIOUS
<1>2. /\ \A i : Raised(F, i, x) <=> Raised(F, i, Base)
      /\ \A i : Blocker(F, i, x) <=> Blocker(F, i, Base)
  BY <1>1, ReadingSame DEF AllDone
<1>3. ASSUME Stops(F) = <<>>, NEW i \in 1..Len(Troubles(F)), Blocker(F, i, x), NEW f,
             f = Troubles(F)[i]
      PROVE  Downstream(f.task, x) = Downstream(f.task, Base)
  BY <1>1, <1>3, BlockersAreBlocked
<1>4. ASSUME NEW c \in ToldOf(a, "issue") PROVE \E d \in RiskSet(u, F) : d.key = c.key
  <2>1. Meant(u, F, x, c) /\ c.env.op = "issue"  BY <1>1 DEF AllDone, Underway, ToldOf
  <2>2. c # ReportCommand(u, F)  BY <2>1, ReportKey
  <2>3. CASE c \in AskSet(u, F)  BY <2>1, <2>3, RiskSetHas
  <2>4. CASE IsSafety(u, F, c) /\ Stops(F) # <<>>
    <3>1. c \in SafetySet(u, F)  BY <2>4 DEF IsSafety, SafetySet
    <3>. QED BY <2>4, <3>1, RiskSetHas
  <2>5. CASE IsCompletion(u, F, x, c)
    <3>1. PICK f : c = CompleteCommand(u, f, x)  BY <2>5 DEF IsCompletion
    <3>2. /\ c.key[2] = "complete" /\ c.key[3] = f.task /\ c.key = <<u, "complete", f.task>>
          /\ c.env.op = "complete" /\ c.env.id = f.task
      BY <3>1, CompleteKey
    <3>. QED BY <2>1, <3>2
  <2>6. CASE IsRaise(u, F, x, c)
    <3>1. PICK i \in 1..Len(Troubles(F)) : Raised(F, i, x) /\ c = RaiseCommand(u, i, Troubles(F)[i])
      BY <2>6 DEF IsRaise
    <3>2. Raised(F, i, Base) /\ Stops(F) = <<>>  BY <1>2, <2>6, <3>1 DEF IsRaise
    <3>3. c \in RiskSet(u, F)  BY <3>1, <3>2, RiskSetHas
    <3>. QED BY <3>3
  <2>7. CASE IsBlock(u, F, x, c)
    <3>1. PICK f : c = BlockCommand(u, f, x)  BY <2>7 DEF IsBlock
    <3>2. /\ c.key[2] = "blocked" /\ c.key[3] = f.task /\ c.key = <<u, "blocked", f.task>>
          /\ c.env.op = "progress" /\ c.env.id = f.task
      BY <3>1, BlockKey
    <3>. QED BY <2>1, <3>2
  <2>8. CASE IsFollow(u, F, x, c)
    <3>1. PICK i, f : c = FollowCommand(u, i, f)  BY <2>8 DEF IsFollow
    <3>2. /\ c.key[2] = "follow_up" /\ c.key[3] = i /\ c.key[4] = f.task
          /\ c.env.op = "follow_up" /\ c.env.id = f.task
      BY <3>1, FollowKey
    <3>. QED BY <2>1, <3>2
  <2>9. CASE IsRisk(u, F, x, c)
    <3>1. PICK i \in 1..Len(Troubles(F)) : /\ Blocker(F, i, x) /\ Downstream(Troubles(F)[i].task, x) # {}
                                          /\ c = RiskCommand(u, i, Troubles(F)[i], x)
      BY <2>9 DEF IsRisk
    <3>2. PICK f, d : f = Troubles(F)[i] /\ d = RiskCommand(u, i, f, Base)  OBVIOUS
    <3>3. Blocker(F, i, Base) /\ Stops(F) = <<>>  BY <1>2, <2>9, <3>1 DEF IsRisk
    <3>4. Downstream(f.task, Base) # {}  BY <1>3, <3>1, <3>2, <3>3
    <3>5. d \in RiskSet(u, F)  BY <3>2, <3>3, <3>4, RiskSetHas
    <3>6. c = RiskCommand(u, i, f, x)  BY <3>1, <3>2
    <3>7. c.key = <<u, "impact", i, f.task>>  BY <3>6, RiskKey
    <3>8. d.key = <<u, "impact", i, f.task>>  BY <3>2, RiskKey
    <3>. QED BY <3>5, <3>7, <3>8
  <2>10. CASE IsCreate(u, F, x, c)
    <3>1. PICK f : c = CreateCommand(u, f)  BY <2>10 DEF IsCreate
    <3>2. /\ c.key[2] = "auto_create" /\ c.key[3] = f.material
          /\ c.env = [op |-> "create_material", id |-> f.material, arg |-> <<>>]
          /\ c.env.op = "create_material" /\ c.env.id = f.material
      BY <3>1, CreateKey
    <3>. QED BY <2>1, <3>2
  <2>11. CASE IsAdjust(u, F, x, c)
    <3>1. PICK f : c = AdjustCommand(u, f, x)  BY <2>11 DEF IsAdjust
    <3>2. PICK delta : delta = f.quantity - x.stock[f.material].available  OBVIOUS
    <3>3. /\ c.key[2] = "reported_stock" /\ c.key[3] = f.material
          /\ c.key = <<u, "reported_stock", f.material>>
          /\ c.env = [op |-> "adjust", id |-> f.material,
                      arg |-> [delta |-> delta, evidence |-> f.evidence]]
          /\ c.env.op = "adjust" /\ c.env.id = f.material
      BY <3>1, <3>2, AdjustKey
    <3>. QED BY <2>1, <3>3
  <2>12. CASE IsAssess(u, F, x, c)
    <3>1. PICK f : c = AssessStep(f, x)  BY <2>12 DEF IsAssess
    <3>2. c.env.op = "assess"  BY <3>1, AssessFields
    <3>. QED BY <2>1, <3>2
  <2>13. CASE c \in PlanSet(u, F, x)
    BY <2>4, <2>5, <2>6, <2>7, <2>8, <2>9, <2>10, <2>11, <2>12, <2>13, PlanKinds
  <2>. QED BY <2>1, <2>2, <2>3, <2>13 DEF Meant
<1>5. ASSUME NEW d \in RiskSet(u, F) PROVE \E c \in ToldOf(a, "issue") : c.key = d.key
  <2>1. ASSUME NEW c \in PlanSet(u, F, x), c.env.op = "issue", c.key = d.key
        PROVE  \E b \in ToldOf(a, "issue") : b.key = d.key
    <3>1. c \in a.told  BY <1>1, <2>1, PlanIsDone
    <3>. QED BY <2>1, <3>1 DEF ToldOf
  <2>2. CASE Stops(F) # <<>> /\ d \in SafetySet(u, F)
    <3>1. PICK i : d = SafetyCommand(u, F, i)  BY <2>2 DEF SafetySet
    <3>2. d.key[2] = "safety" /\ d.key[3] = i /\ d.key = <<u, "safety", i>> /\ d.env.op = "issue"
      BY <3>1, SafetyKey
    <3>3. d \in PlanSet(u, F, x)  BY <2>2 DEF PlanSet
    <3>. QED BY <2>1, <3>2, <3>3
  <2>3. CASE /\ Stops(F) = <<>>
             /\ \E i \in 1..Len(Troubles(F)) : Raised(F, i, Base) /\ d = RaiseCommand(u, i, Troubles(F)[i])
    <3>1. PICK i \in 1..Len(Troubles(F)) : Raised(F, i, Base) /\ d = RaiseCommand(u, i, Troubles(F)[i])
      BY <2>3
    <3>2. PICK f : f = Troubles(F)[i]  OBVIOUS
    <3>3. d = RaiseCommand(u, i, f)  BY <3>1, <3>2
    <3>4. d.key[2] = "issue" /\ d.key[3] = i /\ d.key = <<u, "issue", i, f.type>> /\ d.env.op = "issue"
      BY <3>3, RaiseKey
    <3>5. Raised(F, i, x)  BY <1>2, <3>1
    <3>6. d \in PlanSet(u, F, x)  BY <2>3, <3>1, <3>5 DEF PlanSet, IssueSet
    <3>. QED BY <2>1, <3>4, <3>6
  <2>4. CASE /\ Stops(F) = <<>>
             /\ \E i \in 1..Len(Troubles(F)) :
                  /\ Blocker(F, i, Base) /\ Downstream(Troubles(F)[i].task, Base) # {}
                  /\ d = RiskCommand(u, i, Troubles(F)[i], Base)
    <3>1. PICK i \in 1..Len(Troubles(F)) :
             /\ Blocker(F, i, Base) /\ Downstream(Troubles(F)[i].task, Base) # {}
             /\ d = RiskCommand(u, i, Troubles(F)[i], Base)
      BY <2>4
    <3>2. PICK f, c : f = Troubles(F)[i] /\ c = RiskCommand(u, i, f, x)  OBVIOUS
    <3>3. Blocker(F, i, x)  BY <1>2, <3>1
    <3>4. Downstream(f.task, x) # {}  BY <1>3, <2>4, <3>1, <3>2, <3>3
    <3>5. c \in BlockingSet(u, i, f, x)  BY <3>2, <3>4 DEF BlockingSet
    <3>6. c \in PlanSet(u, F, x)  BY <2>4, <3>2, <3>3, <3>5 DEF PlanSet, IssueSet
    <3>7. d = RiskCommand(u, i, f, Base)  BY <3>1, <3>2
    <3>8. c.key = <<u, "impact", i, f.task>> /\ c.env.op = "issue"  BY <3>2, RiskKey
    <3>9. d.key = <<u, "impact", i, f.task>>  BY <3>7, RiskKey
    <3>. QED BY <2>1, <3>6, <3>8, <3>9
  <2>5. CASE d \in AskSet(u, F) /\ d.env.op = "issue"
    <3>1. PICK m \in Named(F) : d \in AsksOf(u, F, m)  BY <2>5 DEF AskSet
    <3>2. d \in a.told  BY <3>1, NamedIsAsked
    <3>. QED BY <2>5, <3>2 DEF ToldOf
  <2>. QED BY <2>2, <2>3, <2>4, <2>5, RiskSetKinds
<1>. DEFINE S == ToldOf(a, "issue")
            R == RiskSet(u, F)
<1>6. (\A c \in S : \E d \in R : d.key = c.key) /\ (\A d \in R : \E c \in S : c.key = d.key)
  BY <1>4, <1>5
<1>. HIDE DEF S, R
<1>7. {c.key : c \in S} = {c.key : c \in R}  BY <1>6
<1>. QED BY <1>7 DEF S, R

LEMMA ProgressTold ==
  ASSUME NEW u, NEW F, NEW a, AllDone(u, F, a)
  PROVE  {t \in Task : task[t].status = "in_progress"}
           = {t \in Task : Setup.task[t].status = "in_progress"} \ (Completes(F) \cup Blocks(F))
<1>1. MovedTo(F, Setup.task, task)  BY DEF AllDone, Settled
<1>2. ASSUME NEW t \in Completes(F) PROVE task[t].status # "in_progress"
  BY CompletionsTold
<1>3. ASSUME NEW t \in Blocks(F) PROVE task[t].status # "in_progress"
  <2>1. Stops(F) = <<>> /\ \E i \in 1..Len(Troubles(F)) : Blocker(F, i, Base) /\ t = Troubles(F)[i].task
    BY DEF Blocks
  <2>2. PICK i \in 1..Len(Troubles(F)) : Blocker(F, i, Base) /\ t = Troubles(F)[i].task  BY <2>1
  <2>3. Blocker(F, i, a.seen)  BY <2>2, ReadingSame DEF AllDone
  <2>4. task[t].status = "blocked"  BY <2>1, <2>2, <2>3, BlockersAreBlocked
  <2>. QED BY <2>4
<1>4. ASSUME NEW t \in Task
      PROVE  task[t].status = "in_progress" <=>
               Setup.task[t].status = "in_progress" /\ t \notin Completes(F) \cup Blocks(F)
  BY <1>1, <1>2, <1>3 DEF MovedTo
<1>. QED BY <1>4

LEMMA SummariseAsMeant ==
  ASSUME SiteUpdateInv, NEW u \in Update, NEW n \in 1..MaxAttempts, NEW F, NEW a, a = attempt[u][n],
         AllDone(u, F, a), Summarise(u, n)
  PROVE  \E b : Goto(u, n, b) /\ b.pc # "conflict" /\ Underway(u, F, b)
<1>. DEFINE arg == [completed |-> {c.env.id : c \in Told(u, n, "complete")},
                    risks |-> {c.key : c \in Told(u, n, "issue")},
                    requests |-> {c.key : c \in Told(u, n, "shortage")},
                    focus |-> attempt[u][n].facts.focus,
                    progress |-> {t \in Task : task[t].status = "in_progress"}]
            meant == [completed |-> Completes(F),
                      risks |-> {c.key : c \in RiskSet(u, F)},
                      requests |-> {c.key : c \in {c \in AskSet(u, F) : c.env.op = "shortage"}},
                      focus |-> F.focus,
                      progress |-> {t \in Task : Setup.task[t].status = "in_progress"}
                                     \ (Completes(F) \cup Blocks(F))]
<1>1. \A op : Told(u, n, op) = ToldOf(a, op)  BY DEF Told, ToldOf
<1>2. {c.env.id : c \in Told(u, n, "complete")} = Completes(F)  BY <1>1, CompletionsTold
<1>3. {c.key : c \in Told(u, n, "issue")} = {c.key : c \in RiskSet(u, F)}  BY <1>1, RisksTold
<1>4. {c.key : c \in Told(u, n, "shortage")} = {c.key : c \in {c \in AskSet(u, F) : c.env.op = "shortage"}}
  BY <1>1, RequestsTold
<1>5. attempt[u][n].facts.focus = F.focus  BY DEF AllDone
<1>6. arg = meant  BY <1>2, <1>3, <1>4, <1>5, ProgressTold
<1>. HIDE DEF arg, meant
<1>7. PICK c : c = Command(u, <<"report">>, "report", <<>>, arg, 0)  OBVIOUS
<1>8. c = ReportCommand(u, F)  BY <1>6, <1>7 DEF ReportCommand, meant
<1>9. Is(u, n, "working") /\ Goto(u, n, [attempt[u][n] EXCEPT !.todo = <<c>>])
  BY <1>7 DEF Summarise, arg
<1>10. PICK todo, b : todo = <<c>> /\ b = [a EXCEPT !.todo = todo]  OBVIOUS
<1>11. IsAttempt(u, a) /\ a.pc = "working"  BY <1>9 DEF SiteUpdateInv, AttemptsInv, Is
<1>12. /\ b.pc = a.pc /\ b.facts = a.facts /\ b.seen = a.seen /\ b.told = a.told
       /\ b.todo = todo
       /\ b = [pc |-> b.pc, facts |-> b.facts, seen |-> b.seen, todo |-> b.todo, told |-> b.told]
  BY <1>10, <1>11, ListSet
<1>13. IsList(b.todo) /\ ToSet(b.todo) = {c} /\ ToSet(a.todo) = {}
  BY <1>10, <1>12, SingleList DEF AllDone
<1>14. c.env.op = "report"  BY <1>8, ReportKey
<1>15. InTurn(b.todo)
  <2>1. Ripe(c)  BY <1>14 DEF Ripe
  <2>. QED BY <1>13, <2>1, InTurnRipe
<1>16. \A d \in ToSet(b.todo) : Meant(u, F, a.seen, d)  BY <1>8, <1>13 DEF Meant
<1>17. Underway(u, F, a)  BY DEF AllDone
<1>18. Covered(u, F, b)  BY <1>12, <1>13, <1>17 DEF Underway, Covered
<1>19. Underway(u, F, b)  BY <1>11, <1>12, <1>15, <1>16, <1>17, <1>18, ListedAnew
<1>20. Goto(u, n, b)  BY <1>9, <1>10
<1>. QED BY <1>19, <1>20 DEF Underway

-----------------------------------------------------------------------------
(***************************************************************************)
(* What an update sends is never refused for its key.                      *)
(***************************************************************************)
LEMMA NoConflict ==
  ASSUME NEW u, NEW F, NEW x, Reading(u, F, x), Settled(u, F), MovedTo(F, x.task, task),
         ReadStock(u, x.stock), NEW c, Meant(u, F, x, c), c.env.op # "assess", Ripe(c)
  PROVE  ~Conflicts(c)
<1>. SUFFICES ASSUME NEW e \in activity, e.key = c.key PROVE e.env = c.env
  BY DEF Conflicts
<1>1. Canonical(u, F, c) /\ Canonical(u, F, e) /\ Effective(F, e)
  BY RipeIsCanonical DEF Settled
<1>2. CASE c.key[2] # "reported_stock"  BY <1>1, <1>2 DEF Canonical
<1>3. CASE c.key[2] = "reported_stock"
  <2>1. CompletesTask(F, c) \/ BlocksTask(F, c) \/ FollowsUp(F, c) \/ CreatesStock(c)
        \/ AdjustsStock(u, F, x, c) \/ OnlyTells(c)
    BY MeantEffects
  <2>2. AdjustsStock(u, F, x, c)
    BY <1>3, <2>1 DEF CompletesTask, BlocksTask, FollowsUp, CreatesStock, OnlyTells
  <2>3. PICK m, said, had : m = c.env.id /\ said = Said(F, m).quantity /\ had = x.stock[m].available
    OBVIOUS
  <2>4. /\ c.key[3] = m /\ m \in Material /\ c.key = <<u, "reported_stock", m>>
        /\ x.stock[m].version # Never /\ c.env.arg.delta = said - had /\ said # had
    BY <2>2, <2>3 DEF AdjustsStock
  <2>5. stock[m].available = said  BY <1>1, <1>3, <2>3, <2>4 DEF Effective
  <2>6. had = stock[m].available
        \/ \E o \in activity : o.key = <<u, "reported_stock", m>> /\ o.env.arg.delta = stock[m].available - had
    BY <2>3, <2>4 DEF ReadStock
  <2>7. PICK o \in activity : o.key = c.key /\ o.env.arg.delta = said - had
    BY <2>4, <2>5, <2>6
  <2>8. o = e  BY <2>7 DEF Settled
  <2>9. e.env.arg.delta = c.env.arg.delta  BY <2>4, <2>7, <2>8
  <2>10. e.env = AdjustEnv(F, e.key[3], e.env.arg.delta) /\ c.env = AdjustEnv(F, c.key[3], c.env.arg.delta)
    BY <1>1, <1>3 DEF Canonical
  <2>. QED BY <2>9, <2>10
<1>. QED BY <1>2, <1>3

-----------------------------------------------------------------------------
(***************************************************************************)
(* A step of an attempt, and what it leaves of the others.                 *)
(***************************************************************************)
LEMMA GotoSets ==
  ASSUME AttemptsInv, NEW u \in Update, NEW n \in 1..MaxAttempts, NEW b, Goto(u, n, b)
  PROVE  \A v \in Update, k \in 1..MaxAttempts :
           attempt'[v][k] = IF v = u /\ k = n THEN b ELSE attempt[v][k]
<1>1. attempt = [v \in Update |-> [k \in 1..MaxAttempts |-> attempt[v][k]]]  BY DEF AttemptsInv
<1>2. attempt' = [attempt EXCEPT ![u][n] = b]  BY DEF Goto
<1>. QED BY <1>1, <1>2

LEMMA UnderwayReading ==
  ASSUME SiteUpdateInv, NEW u \in Update, NEW F \in Interpretations[u], Plain(F),
         NEW n \in 1..MaxAttempts, NEW a, a = attempt[u][n], a.pc # "idle", Underway(u, F, a)
  PROVE  /\ IsAttempt(u, a) /\ Knows(a) /\ IsList(a.todo)
         /\ Reading(u, F, a.seen) /\ SeenBefore(a.seen)
<1>1. IsAttempt(u, a) /\ Knows(a)  BY DEF SiteUpdateInv, AttemptsInv
<1>. QED BY <1>1 DEF IsAttempt, Knows, Underway, Reading

LEMMA UnderwayPrimed ==
  ASSUME UNCHANGED <<activity, task, stock>>, NEW u, NEW F
  PROVE  /\ MovedTo(F, task, task') /\ StockSteps(u) /\ activity \subseteq activity'
         /\ Settled(u, F) => Settled(u, F)'
         /\ \A b : Underway(u, F, b) => Underway(u, F, b)'
<1>1. MovedTo(F, task, task') /\ StockSteps(u)  BY DEF MovedTo, StockSteps
<1>2. Settled(u, F) => Settled(u, F)'  BY DEF Settled, Effective, Exists
<1>3. ASSUME NEW b, Underway(u, F, b) PROVE Underway(u, F, b)'
  <2>1. InTurn(b.todo)'  BY <1>3 DEF Underway, InTurn, Ripe
  <2>2. ReadStock(u, b.seen.stock)'  BY <1>3 DEF Underway, ReadStock
  <2>. QED BY <1>3, <2>1, <2>2 DEF Underway
<1>. QED BY <1>1, <1>2, <1>3

LEMMA UndisturbedGoes ==
  ASSUME SiteUpdateInv, NEW u \in Update, NEW F \in Interpretations[u], Plain(F), Undisturbed(u, F),
         Settled(u, F)', MovedTo(F, task, task'), StockSteps(u), activity \subseteq activity',
         NEW n \in 1..MaxAttempts, NEW b, Goto(u, n, b), Underway(u, F, b)'
  PROVE  Undisturbed(u, F)'
<1>1. \A k \in 1..MaxAttempts : attempt'[u][k] = IF k = n THEN b ELSE attempt[u][k]
  BY GotoSets DEF SiteUpdateInv
<1>2. ASSUME NEW k \in 1..MaxAttempts, attempt'[u][k].pc # "idle" PROVE Underway(u, F, attempt[u][k])'
  <2>1. PICK d : d = attempt'[u][k]  OBVIOUS
  <2>2. CASE k = n  BY <1>1, <2>1, <2>2
  <2>3. CASE k # n
    <3>1. d = attempt[u][k] /\ d.pc # "idle"  BY <1>1, <1>2, <2>1, <2>3
    <3>2. Underway(u, F, d) /\ Settled(u, F)  BY <3>1 DEF Undisturbed
    <3>3. IsList(d.todo) /\ Reading(u, F, d.seen) /\ SeenBefore(d.seen)
      BY <3>1, <3>2, UnderwayReading
    <3>4. Underway(u, F, d)'  BY <3>2, <3>3, UnderwayStays DEF SiteUpdateInv
    <3>. QED BY <2>1, <3>4
  <2>. QED BY <2>2, <2>3
<1>. QED BY <1>2 DEF Undisturbed

LEMMA UndisturbedRests ==
  ASSUME NEW u \in Update, NEW F, UNCHANGED <<activity, task, stock>>,
         \A k \in 1..MaxAttempts : attempt'[u][k] = attempt[u][k], Undisturbed(u, F)
  PROVE  Undisturbed(u, F)'
<1>1. Settled(u, F)'  BY UnderwayPrimed DEF Undisturbed
<1>2. ASSUME NEW k \in 1..MaxAttempts, attempt'[u][k].pc # "idle" PROVE Underway(u, F, attempt[u][k])'
  <2>1. PICK d : d = attempt[u][k]  OBVIOUS
  <2>2. d = attempt'[u][k] /\ d.pc # "idle"  BY <1>2, <2>1
  <2>3. Underway(u, F, d)  BY <2>1, <2>2 DEF Undisturbed
  <2>4. Underway(u, F, d)'  BY <2>3, UnderwayPrimed
  <2>. QED BY <2>2, <2>4
<1>. QED BY <1>1, <1>2 DEF Undisturbed

LEMMA BeginGoes ==
  ASSUME SiteUpdateInv, NEW u \in Update, NEW F \in Interpretations[u], Plain(F), Undisturbed(u, F),
         Quiet(u, F)', NEW n \in 1..MaxAttempts, Begin(u, n)
  PROVE  Undisturbed(u, F)'
<1>1. PICK seen : seen = [task |-> task, stock |-> stock]  OBVIOUS
<1>2. PICK facts \in Interpretations[u] :
         Goto(u, n, [pc |-> "working", facts |-> facts, seen |-> seen,
                     todo |-> Plan(u, facts, seen), told |-> {}])
  BY <1>1 DEF Begin
<1>3. PICK b : b = [pc |-> "working", facts |-> facts, seen |-> seen,
                    todo |-> Plan(u, facts, seen), told |-> {}]
  OBVIOUS
<1>4. /\ b.pc = "working" /\ b.facts = facts /\ b.seen = seen /\ b.told = {}
      /\ b.todo = Plan(u, facts, seen)
  BY <1>3
<1>5. Goto(u, n, b)  BY <1>2, <1>3
<1>6. attempt'[u][n] = b  BY <1>5, GotoSets DEF SiteUpdateInv
<1>7. facts = F  BY <1>4, <1>6 DEF Quiet
<1>8. seen.task = task /\ seen.stock = stock /\ IsContext(seen)
  BY <1>1 DEF SiteUpdateInv, RecordsInv, TasksInv, StockInv, IsContext
<1>9. Settled(u, F)  BY DEF Undisturbed
<1>10. Reading(u, F, seen)  BY <1>8, <1>9 DEF Reading, Settled
<1>11. InTurn(b.todo) /\ IsList(b.todo) /\ ToSet(b.todo) = PlanSet(u, F, seen)
  BY <1>4, <1>7, <1>8, <1>10, PlanInTurn
<1>12. Covered(u, F, b)  BY <1>4, <1>11 DEF Covered
<1>13. \A c \in b.told \cup ToSet(b.todo) : Meant(u, F, b.seen, c)  BY <1>4, <1>11 DEF Meant
<1>14. MovedTo(F, b.seen.task, task) /\ ReadStock(u, b.seen.stock)
  BY <1>4, <1>8 DEF MovedTo, ReadStock
<1>15. Underway(u, F, b)  BY <1>4, <1>10, <1>11, <1>12, <1>13, <1>14 DEF Underway, Reading
<1>16. UNCHANGED <<activity, task, stock>>  BY DEF Begin, records
<1>17. /\ MovedTo(F, task, task') /\ StockSteps(u) /\ activity \subseteq activity'
       /\ Settled(u, F)' /\ Underway(u, F, b)'
  BY <1>9, <1>15, <1>16, UnderwayPrimed
<1>. QED BY <1>5, <1>17, UndisturbedGoes

\* A command is sent, or has been sent before.
LEMMA AdvanceGoes ==
  ASSUME SiteUpdateInv, NEW u \in Update, NEW F \in Interpretations[u], Plain(F), Undisturbed(u, F),
         NEW n \in 1..MaxAttempts, Sending(u, n), Advance(u, n), NEW a, a = attempt[u][n],
         Settled(u, F)', MovedTo(F, task, task'), StockSteps(u), activity \subseteq activity',
         \E e \in activity' : e.key = Current(u, n).key
  PROVE  Undisturbed(u, F)'
<1>1. a.pc = "working" /\ a.todo # <<>> /\ Current(u, n).env.op # "assess"
  BY DEF Sending, Is
<1>2. Underway(u, F, a) /\ Settled(u, F)  BY <1>1 DEF Undisturbed
<1>3. IsAttempt(u, a) /\ IsList(a.todo) /\ Reading(u, F, a.seen) /\ SeenBefore(a.seen)
  BY <1>1, <1>2, UnderwayReading
<1>4. \A c \in ToSet(a.todo) : Meant(u, F, a.seen, c)  BY <1>2 DEF Underway
<1>5. Onward(u, n) = Tail(a.todo) /\ Current(u, n) = Head(a.todo)
  BY <1>1, <1>2, <1>3, <1>4, OnwardSame DEF Settled
<1>6. PICK c, todo : c = Head(a.todo) /\ todo = Tail(a.todo)  OBVIOUS
<1>. DEFINE half == [a EXCEPT !.todo = todo]
            b == [half EXCEPT !.told = a.told \cup {c}]
<1>7. /\ half.pc = a.pc /\ half.facts = a.facts /\ half.seen = a.seen /\ half.told = a.told
      /\ half.todo = todo
      /\ half = [pc |-> half.pc, facts |-> half.facts, seen |-> half.seen, todo |-> half.todo,
                 told |-> half.told]
  BY <1>3 DEF IsAttempt
<1>8. /\ b.pc = a.pc /\ b.seen = a.seen /\ b.told = a.told \cup {c} /\ b.todo = todo
  <2>. HIDE DEF half
  <2>. QED BY <1>7
<1>9. Goto(u, n, b)
  <2>1. Goto(u, n, [a EXCEPT !.todo = todo, !.told = @ \cup {c}])  BY <1>5, <1>6 DEF Advance
  <2>2. [a EXCEPT !.todo = todo, !.told = @ \cup {c}] = b  BY <1>3 DEF IsAttempt
  <2>. HIDE DEF b
  <2>. QED BY <2>1, <2>2
<1>. HIDE DEF b, half
<1>10. PICK d : d = b  OBVIOUS
<1>11. Underway(u, F, d)'
  <2>1. d.pc # "conflict" /\ d.seen = a.seen /\ d.told = a.told \cup {Head(a.todo)} /\ d.todo = Tail(a.todo)
    BY <1>1, <1>6, <1>8, <1>10
  <2>2. Head(a.todo).env.op # "assess" /\ \E e \in activity' : e.key = Head(a.todo).key
    BY <1>1, <1>5
  <2>3. RecordsInv  BY DEF SiteUpdateInv
  <2>. QED BY <1>1, <1>2, <1>3, <2>1, <2>2, <2>3, AdvanceStays
<1>12. Goto(u, n, d)  BY <1>9, <1>10
<1>. QED BY <1>11, <1>12, UndisturbedGoes

LEMMA SendGoes ==
  ASSUME SiteUpdateInv, NEW u \in Update, NEW F \in Interpretations[u], Plain(F), Undisturbed(u, F),
         NEW n \in 1..MaxAttempts, Send(u, n)
  PROVE  Undisturbed(u, F)'
<1>1. PICK a, c : a = attempt[u][n] /\ c = Current(u, n)  OBVIOUS
<1>2. Sending(u, n) /\ Perform(c) /\ Advance(u, n)  BY <1>1 DEF Send
<1>3. a.pc = "working" /\ a.todo # <<>> /\ c.env.op # "assess"  BY <1>1, <1>2 DEF Sending, Is
<1>4. Underway(u, F, a) /\ Settled(u, F)  BY <1>1, <1>3 DEF Undisturbed
<1>5. IsList(a.todo) /\ Reading(u, F, a.seen) /\ SeenBefore(a.seen)
  BY <1>1, <1>3, <1>4, UnderwayReading
<1>6. c = Head(a.todo)  BY <1>1 DEF Current
<1>7. Ripe(c) /\ c \in ToSet(a.todo)  BY <1>3, <1>4, <1>5, <1>6, HeadRipe DEF Underway
<1>8. Meant(u, F, a.seen, c) /\ MovedTo(F, a.seen.task, task) /\ ReadStock(u, a.seen.stock)
  BY <1>4, <1>7 DEF Underway
<1>9. RecordsInv  BY DEF SiteUpdateInv
<1>10. Settled(u, F)' /\ MovedTo(F, task, task') /\ StockSteps(u)
  BY <1>2, <1>3, <1>4, <1>5, <1>7, <1>8, <1>9, PerformSettles
<1>11. PICK e : e = [key |-> c.key, env |-> c.env]  OBVIOUS
<1>12. activity' = activity \cup {e} /\ e.key = c.key  BY <1>2, <1>11 DEF Perform, Record
<1>13. activity \subseteq activity' /\ \E o \in activity' : o.key = Current(u, n).key
  BY <1>1, <1>12
<1>. QED BY <1>1, <1>2, <1>10, <1>13, AdvanceGoes

LEMMA ResendGoes ==
  ASSUME SiteUpdateInv, NEW u \in Update, NEW F \in Interpretations[u], Plain(F), Undisturbed(u, F),
         NEW n \in 1..MaxAttempts, Resend(u, n)
  PROVE  Undisturbed(u, F)'
<1>1. Sending(u, n) /\ Advance(u, n) /\ UNCHANGED <<activity, task, stock>>
  BY DEF Resend, records
<1>2. \E e \in activity' : e.key = Current(u, n).key  BY <1>1 DEF Resend, Replays, Known
<1>3. Settled(u, F)  BY DEF Undisturbed
<1>4. Settled(u, F)' /\ MovedTo(F, task, task') /\ StockSteps(u) /\ activity \subseteq activity'
  BY <1>1, <1>3, UnderwayPrimed
<1>5. PICK a : a = attempt[u][n]  OBVIOUS
<1>. QED BY <1>1, <1>2, <1>4, <1>5, AdvanceGoes

\* The rest changes no record.
LEMMA AttemptRests ==
  ASSUME SiteUpdateInv, NEW u \in Update, NEW F \in Interpretations[u], Plain(F), Undisturbed(u, F),
         NEW n \in 1..MaxAttempts, UNCHANGED records, NEW b, Goto(u, n, b), Underway(u, F, b)
  PROVE  Undisturbed(u, F)'
<1>1. UNCHANGED <<activity, task, stock>> /\ Settled(u, F)  BY DEF records, Undisturbed
<1>2. /\ MovedTo(F, task, task') /\ StockSteps(u) /\ activity \subseteq activity'
      /\ Settled(u, F)' /\ Underway(u, F, b)'
  BY <1>1, UnderwayPrimed
<1>. QED BY <1>2, UndisturbedGoes

LEMMA StopGoes ==
  ASSUME SiteUpdateInv, NEW u \in Update, NEW F \in Interpretations[u], Plain(F), Undisturbed(u, F),
         NEW n \in 1..MaxAttempts, Is(u, n, "working"), UNCHANGED records, NEW pc, pc # "conflict",
         Goto(u, n, [attempt[u][n] EXCEPT !.pc = pc])
  PROVE  Undisturbed(u, F)'
<1>1. PICK a, b : a = attempt[u][n] /\ b = [a EXCEPT !.pc = pc]  OBVIOUS
<1>2. a.pc = "working"  BY <1>1 DEF Is
<1>3. Underway(u, F, a)  BY <1>1, <1>2 DEF Undisturbed
<1>4. IsAttempt(u, a) /\ IsList(a.todo)  BY <1>1, <1>2, <1>3, UnderwayReading
<1>5. b.pc = pc /\ b.seen = a.seen /\ b.told = a.told /\ b.todo = a.todo
  BY <1>1, <1>4, PcSet
<1>6. Covered(u, F, b)  BY <1>3, <1>5 DEF Underway, Covered
<1>7. Underway(u, F, b)  BY <1>3, <1>5, <1>6 DEF Underway
<1>8. Goto(u, n, b)  BY <1>1
<1>. QED BY <1>7, <1>8, AttemptRests

LEMMA FailsGoes ==
  ASSUME SiteUpdateInv, NEW u \in Update, NEW F \in Interpretations[u], Plain(F), Undisturbed(u, F),
         NEW n \in 1..MaxAttempts, Fails(u, n)
  PROVE  Undisturbed(u, F)'
<1>1. PICK a, c : a = attempt[u][n] /\ c = Current(u, n)  OBVIOUS
<1>2. Sending(u, n) /\ UNCHANGED records  BY DEF Fails
<1>3. a.pc = "working" /\ a.todo # <<>> /\ c.env.op # "assess"  BY <1>1, <1>2 DEF Sending, Is
<1>4. Underway(u, F, a) /\ Settled(u, F)  BY <1>1, <1>3 DEF Undisturbed
<1>5. IsList(a.todo) /\ Reading(u, F, a.seen)  BY <1>1, <1>3, <1>4, UnderwayReading
<1>6. c = Head(a.todo)  BY <1>1 DEF Current
<1>7. Ripe(c) /\ c \in ToSet(a.todo)  BY <1>3, <1>4, <1>5, <1>6, HeadRipe DEF Underway
<1>8. Meant(u, F, a.seen, c) /\ MovedTo(F, a.seen.task, task) /\ ReadStock(u, a.seen.stock)
  BY <1>4, <1>7 DEF Underway
<1>9. ~Conflicts(c)  BY <1>3, <1>4, <1>5, <1>7, <1>8, NoConflict
<1>10. Goto(u, n, [attempt[u][n] EXCEPT !.pc = "refused"])  BY <1>1, <1>9 DEF Fails
<1>11. Is(u, n, "working")  BY <1>2 DEF Sending
<1>. QED BY <1>2, <1>10, <1>11, StopGoes

LEMMA AssessGoes ==
  ASSUME SiteUpdateInv, NEW u \in Update, NEW F \in Interpretations[u], Plain(F), Undisturbed(u, F),
         Quiet(u, F), NEW n \in 1..MaxAttempts, Assess(u, n)
  PROVE  Undisturbed(u, F)'
<1>1. PICK a : a = attempt[u][n]  OBVIOUS
<1>2. a.pc = "working"  BY <1>1 DEF Assess, Is
<1>3. Underway(u, F, a) /\ Settled(u, F) /\ a.facts = F  BY <1>1, <1>2 DEF Undisturbed, Quiet
<1>4. IsAttempt(u, a) /\ IsList(a.todo) /\ Reading(u, F, a.seen)
  BY <1>1, <1>2, <1>3, UnderwayReading
<1>5. PICK first : /\ Goto(u, n, [a EXCEPT !.todo = first \o Tail(a.todo)])
                   /\ IsList(first) /\ ToSet(first) = AsksOf(u, F, Head(a.todo).env.id)
                   /\ Head(a.todo).env.id \in Named(F)
                   /\ a.pc = "working" /\ a.todo # <<>> /\ Head(a.todo).env.op = "assess"
  BY <1>1, <1>3, <1>4, AssessAsks
<1>6. PICK todo, b, s : /\ todo = first \o Tail(a.todo) /\ b = [a EXCEPT !.todo = todo]
                        /\ s = Head(a.todo)
  OBVIOUS
<1>7. /\ b.pc = a.pc /\ b.facts = a.facts /\ b.seen = a.seen /\ b.told = a.told
      /\ b.todo = todo
      /\ b = [pc |-> b.pc, facts |-> b.facts, seen |-> b.seen, todo |-> b.todo, told |-> b.told]
  <2>1. IsAttempt(u, a) /\ b = [a EXCEPT !.todo = todo]  BY <1>4, <1>6
  <2>. QED BY <2>1, ListSet
<1>8. UNCHANGED records  BY DEF Assess
<1>9. InTurn(Tail(a.todo))
  <2>1. PICK list : list = a.todo  OBVIOUS
  <2>2. UNCHANGED <<activity, task, stock>>  BY <1>8 DEF records
  <2>3. \A c : Ripe(c) <=> Ripe(c)'
    <3>. TAKE c
    <3>. QED BY <2>2 DEF Ripe
  <2>4. \A d \in ToSet(list) : Ripe(d) \/ Ripens(Head(list), d) => Ripe(d)'
    <3>. SUFFICES ASSUME NEW d \in ToSet(list), Ripens(Head(list), d) PROVE Ripe(d)'
      BY <2>3
    <3>. QED BY <1>5, <2>1 DEF Ripens
  <2>5. IsList(list) /\ list # <<>> /\ InTurn(list)  BY <1>3, <1>4, <1>5, <2>1 DEF Underway
  <2>6. InTurn(Tail(list))'  BY <2>4, <2>5, TailInTurn
  <2>7. InTurn(Tail(list))  BY <2>3, <2>6 DEF InTurn
  <2>. QED BY <2>1, <2>7
<1>10. Underway(u, F, b)
  <2>1. b.pc # "conflict" /\ b.seen = a.seen /\ b.told = a.told /\ b.todo = first \o Tail(a.todo)
    BY <1>2, <1>6, <1>7
  <2>. QED BY <1>3, <1>4, <1>5, <1>6, <1>9, <2>1, AssessStays
<1>11. Goto(u, n, b)  BY <1>5, <1>6
<1>. QED BY <1>8, <1>10, <1>11, AttemptRests

LEMMA SummariseGoes ==
  ASSUME SiteUpdateInv, NEW u \in Update, NEW F \in Interpretations[u], Plain(F), Undisturbed(u, F),
         Quiet(u, F), NEW n \in 1..MaxAttempts, Summarise(u, n)
  PROVE  Undisturbed(u, F)'
<1>1. PICK a : a = attempt[u][n]  OBVIOUS
<1>2. a.pc = "working" /\ a.todo = <<>> /\ UNCHANGED records  BY <1>1 DEF Summarise, Is
<1>3. Underway(u, F, a) /\ Settled(u, F) /\ a.facts = F  BY <1>1, <1>2 DEF Undisturbed, Quiet
<1>4. Knows(a) /\ Reading(u, F, a.seen)  BY <1>1, <1>2, <1>3, UnderwayReading
<1>5. AllDone(u, F, a)  BY <1>2, <1>3, <1>4 DEF AllDone
<1>6. PICK b : Goto(u, n, b) /\ b.pc # "conflict" /\ Underway(u, F, b)
  BY <1>1, <1>5, SummariseAsMeant
<1>. QED BY <1>2, <1>6, AttemptRests

LEMMA OwnStepGoes ==
  ASSUME SiteUpdateInv, NEW u \in Update, NEW F \in Interpretations[u], Plain(F), Undisturbed(u, F),
         Quiet(u, F), Quiet(u, F)', NEW n \in 1..MaxAttempts, AttemptStep(u, n) \/ Die(u, n)
  PROVE  Undisturbed(u, F)'
<1>1. CASE Begin(u, n)  BY <1>1, BeginGoes
<1>2. CASE Send(u, n)  BY <1>2, SendGoes
<1>3. CASE Resend(u, n)  BY <1>3, ResendGoes
<1>4. CASE Fails(u, n)  BY <1>4, FailsGoes
<1>5. CASE Assess(u, n)  BY <1>5, AssessGoes
<1>6. CASE Summarise(u, n)  BY <1>6, SummariseGoes
<1>7. CASE Finish(u, n)
  <2>1. /\ Is(u, n, "working") /\ UNCHANGED records
        /\ Goto(u, n, [attempt[u][n] EXCEPT !.pc = "done"])
    BY <1>7 DEF Finish
  <2>. QED BY <2>1, StopGoes
<1>8. CASE Die(u, n)
  <2>1. /\ Is(u, n, "working") /\ UNCHANGED records
        /\ Goto(u, n, [attempt[u][n] EXCEPT !.pc = "dead"])
    BY <1>8 DEF Die
  <2>. QED BY <2>1, StopGoes
<1>. QED BY <1>1, <1>2, <1>3, <1>4, <1>5, <1>6, <1>7, <1>8 DEF AttemptStep

-----------------------------------------------------------------------------
(***************************************************************************)
(* Every behaviour: what has been quiet so far goes on as the report says. *)
(***************************************************************************)
\* What a step makes of an attempt: nothing that it was told is forgotten.
Goes(a, b) ==
  /\ b.pc # "idle" /\ a.told \subseteq b.told
  /\ a.pc # "idle" => b.facts = a.facts

LEMMA StepGoes ==
  ASSUME SiteUpdateInv, NEW u \in Update, NEW n \in 1..MaxAttempts, AttemptStep(u, n) \/ Die(u, n),
         NEW a, a = attempt[u][n], a.pc = "idle" => a.told = {}
  PROVE  \E b : Goto(u, n, b) /\ Goes(a, b)
<1>1. IsAttempt(u, a)  BY DEF SiteUpdateInv, AttemptsInv
<1>2. ASSUME NEW pc, pc # "idle", Goto(u, n, [attempt[u][n] EXCEPT !.pc = pc])
      PROVE  \E b : Goto(u, n, b) /\ Goes(a, b)
  <2>1. PICK b : b = [a EXCEPT !.pc = pc]  OBVIOUS
  <2>2. b.pc = pc /\ b.facts = a.facts /\ b.told = a.told  BY <1>1, <2>1, PcSet
  <2>. QED BY <1>2, <2>1, <2>2 DEF Goes
<1>3. ASSUME NEW todo, a.pc # "idle", Goto(u, n, [attempt[u][n] EXCEPT !.todo = todo])
      PROVE  \E b : Goto(u, n, b) /\ Goes(a, b)
  <2>1. PICK b : b = [a EXCEPT !.todo = todo]  OBVIOUS
  <2>2. b.pc = a.pc /\ b.facts = a.facts /\ b.told = a.told  BY <1>1, <2>1, ListSet
  <2>. QED BY <1>3, <2>1, <2>2 DEF Goes
<1>4. ASSUME Sending(u, n), Advance(u, n) PROVE \E b : Goto(u, n, b) /\ Goes(a, b)
  <2>1. PICK todo, c : todo = Onward(u, n) /\ c = Current(u, n)  OBVIOUS
  <2>2. Goto(u, n, [a EXCEPT !.todo = todo, !.told = @ \cup {c}])  BY <1>4, <2>1 DEF Advance
  <2>3. PICK b : b = [a EXCEPT !.todo = todo, !.told = @ \cup {c}]  OBVIOUS
  <2>4. b.pc = a.pc /\ b.facts = a.facts /\ b.told = a.told \cup {c}  BY <1>1, <2>3 DEF IsAttempt
  <2>5. a.pc # "idle"  BY <1>4 DEF Sending, Is
  <2>. QED BY <2>2, <2>3, <2>4, <2>5 DEF Goes
<1>5. CASE Begin(u, n)
  <2>1. a.pc = "idle"  BY <1>5 DEF Begin, Is
  <2>2. PICK seen : seen = [task |-> task, stock |-> stock]  OBVIOUS
  <2>3. PICK facts \in Interpretations[u] :
           Goto(u, n, [pc |-> "working", facts |-> facts, seen |-> seen,
                       todo |-> Plan(u, facts, seen), told |-> {}])
    BY <1>5, <2>2 DEF Begin
  <2>4. PICK b : b = [pc |-> "working", facts |-> facts, seen |-> seen,
                      todo |-> Plan(u, facts, seen), told |-> {}]
    OBVIOUS
  <2>5. b.pc = "working" /\ b.told = {}  BY <2>4
  <2>. QED BY <2>1, <2>3, <2>4, <2>5 DEF Goes
<1>6. CASE Send(u, n)  BY <1>4, <1>6 DEF Send
<1>7. CASE Resend(u, n)  BY <1>4, <1>7 DEF Resend
<1>8. CASE Fails(u, n)
  <2>1. CASE Conflicts(Current(u, n))  BY <1>2, <1>8, <2>1 DEF Fails
  <2>2. CASE ~Conflicts(Current(u, n))  BY <1>2, <1>8, <2>2 DEF Fails
  <2>. QED BY <2>1, <2>2
<1>9. CASE Assess(u, n)
  <2>1. Is(u, n, "working") /\ \E todo : Goto(u, n, [attempt[u][n] EXCEPT !.todo = todo])
    BY <1>9 DEF Assess
  <2>. QED BY <1>3, <2>1 DEF Is
<1>10. CASE Summarise(u, n)
  <2>1. Is(u, n, "working") /\ \E todo : Goto(u, n, [attempt[u][n] EXCEPT !.todo = todo])
    BY <1>10 DEF Summarise
  <2>. QED BY <1>3, <2>1 DEF Is
<1>11. CASE Finish(u, n)  BY <1>2, <1>11 DEF Finish
<1>12. CASE Die(u, n)  BY <1>2, <1>12 DEF Die
<1>. QED BY <1>5, <1>6, <1>7, <1>8, <1>9, <1>10, <1>11, <1>12 DEF AttemptStep

NothingBefore ==
  \A u \in Update, n \in 1..MaxAttempts : attempt[u][n].pc = "idle" => attempt[u][n].told = {}

RetryInv ==
  /\ NothingBefore
  /\ \A u \in Update : \A F \in Interpretations[u] : Quiet(u, F) /\ Plain(F) => Undisturbed(u, F)

LEMMA AttemptsGo ==
  ASSUME SiteUpdateInv, NothingBefore, [Next]_vars
  PROVE  /\ \A u \in Update, n \in 1..MaxAttempts :
              attempt'[u][n] = attempt[u][n] \/ Goes(attempt[u][n], attempt'[u][n])
         /\ NothingBefore'
<1>1. ASSUME NEW u \in Update, NEW n \in 1..MaxAttempts
      PROVE  attempt'[u][n] = attempt[u][n] \/ Goes(attempt[u][n], attempt'[u][n])
  <2>1. CASE UNCHANGED attempt  BY <2>1
  <2>2. CASE \E v \in Update, k \in 1..MaxAttempts : AttemptStep(v, k) \/ Die(v, k)
    <3>1. PICK v \in Update, k \in 1..MaxAttempts : AttemptStep(v, k) \/ Die(v, k)  BY <2>2
    <3>2. PICK a : a = attempt[v][k]  OBVIOUS
    <3>3. a.pc = "idle" => a.told = {}  BY <3>2 DEF NothingBefore
    <3>4. PICK b : Goto(v, k, b) /\ Goes(a, b)  BY <3>1, <3>2, <3>3, StepGoes
    <3>5. attempt'[u][n] = IF u = v /\ n = k THEN b ELSE attempt[u][n]
      BY <3>4, GotoSets DEF SiteUpdateInv
    <3>. QED BY <3>2, <3>4, <3>5
  <2>3. UNCHANGED attempt \/ \E v \in Update, k \in 1..MaxAttempts : AttemptStep(v, k) \/ Die(v, k)
    BY DEF Next, UserReads, UserSends, Decided, vars
  <2>. QED BY <2>1, <2>2, <2>3
<1>2. NothingBefore'  BY <1>1 DEF NothingBefore, Goes
<1>. QED BY <1>1, <1>2

LEMMA ActivityGrows ==
  ASSUME [Next]_vars
  PROVE  activity \subseteq activity'
<1>1. ASSUME NEW c, Perform(c) PROVE activity \subseteq activity'
  BY <1>1 DEF Perform, Record
<1>2. UNCHANGED records => activity' = activity  BY DEF records
<1>3. ASSUME NEW u \in Update, NEW n \in 1..MaxAttempts, AttemptStep(u, n) \/ Die(u, n)
      PROVE  activity \subseteq activity'
  <2>1. Send(u, n) => activity \subseteq activity'  BY <1>1 DEF Send
  <2>2. UNCHANGED records \/ Send(u, n)
    BY <1>3 DEF AttemptStep, Begin, Resend, Fails, Assess, Summarise, Finish, Die
  <2>. QED BY <1>2, <2>1, <2>2
<1>4. ASSUME NEW i \in DOMAIN UserCommand, UserReads(i) \/ UserSends(i)
      PROVE  activity \subseteq activity'
  <2>1. UserSends(i) => activity \subseteq activity'  BY <1>1 DEF UserSends
  <2>. QED BY <1>2, <1>4, <2>1 DEF UserReads
<1>5. Decided => activity' = activity  BY DEF Decided
<1>6. UNCHANGED vars => activity' = activity  BY <1>2 DEF vars
<1>. QED BY <1>3, <1>4, <1>5, <1>6 DEF Next

\* What is quiet after a step was quiet before it.
LEMMA QuietBefore ==
  ASSUME SiteUpdateInv, NothingBefore, [Next]_vars, NEW u \in Update, NEW F, Quiet(u, F)'
  PROVE  Quiet(u, F)
<1>1. \A v \in Update, n \in 1..MaxAttempts :
        attempt'[v][n] = attempt[v][n] \/ Goes(attempt[v][n], attempt'[v][n])
  BY AttemptsGo
<1>2. ~UserActed  BY ActivityGrows DEF Quiet, UserActed, Known
<1>3. ASSUME NEW v \in Update \ {u}, NEW k \in 1..MaxAttempts PROVE attempt[v][k].told = {}
  <2>1. attempt'[v][k].told = {}  BY DEF Quiet
  <2>. QED BY <1>1, <2>1 DEF Goes
<1>4. ASSUME NEW k \in 1..MaxAttempts, attempt[u][k].pc # "idle" PROVE attempt[u][k].facts = F
  <2>1. attempt'[u][k].pc # "idle" => attempt'[u][k].facts = F  BY DEF Quiet
  <2>. QED BY <1>1, <1>4, <2>1 DEF Goes
<1>. QED BY <1>2, <1>3, <1>4 DEF Quiet

\* A step of anybody else that leaves things quiet changes nothing that the update is about.
LEMMA OthersRest ==
  ASSUME SiteUpdateInv, [Next]_vars, NEW u \in Update, NEW F, Quiet(u, F)',
         ~\E n \in 1..MaxAttempts : AttemptStep(u, n) \/ Die(u, n)
  PROVE  /\ UNCHANGED <<activity, task, stock>>
         /\ \A k \in 1..MaxAttempts : attempt'[u][k] = attempt[u][k]
<1>1. ASSUME NEW v \in Update, NEW n \in 1..MaxAttempts, AttemptStep(v, n) \/ Die(v, n)
      PROVE  /\ UNCHANGED <<activity, task, stock>>
             /\ \A k \in 1..MaxAttempts : attempt'[u][k] = attempt[u][k]
  <2>1. v # u  BY <1>1
  <2>2. PICK a : a = attempt[v][n]  OBVIOUS
  <2>3. IsAttempt(v, a)  BY <2>2 DEF SiteUpdateInv, AttemptsInv
  <2>4. ~Advance(v, n)
    <3>. SUFFICES ASSUME Advance(v, n) PROVE FALSE  OBVIOUS
    <3>1. PICK todo, c : todo = Onward(v, n) /\ c = Current(v, n)  OBVIOUS
    <3>2. Goto(v, n, [a EXCEPT !.todo = todo, !.told = @ \cup {c}])  BY <2>2, <3>1 DEF Advance
    <3>3. PICK b : b = [a EXCEPT !.todo = todo, !.told = @ \cup {c}]  OBVIOUS
    <3>4. b.told = a.told \cup {c}  BY <2>3, <3>3 DEF IsAttempt
    <3>5. attempt'[v][n] = b  BY <3>2, <3>3, GotoSets DEF SiteUpdateInv
    <3>6. attempt'[v][n].told = {}  BY <2>1 DEF Quiet
    <3>. QED BY <3>4, <3>5, <3>6
  <2>5. UNCHANGED records
    BY <1>1, <2>4 DEF AttemptStep, Begin, Send, Resend, Fails, Assess, Summarise, Finish, Die
  <2>6. PICK b : Goto(v, n, b)
    BY <1>1, <2>4 DEF AttemptStep, Begin, Send, Resend, Fails, Assess, Summarise, Finish, Die
  <2>7. \A k \in 1..MaxAttempts : attempt'[u][k] = attempt[u][k]
    BY <2>1, <2>6, GotoSets DEF SiteUpdateInv
  <2>. QED BY <2>5, <2>7 DEF records
<1>2. ASSUME NEW i \in DOMAIN UserCommand PROVE ~UserSends(i)
  <2>. SUFFICES ASSUME UserSends(i) PROVE FALSE  OBVIOUS
  <2>1. PICK r, c : r = UserCommand[i] /\ c = [r EXCEPT !.expected = user[i]]  OBVIOUS
  <2>2. IsRequest(r)  BY <2>1, SiteUpdateAssumption
  <2>3. c.key = r.key  BY <2>1, <2>2 DEF IsRequest
  <2>4. Perform(c)  BY <2>1 DEF UserSends
  <2>5. PICK e : e = [key |-> c.key, env |-> c.env]  OBVIOUS
  <2>6. e \in activity' /\ e.key = UserCommand[i].key
    BY <2>1, <2>3, <2>4, <2>5 DEF Perform, Record
  <2>. QED BY <2>6 DEF Quiet, UserActed, Known
<1>3. ASSUME UNCHANGED <<activity, task, stock, attempt>>
      PROVE  /\ UNCHANGED <<activity, task, stock>>
             /\ \A k \in 1..MaxAttempts : attempt'[u][k] = attempt[u][k]
  BY <1>3
<1>4. CASE \E i \in DOMAIN UserCommand : UserReads(i) \/ UserSends(i)
  BY <1>2, <1>3, <1>4 DEF UserReads, records
<1>5. CASE Decided  BY <1>3, <1>5 DEF Decided
<1>6. CASE UNCHANGED vars  BY <1>3, <1>6 DEF vars, records
<1>. QED BY <1>1, <1>4, <1>5, <1>6 DEF Next

LEMMA InitRetries == Init => RetryInv
<1>. SUFFICES ASSUME Init PROVE RetryInv  OBVIOUS
<1>1. activity = {} /\ task = Setup.task /\ stock = Setup.stock
  BY DEF Init, SetUp
<1>2. PICK a : a = Idle  OBVIOUS
<1>3. a.pc = "idle" /\ a.told = {}  BY <1>2 DEF Idle
<1>4. \A u \in Update, n \in 1..MaxAttempts : attempt[u][n] = a  BY <1>2 DEF Init
<1>5. NothingBefore  BY <1>3, <1>4 DEF NothingBefore
<1>6. ASSUME NEW u \in Update, NEW F PROVE Undisturbed(u, F)
  <2>1. InOrder(task)  BY <1>1, SiteUpdateAssumption DEF InOrder, IsProject
  <2>2. MovedTo(F, Setup.task, task) /\ KeptStock(stock)  BY <1>1 DEF MovedTo, KeptStock
  <2>3. Settled(u, F)  BY <1>1, <2>1, <2>2 DEF Settled
  <2>. QED BY <1>3, <1>4, <2>3 DEF Undisturbed
<1>. QED BY <1>5, <1>6 DEF RetryInv

LEMMA NextRetries == SiteUpdateInv /\ RetryInv /\ [Next]_vars => RetryInv'
<1>. SUFFICES ASSUME SiteUpdateInv, RetryInv, [Next]_vars PROVE RetryInv'  OBVIOUS
<1>1. NothingBefore /\ NothingBefore'  BY AttemptsGo DEF RetryInv
<1>2. ASSUME NEW u \in Update, NEW F \in Interpretations[u], Quiet(u, F)', Plain(F)
      PROVE  Undisturbed(u, F)'
  <2>1. Quiet(u, F)  BY <1>1, <1>2, QuietBefore
  <2>2. Undisturbed(u, F)  BY <1>2, <2>1 DEF RetryInv
  <2>3. CASE \E n \in 1..MaxAttempts : AttemptStep(u, n) \/ Die(u, n)
    BY <1>2, <2>1, <2>2, <2>3, OwnStepGoes
  <2>4. CASE ~\E n \in 1..MaxAttempts : AttemptStep(u, n) \/ Die(u, n)
    <3>1. /\ UNCHANGED <<activity, task, stock>>
          /\ \A k \in 1..MaxAttempts : attempt'[u][k] = attempt[u][k]
      BY <1>2, <2>4, OthersRest
    <3>. QED BY <2>2, <3>1, UndisturbedRests
  <2>. QED BY <2>3, <2>4
<1>3. ASSUME NEW u \in Update, NEW F \in Interpretations[u]
      PROVE  Quiet(u, F)' /\ Plain(F) => Undisturbed(u, F)'
  BY <1>2
<1>. QED BY <1>1, <1>3 DEF RetryInv

LEMMA RetriesMean == SiteUpdateInv /\ RetryInv => RetryIsRecognised
<1>. SUFFICES ASSUME SiteUpdateInv, RetryInv, NEW u \in Update, NEW n \in 1..MaxAttempts,
                     Is(u, n, "conflict"), ~UserActed,
                     ~BlockedTwice(attempt[u][n].facts), ~DoneAndNext(attempt[u][n].facts),
                     ~\E v \in Update \ {u}, k \in 1..MaxAttempts : attempt[v][k].told # {},
                     ~\E k \in 1..MaxAttempts :
                        attempt[u][k].pc # "idle" /\ attempt[u][k].facts # attempt[u][n].facts
              PROVE  FALSE
  BY DEF RetryIsRecognised
<1>1. PICK a, F : a = attempt[u][n] /\ F = a.facts  OBVIOUS
<1>2. a.pc = "conflict"  BY <1>1 DEF Is
<1>3. F \in Interpretations[u]  BY <1>1, <1>2 DEF SiteUpdateInv, AttemptsInv, IsAttempt
<1>4. Quiet(u, F) /\ Plain(F)  BY <1>1 DEF Quiet, Plain
<1>5. Underway(u, F, a)  BY <1>1, <1>2, <1>3, <1>4 DEF RetryInv, Undisturbed
<1>. QED BY <1>2, <1>5 DEF Underway

\* While nobody else changes the project and the report is read as before, an attempt
\* works out anew what the attempt before it sent, down to the stock it moved and the
\* report of the day: it is not refused its own keys.
THEOREM RetriesAreRecognised == Spec => []RetryIsRecognised
<1>1. Init => SiteUpdateInv /\ RetryInv  BY InitKeeps, InitRetries
<1>2. SiteUpdateInv /\ RetryInv /\ [Next]_vars => (SiteUpdateInv /\ RetryInv)'
  BY NextKeeps, NextRetries
<1>. QED BY <1>1, <1>2, RetriesMean, PTL DEF Spec
=============================================================================
