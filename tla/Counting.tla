-------------------------------- MODULE Counting --------------------------------
(***************************************************************************)
(* Facts about data that the proofs of several components rest on.  The    *)
(* library's induction theorems take operators, which no prover here can   *)
(* instantiate, so an induction is over the set of the numbers for which a *)
(* statement holds: Climb.                                                 *)
(***************************************************************************)
EXTENDS Integers, Sequences, Functions, FiniteSetTheorems, SequenceTheorems,
        WellFoundedInduction, TLAPS

Less == {s \in Nat \X Nat : s[1] < s[2]}

LEMMA Minimum ==
  ASSUME NEW T \in SUBSET Nat, T # {}
  PROVE  \E x \in T : \A y \in T : x <= y
  <1>1. IsWellFoundedOn(Less, Nat)
    BY NatLessThanWellFounded DEF OpToRel, Less
  <1>2. \E x \in T : \A y \in T : ~ (<<y, x>> \in Less)
    BY <1>1, WFMin
  <1>3. \A x, y \in T : ~ (<<y, x>> \in Less) => x <= y
    BY DEF Less
  <1> QED
    BY <1>2, <1>3

LEMMA ClimbTo ==
  ASSUME NEW n \in Nat, NEW T, 0 \in T, \A d \in T \cap Nat : d < n => d + 1 \in T
  PROVE  0..n \subseteq T
  <1> DEFINE Missed == {d \in 0..n : d \notin T}
  <1> SUFFICES ASSUME Missed # {} PROVE FALSE
    OBVIOUS
  <1>1. Missed \in SUBSET Nat
    OBVIOUS
  <1> HIDE DEF Missed
  <1>2. PICK x \in Missed : \A y \in Missed : x <= y
    BY <1>1, Minimum
  <1>3. x \in 0..n /\ x \notin T
    BY DEF Missed
  <1>4. x # 0 /\ x - 1 \in 0..n /\ ~ (x <= x - 1) /\ x - 1 < n /\ (x - 1) + 1 = x
    BY <1>3
  <1>5. x - 1 \in T
    BY <1>2, <1>4 DEF Missed
  <1> QED
    BY <1>3, <1>4, <1>5

LEMMA Climb ==
  ASSUME NEW T, 0 \in T, \A d \in T \cap Nat : d + 1 \in T
  PROVE  Nat \subseteq T
  <1> SUFFICES ASSUME NEW n \in Nat PROVE n \in T
    OBVIOUS
  <1>1. 0..n \subseteq T
    BY ClimbTo
  <1> QED
    BY <1>1

(***************************************************************************)
(* Sequences over whatever they hold.                                      *)
(***************************************************************************)
IsSequence(s) == s \in Seq(Range(s))

LEMMA Shape ==
  ASSUME NEW s, IsSequence(s)
  PROVE  Len(s) \in Nat /\ DOMAIN s = 1..Len(s)
  BY LenProperties DEF IsSequence

LEMMA Mapped ==
  ASSUME NEW k \in Nat, NEW t, t = [n \in 1..k |-> t[n]]
  PROVE  IsSequence(t) /\ Len(t) = k
  <1>1. \A n \in 1..k : t[n] \in Range(t)
    BY DEF Range
  <1> QED
    BY <1>1 DEF IsSequence

LEMMA Joined ==
  ASSUME NEW s, NEW t, IsSequence(s), IsSequence(t)
  PROVE  /\ IsSequence(s \o t)
         /\ DOMAIN (s \o t) = 1..(Len(s) + Len(t))
         /\ \A n \in 1..Len(s) : (s \o t)[n] = s[n]
         /\ \A n \in (Len(s) + 1)..(Len(s) + Len(t)) : (s \o t)[n] = t[n - Len(s)]
  <1> DEFINE Both == Range(s) \cup Range(t)
             u == s \o t
  <1>1. s \in Seq(Both) /\ t \in Seq(Both)
    BY SeqMonotonic DEF IsSequence
  <1>2. u \in Seq(Both) /\ Len(u) = Len(s) + Len(t)
        /\ \A n \in 1..(Len(s) + Len(t)) : u[n] = IF n <= Len(s) THEN s[n] ELSE t[n - Len(s)]
    BY <1>1, ConcatProperties
  <1>3. Len(s) \in Nat /\ Len(t) \in Nat
    BY Shape
  <1>4. DOMAIN u = 1..Len(u) /\ Len(u) \in Nat /\ u = [n \in 1..Len(u) |-> u[n]]
    BY <1>2, LenProperties
  <1> HIDE DEF u, Both
  <1>5. IsSequence(u)
    BY <1>4, Mapped
  <1>6. /\ DOMAIN u = 1..(Len(s) + Len(t))
        /\ \A n \in 1..Len(s) : u[n] = s[n]
        /\ \A n \in (Len(s) + 1)..(Len(s) + Len(t)) : u[n] = t[n - Len(s)]
    BY <1>2, <1>3, <1>4
  <1> QED
    BY <1>5, <1>6 DEF u

LEMMA Appended ==
  ASSUME NEW s, IsSequence(s), NEW e
  PROVE  IsSequence(Append(s, e))
  <1> DEFINE u == Append(s, e)
  <1>1. s \in Seq(Range(s) \cup {e}) /\ e \in Range(s) \cup {e}
    BY SeqMonotonic DEF IsSequence
  <1>2. u \in Seq(Range(s) \cup {e})
    BY <1>1
  <1>3. DOMAIN u = 1..Len(u) /\ Len(u) \in Nat /\ u = [n \in 1..Len(u) |-> u[n]]
    BY <1>2, LenProperties
  <1> HIDE DEF u
  <1>4. IsSequence(u)
    BY <1>3, Mapped
  <1> QED
    BY <1>4 DEF u

(***************************************************************************)
(* Sums.  The order in which SumFunctionOnSet takes the indices depends on *)
(* the set alone, so two sums over one set can be compared term by term.   *)
(***************************************************************************)
Picked(s) == CHOOSE x \in s : TRUE

Sums(fun, D, f) == [s \in D |-> IF s = {} THEN 0 ELSE LET x == Picked(s) IN fun[x] + f[s \ {x}]]

\* The equation that defines the sums over the subsets of S.
Summing(fun, S, f) ==
  [s \in SUBSET S |->
     IF s = {} THEN 0
     ELSE LET x == CHOOSE x \in s : TRUE
          IN  fun[x] + f[s \ {x}]]

Summed(fun, S) == CHOOSE f : f = Summing(fun, S, f)

LEMMA SumsAreSummed ==
  ASSUME NEW fun, NEW S
  PROVE  SumFunctionOnSet(fun, S) = Summed(fun, S)[S]
  BY DEF SumFunctionOnSet, FoldFunctionOnSet, MapThenFoldSet, Summed, Summing

AtMostElements(S, n) == {s \in SUBSET S : Cardinality(s) <= n}

LEMMA Removed ==
  ASSUME NEW S, IsFiniteSet(S), NEW n \in Nat, NEW s \in AtMostElements(S, n + 1), s # {}
  PROVE  Picked(s) \in s /\ s \ {Picked(s)} \in AtMostElements(S, n)
  <1>1. Picked(s) \in s
    BY DEF Picked
  <1>2. IsFiniteSet(s) /\ Cardinality(s) <= n + 1 /\ Cardinality(s) \in Nat
    BY FS_Subset, FS_CardinalityType DEF AtMostElements
  <1> DEFINE x == Picked(s)
  <1> HIDE DEF x
  <1>3. Cardinality(s \ {x}) = Cardinality(s) - 1
    BY <1>1, <1>2, FS_RemoveElement DEF x
  <1> QED
    BY <1>1, <1>2, <1>3 DEF AtMostElements, x

LEMMA NoElements ==
  ASSUME NEW S, IsFiniteSet(S), NEW s \in AtMostElements(S, 0)
  PROVE  s = {}
  <1>1. IsFiniteSet(s) /\ Cardinality(s) <= 0 /\ Cardinality(s) \in Nat
    BY FS_Subset, FS_CardinalityType DEF AtMostElements
  <1> QED
    BY <1>1, FS_EmptySet

LEMMA SummedExists ==
  ASSUME NEW fun, NEW S, IsFiniteSet(S)
  PROVE  Summed(fun, S) = Summing(fun, S, Summed(fun, S))
  <1> DEFINE D(n) == AtMostElements(S, n)
             T == {n \in Nat : \E f : f = Sums(fun, D(n), f)}
  <1>1. 0 \in T
    <2> DEFINE f == [s \in D(0) |-> 0]
    <2>1. \A s \in D(0) : s = {}
      BY NoElements
    <2>2. f = Sums(fun, D(0), f)
      BY <2>1 DEF Sums
    <2> QED
      BY <2>2
  <1>2. ASSUME NEW n \in T PROVE n + 1 \in T
    <2>1. n \in Nat
      OBVIOUS
    <2>2. PICK f : f = Sums(fun, D(n), f)
      OBVIOUS
    <2> DEFINE g == Sums(fun, D(n + 1), f)
    <2>3. ASSUME NEW s \in D(n + 1), s # {} PROVE g[s \ {Picked(s)}] = f[s \ {Picked(s)}]
      <3> DEFINE r == s \ {Picked(s)}
      <3>1. r \in D(n)
        BY <2>1, <2>3, Removed
      <3>2. r \in D(n + 1)
        BY <2>1, <3>1, FS_Subset, FS_CardinalityType DEF AtMostElements
      <3> HIDE DEF r
      <3>3. f[r] = IF r = {} THEN 0 ELSE fun[Picked(r)] + f[r \ {Picked(r)}]
        BY <2>2, <3>1 DEF Sums
      <3>4. g[r] = IF r = {} THEN 0 ELSE fun[Picked(r)] + f[r \ {Picked(r)}]
        BY <3>2 DEF Sums
      <3>5. g[r] = f[r]
        BY <3>3, <3>4
      <3> QED
        BY <3>5 DEF r
    <2>4. g = Sums(fun, D(n + 1), g)
      BY <2>3 DEF Sums
    <2> QED
      BY <2>1, <2>4
  <1> HIDE DEF T
  <1>3. Nat \subseteq T
    BY <1>1, <1>2, Climb
  <1>4. Cardinality(S) \in T
    BY <1>3, FS_CardinalityType
  <1>5. D(Cardinality(S)) = SUBSET S
    BY FS_Subset DEF AtMostElements
  <1>6. PICK f : f = Sums(fun, SUBSET S, f)
    BY <1>4, <1>5 DEF T
  <1>7. f = Summing(fun, S, f)
    BY <1>6 DEF Sums, Summing, Picked
  <1> QED
    BY <1>7 DEF Summed

\* Sums of natural numbers are natural numbers and grow with their terms.
LEMMA SumsGrow ==
  ASSUME NEW S, IsFiniteSet(S), NEW fun, NEW gun,
         \A x \in S : fun[x] \in Nat /\ gun[x] \in Nat /\ fun[x] <= gun[x]
  PROVE  /\ SumFunctionOnSet(fun, S) \in Nat /\ SumFunctionOnSet(gun, S) \in Nat
         /\ SumFunctionOnSet(fun, S) <= SumFunctionOnSet(gun, S)
  <1> DEFINE f == Summed(fun, S)
             g == Summed(gun, S)
             D(n) == AtMostElements(S, n)
             Less2(s) == f[s] \in Nat /\ g[s] \in Nat /\ f[s] <= g[s]
             T == {n \in Nat : \A s \in D(n) : Less2(s)}
  <1>1. f = Summing(fun, S, f) /\ g = Summing(gun, S, g)
    BY SummedExists
  <1> HIDE DEF f, g
  <1>2. \A s \in SUBSET S :
          /\ s = {} => f[s] = 0 /\ g[s] = 0
          /\ s # {} => /\ f[s] = fun[Picked(s)] + f[s \ {Picked(s)}]
                       /\ g[s] = gun[Picked(s)] + g[s \ {Picked(s)}]
    BY <1>1 DEF Summing, Picked
  <1>3. 0 \in T
    <2> SUFFICES ASSUME NEW s \in D(0) PROVE Less2(s)
      OBVIOUS
    <2>1. s = {} /\ s \in SUBSET S
      BY NoElements
    <2>2. f[s] = 0 /\ g[s] = 0
      BY <1>2, <2>1
    <2> QED
      BY <2>2
  <1>4. ASSUME NEW n \in T PROVE n + 1 \in T
    <2>1. n \in Nat /\ n + 1 \in Nat /\ \A s \in D(n) : Less2(s)
      BY <1>4
    <2>2. ASSUME NEW s \in D(n + 1) PROVE Less2(s)
      <3>1. s \in SUBSET S
        BY DEF AtMostElements
      <3>2. CASE s = {}
        <4>1. f[s] = 0 /\ g[s] = 0
          BY <1>2, <3>1, <3>2
        <4> QED
          BY <4>1
      <3>3. CASE s # {}
        <4> DEFINE x == Picked(s)
                   t == s \ {x}
        <4>1. x \in s /\ t \in D(n) /\ x \in S
          <5>1. Picked(s) \in s /\ s \ {Picked(s)} \in AtMostElements(S, n)
            BY <2>1, <3>3, Removed
          <5> QED
            BY <5>1, <3>1
        <4>2. f[s] = fun[x] + f[t] /\ g[s] = gun[x] + g[t]
          BY <1>2, <3>1, <3>3
        <4>3. Less2(t)
          BY <2>1, <4>1
        <4> HIDE DEF x, t
        <4> QED
          BY <4>1, <4>2, <4>3
      <3> QED
        BY <3>2, <3>3
    <2> QED
      BY <2>1, <2>2
  <1> HIDE DEF T
  <1>5. Nat \subseteq T
    BY <1>3, <1>4, Climb
  <1>6. Cardinality(S) \in T /\ S \in D(Cardinality(S))
    BY <1>5, FS_CardinalityType DEF AtMostElements
  <1>7. Less2(S)
    BY <1>6 DEF T
  <1>8. SumFunctionOnSet(fun, S) = f[S] /\ SumFunctionOnSet(gun, S) = g[S]
    BY SumsAreSummed DEF f, g
  <1> QED
    BY <1>7, <1>8

LEMMA SumOnParts ==
  ASSUME NEW S, IsFiniteSet(S), NEW fun, NEW r \in SUBSET S
  PROVE  SumFunctionOnSet(fun, r) = Summed(fun, S)[r]
  <1> DEFINE f == Summed(fun, S)
             g == Summed(fun, r)
             D(n) == AtMostElements(r, n)
             T == {n \in Nat : \A s \in D(n) : f[s] = g[s]}
  <1>1. IsFiniteSet(r)
    BY FS_Subset
  <1>2. f = Summing(fun, S, f) /\ g = Summing(fun, r, g)
    BY <1>1, SummedExists
  <1> HIDE DEF f, g
  <1>3. \A s \in SUBSET r :
          /\ f[s] = IF s = {} THEN 0 ELSE fun[Picked(s)] + f[s \ {Picked(s)}]
          /\ g[s] = IF s = {} THEN 0 ELSE fun[Picked(s)] + g[s \ {Picked(s)}]
    BY <1>2 DEF Summing, Picked
  <1>4. 0 \in T
    <2>1. \A s \in D(0) : s = {} /\ s \in SUBSET r
      BY <1>1, NoElements
    <2> QED
      BY <1>3, <2>1
  <1>5. ASSUME NEW n \in T PROVE n + 1 \in T
    <2>1. n \in Nat /\ n + 1 \in Nat /\ \A s \in D(n) : f[s] = g[s]
      BY <1>5
    <2>2. ASSUME NEW s \in D(n + 1), s # {} PROVE f[s] = g[s]
      <3>1. s \in SUBSET r
        BY DEF AtMostElements
      <3>2. s \ {Picked(s)} \in D(n)
        BY <1>1, <2>1, <2>2, Removed
      <3>3. f[s \ {Picked(s)}] = g[s \ {Picked(s)}]
        BY <2>1, <3>2
      <3> QED
        BY <1>3, <2>2, <3>1, <3>3
    <2>3. f[{}] = g[{}]
      BY <1>3
    <2> QED
      BY <2>1, <2>2, <2>3
  <1> HIDE DEF T
  <1>6. Cardinality(r) \in T /\ r \in D(Cardinality(r))
    BY <1>1, <1>4, <1>5, Climb, FS_CardinalityType DEF AtMostElements
  <1>7. f[r] = g[r]
    BY <1>6 DEF T
  <1> QED
    BY <1>7, SumsAreSummed DEF f, g

\* The terms of a sum of integers may be taken in any order.
LEMMA SumSplits ==
  ASSUME NEW S, IsFiniteSet(S), NEW fun, \A x \in S : fun[x] \in Int
  PROVE  /\ SumFunctionOnSet(fun, S) \in Int
         /\ S = {} => SumFunctionOnSet(fun, S) = 0
         /\ \A z \in S :
              SumFunctionOnSet(fun, S) = fun[z] + SumFunctionOnSet(fun, S \ {z})
  <1> DEFINE f == Summed(fun, S)
             Fine(s) == f[s] \in Int /\ \A z \in s : f[s] = fun[z] + f[s \ {z}]
             D(n) == AtMostElements(S, n)
             T == {n \in Nat : \A s \in D(n) : Fine(s)}
  <1>1. f = Summing(fun, S, f)
    BY SummedExists
  <1>2. \A s \in SUBSET S : SumFunctionOnSet(fun, s) = f[s]
    BY SumOnParts
  <1> HIDE DEF f
  <1>3. \A s \in SUBSET S : f[s] = IF s = {} THEN 0 ELSE fun[Picked(s)] + f[s \ {Picked(s)}]
    BY <1>1 DEF Summing, Picked
  <1>4. 0 \in T
    <2>1. \A s \in D(0) : s = {} /\ s \in SUBSET S
      BY NoElements
    <2>2. f[{}] = 0
      BY <1>3
    <2> QED
      BY <2>1, <2>2
  <1>5. ASSUME NEW n \in T PROVE n + 1 \in T
    <2>1. n \in Nat /\ n + 1 \in Nat /\ \A s \in D(n) : Fine(s)
      BY <1>5
    <2>2. ASSUME NEW s \in D(n + 1) PROVE Fine(s)
      <3>1. s \in SUBSET S /\ f[{}] = 0
        BY <1>3 DEF AtMostElements
      <3>2. CASE s = {}
        BY <3>1, <3>2
      <3>3. CASE s # {}
        <4> DEFINE y == Picked(s)
        <4>1. y \in s /\ s \ {y} \in D(n)
          BY <2>1, <3>3, Removed
        <4>2. f[s] = fun[y] + f[s \ {y}]
          BY <1>3, <3>1, <3>3
        <4> HIDE DEF y, Fine
        <4>3. Fine(s \ {y}) /\ fun[y] \in Int
          BY <2>1, <3>1, <4>1
        <4>4. f[s] \in Int
          BY <4>2, <4>3 DEF Fine
        <4>5. ASSUME NEW z \in s PROVE f[s] = fun[z] + f[s \ {z}]
          <5>1. CASE z = y
            BY <4>2, <5>1
          <5>2. CASE z # y
            <6>1. s \ {z} \in D(n)
              <7>1. IsFiniteSet(s) /\ Cardinality(s) <= n + 1 /\ Cardinality(s) \in Nat
                BY FS_Subset, FS_CardinalityType DEF AtMostElements
              <7>2. Cardinality(s \ {z}) = Cardinality(s) - 1
                BY <7>1, FS_RemoveElement
              <7> QED
                BY <2>1, <3>1, <7>1, <7>2 DEF AtMostElements
            <6>2. Fine(s \ {z})
              BY <2>1, <6>1
            <6>3. /\ f[s \ {y}] = fun[z] + f[(s \ {y}) \ {z}]
                  /\ f[s \ {z}] = fun[y] + f[(s \ {z}) \ {y}]
                  /\ f[s \ {z}] \in Int
              BY <4>1, <4>3, <5>2, <6>2 DEF Fine
            <6>4. (s \ {y}) \ {z} = (s \ {z}) \ {y} /\ (s \ {y}) \ {z} \in SUBSET s
              OBVIOUS
            <6>5. fun[z] \in Int
              BY <3>1
            <6>6. f[(s \ {y}) \ {z}] \in Int
              <7>1. (s \ {y}) \ {z} \in D(n)
                <8>1. IsFiniteSet(s \ {z}) /\ IsFiniteSet((s \ {y}) \ {z})
                  BY FS_Subset DEF AtMostElements
                <8>2. Cardinality((s \ {y}) \ {z}) <= Cardinality(s \ {z})
                  BY <8>1, FS_Subset
                <8> QED
                  BY <2>1, <6>1, <8>1, <8>2, FS_CardinalityType DEF AtMostElements
              <7> QED
                BY <2>1, <7>1 DEF Fine
            <6> DEFINE a == f[s \ {y}]
                       b == f[s \ {z}]
                       rest == f[(s \ {y}) \ {z}]
            <6>7. /\ f[s] = fun[y] + a /\ a = fun[z] + rest /\ b = fun[y] + rest
                  /\ fun[y] \in Int /\ fun[z] \in Int /\ rest \in Int
              BY <4>2, <4>3, <6>3, <6>4, <6>5, <6>6
            <6> HIDE DEF a, b, rest
            <6>8. f[s] = fun[z] + b
              BY <6>7
            <6> QED
              BY <6>8 DEF b
          <5> QED
            BY <5>1, <5>2
        <4> QED
          BY <4>4, <4>5 DEF Fine
      <3> QED
        BY <3>2, <3>3
    <2> QED
      BY <2>1, <2>2
  <1> HIDE DEF T, Fine
  <1>6. Cardinality(S) \in T /\ S \in D(Cardinality(S))
    BY <1>4, <1>5, Climb, FS_CardinalityType DEF AtMostElements
  <1>7. Fine(S)
    BY <1>6 DEF T
  <1> QED
    BY <1>2, <1>3, <1>7 DEF Fine

\* A sum of natural numbers is zero when all of them are, and only then.
LEMMA SumIsZero ==
  ASSUME NEW S, IsFiniteSet(S), NEW fun, \A x \in S : fun[x] \in Nat
  PROVE  SumFunctionOnSet(fun, S) = 0 <=> \A x \in S : fun[x] = 0
  <1>1. ASSUME SumFunctionOnSet(fun, S) = 0, NEW x \in S PROVE fun[x] = 0
    <2>1. SumFunctionOnSet(fun, S) = fun[x] + SumFunctionOnSet(fun, S \ {x})
      BY SumSplits
    <2>2. SumFunctionOnSet(fun, S \ {x}) \in Nat
      <3>1. IsFiniteSet(S \ {x}) /\ \A y \in S \ {x} : fun[y] \in Nat /\ fun[y] <= fun[y]
        BY FS_Subset
      <3> QED
        BY <3>1, SumsGrow
    <2> QED
      BY <1>1, <2>1, <2>2
  <1>2. ASSUME \A x \in S : fun[x] = 0 PROVE SumFunctionOnSet(fun, S) = 0
    <2> DEFINE T == {n \in Nat : \A s \in AtMostElements(S, n) : SumFunctionOnSet(fun, s) = 0}
    <2>1. \A s \in SUBSET S : IsFiniteSet(s) /\ \A x \in s : fun[x] \in Int
      BY FS_Subset
    <2>2. 0 \in T
      BY <2>1, NoElements, SumSplits
    <2>3. ASSUME NEW n \in T PROVE n + 1 \in T
      <3>1. n \in Nat /\ \A s \in AtMostElements(S, n) : SumFunctionOnSet(fun, s) = 0
        BY <2>3
      <3>2. ASSUME NEW s \in AtMostElements(S, n + 1) PROVE SumFunctionOnSet(fun, s) = 0
        <4>1. CASE s = {}
          BY <2>1, <4>1, SumSplits
        <4>2. CASE s # {}
          <5>1. Picked(s) \in s /\ s \ {Picked(s)} \in AtMostElements(S, n) /\ s \in SUBSET S
            BY <3>1, <4>2, Removed DEF AtMostElements
          <5>2. SumFunctionOnSet(fun, s)
                  = fun[Picked(s)] + SumFunctionOnSet(fun, s \ {Picked(s)})
            BY <2>1, <5>1, SumSplits
          <5>3. fun[Picked(s)] = 0 /\ SumFunctionOnSet(fun, s \ {Picked(s)}) = 0
            BY <1>2, <3>1, <5>1
          <5> QED
            BY <5>2, <5>3
        <4> QED
          BY <4>1, <4>2
      <3> QED
        BY <3>1, <3>2
    <2> HIDE DEF T
    <2>4. Cardinality(S) \in T /\ S \in AtMostElements(S, Cardinality(S))
      BY <2>2, <2>3, Climb, FS_CardinalityType DEF AtMostElements
    <2> QED
      BY <2>4 DEF T
  <1> QED
    BY <1>1, <1>2

(***************************************************************************)
(* Finite orders: R holds <<x, y>> when x comes before y.                  *)
(***************************************************************************)
Orders(R, S) ==
  /\ \A x \in S : <<x, x>> \notin R
  /\ \A x, y \in S : x = y \/ <<x, y>> \in R \/ <<y, x>> \in R
  /\ \A x, y, z \in S : <<x, y>> \in R /\ <<y, z>> \in R => <<x, z>> \in R

Before(R, S, x) == {y \in S : <<y, x>> \in R}
FirstOf(R, S, n) == {x \in S : Cardinality(Before(R, S, x)) < n}

LEMMA RankType ==
  ASSUME NEW S, IsFiniteSet(S), NEW R, NEW x
  PROVE  IsFiniteSet(Before(R, S, x)) /\ Cardinality(Before(R, S, x)) \in Nat
  <1>1. IsFiniteSet(Before(R, S, x))
    BY FS_Subset DEF Before
  <1> QED
    BY <1>1, FS_CardinalityType

LEMMA RanksGrow ==
  ASSUME NEW S, IsFiniteSet(S), NEW R, Orders(R, S), NEW x \in S, NEW y \in S, <<x, y>> \in R
  PROVE  Cardinality(Before(R, S, x)) < Cardinality(Before(R, S, y))
  <1>1. Before(R, S, x) \subseteq Before(R, S, y) /\ x \in Before(R, S, y)
        /\ x \notin Before(R, S, x)
    BY DEF Orders, Before
  <1>2. Before(R, S, x) # Before(R, S, y)
    BY <1>1
  <1>3. IsFiniteSet(Before(R, S, y)) /\ Cardinality(Before(R, S, y)) \in Nat
        /\ Cardinality(Before(R, S, x)) \in Nat
    BY RankType
  <1> DEFINE a == Before(R, S, x)
             b == Before(R, S, y)
  <1> HIDE DEF a, b
  <1>4. /\ a \in SUBSET b /\ a # b /\ IsFiniteSet(b)
        /\ Cardinality(a) \in Nat /\ Cardinality(b) \in Nat
    BY <1>1, <1>2, <1>3 DEF a, b
  <1>5. Cardinality(a) < Cardinality(b)
    BY <1>4, FS_Subset
  <1> QED
    BY <1>5 DEF a, b

\* As long as there is one more, the next element comes right after the first n.
LEMMA NextOne ==
  ASSUME NEW S, IsFiniteSet(S), NEW R, Orders(R, S), NEW n \in Nat, FirstOf(R, S, n) # S
  PROVE  \E x \in S : Before(R, S, x) = FirstOf(R, S, n) /\ x \notin FirstOf(R, S, n)
  <1> DEFINE rank(x) == Cardinality(Before(R, S, x))
             Rest == {x \in S : x \notin FirstOf(R, S, n)}
             Ranks == {rank(x) : x \in Rest}
  <1>1. \A x \in S : rank(x) \in Nat
    BY RankType
  <1>2. Ranks \in SUBSET Nat /\ Ranks # {}
    BY <1>1 DEF FirstOf
  <1>3. PICK k \in Ranks : \A j \in Ranks : k <= j
    BY <1>2, Minimum
  <1>4. PICK x \in Rest : rank(x) = k
    OBVIOUS
  <1>5. ASSUME NEW y \in Before(R, S, x) PROVE y \in FirstOf(R, S, n)
    <2>1. y \in S /\ rank(y) < rank(x)
      BY RanksGrow DEF Before
    <2>2. y \notin Rest
      BY <1>1, <1>3, <1>4, <2>1
    <2> QED
      BY <2>1, <2>2
  <1>6. ASSUME NEW y \in FirstOf(R, S, n) PROVE y \in Before(R, S, x)
    <2>1. y \in S /\ rank(y) < n /\ ~ (rank(x) < n)
      BY DEF FirstOf
    <2>2. <<x, y>> \in R => rank(x) < rank(y)
      BY <2>1, RanksGrow
    <2>3. <<x, y>> \notin R /\ x # y
      BY <1>1, <2>1, <2>2
    <2> QED
      BY <2>1, <2>3 DEF Orders, Before
  <1> QED
    BY <1>5, <1>6

\* The first n are n, if there are as many, and nothing else comes before them.
LEMMA FirstOnes ==
  ASSUME NEW S, IsFiniteSet(S), NEW R, Orders(R, S), NEW n \in Nat
  PROVE  \/ Cardinality(FirstOf(R, S, n)) = n
         \/ FirstOf(R, S, n) = S /\ Cardinality(S) < n
  <1> DEFINE first(k) == FirstOf(R, S, k)
             rank(x) == Cardinality(Before(R, S, x))
             Fine(k) == \/ Cardinality(first(k)) = k
                        \/ first(k) = S /\ Cardinality(S) < k
             T == {k \in Nat : Fine(k)}
  <1>1. \A x \in S : rank(x) \in Nat
    BY RankType
  <1>2. 0 \in T
    <2>1. first(0) = {}
      BY <1>1 DEF FirstOf
    <2> QED
      BY <2>1, FS_EmptySet
  <1>3. ASSUME NEW k \in T PROVE k + 1 \in T
    <2>1. k \in Nat /\ Fine(k) /\ Cardinality(S) \in Nat
      BY <1>3, FS_CardinalityType
    <2>2. CASE first(k) = S
      <3>1. first(k + 1) = S
        BY <1>1, <2>1, <2>2 DEF FirstOf
      <3>2. Cardinality(S) < k + 1 /\ k + 1 \in Nat
        BY <2>1, <2>2
      <3> QED
        BY <3>1, <3>2
    <2>3. CASE first(k) # S
      <3>1. PICK x \in S : Before(R, S, x) = first(k) /\ x \notin first(k)
        BY <2>1, <2>3, NextOne
      <3>2. rank(x) = k
        BY <2>1, <2>3, <3>1
      <3>3. ASSUME NEW y \in first(k + 1), y # x PROVE y \in first(k)
        <4>1. y \in S /\ rank(y) < k + 1
          BY DEF FirstOf
        <4>2. <<x, y>> \in R => rank(x) < rank(y)
          BY <4>1, RanksGrow
        <4>3. <<x, y>> \notin R
          BY <1>1, <2>1, <3>2, <4>1, <4>2
        <4>4. <<y, x>> \in R
          BY <3>3, <4>1, <4>3 DEF Orders
        <4> QED
          BY <3>1, <4>1, <4>4 DEF Before
      <3>4. first(k) \subseteq first(k + 1) /\ x \in first(k + 1)
        BY <1>1, <2>1, <3>2 DEF FirstOf
      <3>5. first(k + 1) = first(k) \cup {x}
        BY <3>3, <3>4
      <3>6. IsFiniteSet(first(k))
        BY FS_Subset DEF FirstOf
      <3>7. Cardinality(first(k + 1)) = k + 1
        BY <2>1, <2>3, <3>1, <3>5, <3>6, FS_AddElement
      <3>8. k + 1 \in Nat
        BY <2>1
      <3> QED
        BY <3>7, <3>8
    <2> QED
      BY <2>2, <2>3
  <1> HIDE DEF T
  <1>4. n \in T
    BY <1>2, <1>3, Climb
  <1> QED
    BY <1>4 DEF T

LEMMA FirstBeforeRest ==
  ASSUME NEW S, IsFiniteSet(S), NEW R, Orders(R, S), NEW n \in Nat,
         NEW x \in FirstOf(R, S, n), NEW y \in S, y \notin FirstOf(R, S, n)
  PROVE  <<x, y>> \in R
  <1> DEFINE rank(z) == Cardinality(Before(R, S, z))
  <1>1. x \in S /\ rank(x) \in Nat /\ rank(y) \in Nat /\ rank(x) < n /\ ~ (rank(y) < n)
    BY RankType DEF FirstOf
  <1>2. <<y, x>> \in R => rank(y) < rank(x)
    BY <1>1, RanksGrow
  <1> QED
    BY <1>1, <1>2 DEF Orders

\* A finite set can be listed in its order.
LEMMA Listed ==
  ASSUME NEW S, IsFiniteSet(S), NEW R, Orders(R, S)
  PROVE  \E f \in [1..Cardinality(S) -> S] :
           \A i, j \in 1..Cardinality(S) : i < j => <<f[i], f[j]>> \in R
  <1> DEFINE N == Cardinality(S)
             rank(x) == Cardinality(Before(R, S, x))
             f == [i \in 1..N |-> CHOOSE x \in S : rank(x) = i - 1]
  <1>1. N \in Nat /\ \A x \in S : rank(x) \in Nat
    BY FS_CardinalityType, RankType
  <1>2. ASSUME NEW i \in 1..N PROVE \E x \in S : rank(x) = i - 1
    <2>1. i - 1 \in Nat /\ i - 1 # N /\ i - 1 < N
      BY <1>1
    <2> DEFINE first == FirstOf(R, S, i - 1)
    <2>2. Cardinality(first) = i - 1 /\ first # S
      BY <1>1, <2>1, FirstOnes
    <2>3. PICK x \in S : Before(R, S, x) = first /\ x \notin first
      BY <2>1, <2>2, NextOne
    <2> QED
      BY <2>2, <2>3
  <1>3. f \in [1..N -> S] /\ \A i \in 1..N : rank(f[i]) = i - 1
    BY <1>2
  <1>4. ASSUME NEW i \in 1..N, NEW j \in 1..N, i < j PROVE <<f[i], f[j]>> \in R
    <2> DEFINE x == f[i]
               y == f[j]
    <2>1. x \in S /\ y \in S /\ rank(x) < rank(y)
      BY <1>1, <1>3, <1>4
    <2> HIDE DEF x, y
    <2>2. <<y, x>> \in R => rank(y) < rank(x)
      BY <2>1, RanksGrow
    <2>3. x # y /\ <<y, x>> \notin R
      BY <1>1, <2>1, <2>2
    <2> QED
      BY <2>1, <2>3 DEF Orders, x, y
  <1> QED
    BY <1>3, <1>4
=============================================================================
