------------------------------- MODULE DataLemmas ------------------------------
(***************************************************************************)
(* What the proofs need of numbers, sequences and recursive functions:     *)
(* induction on a set of numbers, the values of a function that is defined *)
(* by recursion on the number before, and how sequences split and join.    *)
(***************************************************************************)
EXTENDS SequencesExt, SequenceTheorems, WellFoundedInduction, TLAPS

(* A set of numbers has a least member.                                    *)
LEMMA MinIsMember ==
  ASSUME NEW S \in SUBSET Nat, S # {}
  PROVE  /\ Min(S) \in S
         /\ \A x \in S : Min(S) =< x
<1> DEFINE R == {ss \in Nat \X Nat : ss[1] < ss[2]}
<1>1. IsWellFoundedOn(R, Nat)
  BY NatLessThanWellFounded DEF OpToRel
<1>2. PICK x \in S : \A y \in S : ~(<<y, x>> \in R)
  <2> HIDE DEF R
  <2> QED  BY <1>1, WFMin
<1>3. ASSUME NEW y \in S PROVE x =< y
  <2>1. x \in Nat /\ y \in Nat
    OBVIOUS
  <2>2. y < x => <<y, x>> \in R
    BY <2>1
  <2> HIDE DEF R
  <2> QED  BY <1>2, <2>1, <2>2
<1> QED  BY <1>3 DEF Min

(* A set of numbers below a bound has a greatest member.                   *)
LEMMA MaxIsMember ==
  ASSUME NEW n \in Nat, NEW S \in SUBSET (1..n), S # {}
  PROVE  Max(S) \in S /\ \A x \in S : x =< Max(S)
<1> DEFINE T == {n - i : i \in S}
<1>1. T \in SUBSET Nat /\ T # {}
  <2>1. PICK i \in S : TRUE
    OBVIOUS
  <2>2. n - i \in T
    OBVIOUS
  <2>3. \A i1 \in S : n - i1 \in Nat
    OBVIOUS
  <2> QED  BY <2>2, <2>3
<1>2. PICK t \in T : \A y \in T : t =< y
  <2> HIDE DEF T
  <2> QED  BY <1>1, MinIsMember
<1>3. PICK i \in S : t = n - i
  OBVIOUS
<1>4. ASSUME NEW j \in S PROVE j =< i
  <2>1. n - j \in T
    OBVIOUS
  <2>2. n - i =< n - j
    BY <1>2, <1>3, <2>1
  <2> QED  BY <2>2
<1> QED  BY <1>4 DEF Max

(* Induction, on the set of the numbers that have the property.            *)
LEMMA SetInduction ==
  ASSUME NEW S, 0 \in S, \A n \in Nat : n \in S => n + 1 \in S
  PROVE  \A n \in Nat : n \in S
<1> DEFINE T == Nat \ S
<1>1. SUFFICES ASSUME T # {} PROVE FALSE
  OBVIOUS
<1>2. PICK m \in T : \A x \in T : m =< x
  <2>1. T \in SUBSET Nat
    OBVIOUS
  <2> HIDE DEF T
  <2> QED  BY <1>1, <2>1, MinIsMember
<1>3. m # 0 /\ m \in Nat
  OBVIOUS
<1>4. m - 1 \in S
  BY <1>2, <1>3
<1> QED  BY <1>3, <1>4

(* The same up to a bound.                                                 *)
LEMMA BoundedInduction ==
  ASSUME NEW N \in Nat, NEW S, 0 \in S, \A n \in 0..(N - 1) : n \in S => n + 1 \in S
  PROVE  \A n \in 0..N : n \in S
<1> DEFINE T == S \cup {n \in Nat : n > N}
<1>1. \A n \in Nat : n \in T
  <2>1. 0 \in T /\ \A n \in Nat : n \in T => n + 1 \in T
    OBVIOUS
  <2> HIDE DEF T
  <2> QED  BY <2>1, SetInduction
<1> QED  BY <1>1

(* A function that takes each value from the one before it exists.         *)
Iterates(g, base, step, N) ==
  g[0] = base /\ \A n \in 1..N : g[n] = step[n][g[n - 1]]

(* There is a function that iterates given steps from a given start.       *)
LEMMA RecursionExists ==
  ASSUME NEW T, NEW base \in T, NEW N \in Nat, NEW step \in [1..N -> [T -> T]]
  PROVE  \E g \in [0..N -> T] : Iterates(g, base, step, N)
<1> DEFINE Follows(g, k) ==
             g = [n \in 0..k |-> IF n = 0 THEN base ELSE step[n][g[n - 1]]]
           S == {k \in 0..N : \E g \in [0..k -> T] : Follows(g, k)}
<1>1. 0 \in S
  <2> DEFINE g == [n \in 0..0 |-> base]
  <2>1. g \in [0..0 -> T]
    OBVIOUS
  <2>2. \A n \in 0..0 : g[n] = IF n = 0 THEN base ELSE step[n][g[n - 1]]
    OBVIOUS
  <2>3. Follows(g, 0)
    BY <2>2
  <2> HIDE DEF g, Follows
  <2> QED  BY <2>1, <2>3
<1>2. ASSUME NEW k \in 0..(N - 1), k \in S PROVE k + 1 \in S
  <2>1. PICK g \in [0..k -> T] : Follows(g, k)
    BY <1>2
  <2> DEFINE h == [n \in 0..(k + 1) |-> IF n =< k THEN g[n] ELSE step[k + 1][g[k]]]
  <2>2. step[k + 1][g[k]] \in T
    <3>1. k + 1 \in 1..N /\ g[k] \in T
      OBVIOUS
    <3> QED  BY <3>1
  <2>3. h \in [0..(k + 1) -> T]
    BY <2>2
  <2>4. ASSUME NEW n \in 0..(k + 1)
        PROVE  h[n] = IF n = 0 THEN base ELSE step[n][h[n - 1]]
    <3>1. CASE n =< k
      <4>1. h[n] = g[n] /\ (n # 0 => h[n - 1] = g[n - 1])
        BY <3>1
      <4>2. g[n] = IF n = 0 THEN base ELSE step[n][g[n - 1]]
        <5>1. n \in 0..k
          BY <3>1
        <5> QED  BY <2>1, <5>1
      <4> QED  BY <4>1, <4>2
    <3>2. CASE n = k + 1
      <4>1. h[n] = step[k + 1][g[k]] /\ h[n - 1] = g[k] /\ n # 0
        BY <3>2
      <4> HIDE DEF h
      <4> QED  BY <3>2, <4>1
    <3> QED  BY <3>1, <3>2
  <2>5. Follows(h, k + 1)
    <3>1. h = [n \in 0..(k + 1) |-> h[n]]
      BY <2>3
    <3> HIDE DEF h
    <3> QED  BY <2>4, <3>1
  <2> HIDE DEF h, Follows
  <2>6. k + 1 \in 0..N
    OBVIOUS
  <2> QED  BY <2>3, <2>5, <2>6
<1>3. N \in S
  <2> HIDE DEF S
  <2>1. \A n \in 0..N : n \in S
    BY <1>1, <1>2, BoundedInduction
  <2> QED  BY <2>1
<1>4. PICK g \in [0..N -> T] : Follows(g, N)
  BY <1>3
<1>5. Iterates(g, base, step, N)
  BY <1>4 DEF Iterates
<1> QED  BY <1>5
-----------------------------------------------------------------------------
(* The sequences that joining goes through, one part after the other.      *)
Joins(g, ss) == g[0] = <<>> /\ \A n \in 1..Len(ss) : g[n] = g[n - 1] \o ss[n]

(* There are such.                                                         *)
LEMMA JoinsExist ==
  ASSUME NEW S, NEW ss \in Seq(Seq(S))
  PROVE  \E g \in [0..Len(ss) -> Seq(S)] : Joins(g, ss)
<1> DEFINE N == Len(ss)
           step == [n \in 1..N |-> [s \in Seq(S) |-> s \o ss[n]]]
<1>1. N \in Nat /\ \A i \in 1..N : ss[i] \in Seq(S)
  OBVIOUS
<1> HIDE DEF N
<1>2. PICK g \in [0..N -> Seq(S)] : g[0] = <<>> /\ \A n \in 1..N : g[n] = step[n][g[n - 1]]
  <2>1. step \in [1..N -> [Seq(S) -> Seq(S)]]
    BY <1>1, ConcatProperties
  <2>2. <<>> \in Seq(S)
    OBVIOUS
  <2> HIDE DEF step
  <2>3. \E g \in [0..N -> Seq(S)] : Iterates(g, <<>>, step, N)
    BY <1>1, <2>1, <2>2, RecursionExists
  <2> QED  BY <2>3 DEF Iterates
<1>3. \A n \in 1..N : g[n] = g[n - 1] \o ss[n]
  <2> TAKE n \in 1..N
  <2>1. g[n] = step[n][g[n - 1]]
    <3> HIDE DEF step
    <3> QED  BY <1>2
  <2>2. g[n - 1] \in Seq(S)
    BY <1>1
  <2> QED  BY <2>1, <2>2
<1> QED  BY <1>2, <1>3 DEF Joins, N

(* They end at what FlattenSeq() gives.                                    *)
LEMMA JoinsFlatten ==
  ASSUME NEW S, NEW ss \in Seq(Seq(S)), NEW g, Joins(g, ss)
  PROVE  FlattenSeq(ss) = g[Len(ss)]
<1>1. Len(ss) \in Nat /\ \A i \in 1..Len(ss) : ss[i] \in Seq(S)
  OBVIOUS
<1>2. CASE Len(ss) = 0
  <2>1. ss = <<>> /\ FlattenSeq(ss) = ss
    BY <1>2, EmptySeq DEF FlattenSeq
  <2> QED  BY <1>2, <2>1 DEF Joins
<1>3. CASE Len(ss) # 0
  <2> DEFINE N == Len(ss)
             Flattens(f) == f = [i \in 1..N |-> IF i = 1 THEN ss[i] ELSE f[i - 1] \o ss[i]]
             h == [i \in 1..N |-> g[i]]
  <2>1. N \in Nat \ {0} /\ \A i \in 1..N : ss[i] \in Seq(S)
    BY <1>1, <1>3
  <2>2. g[0] = <<>> /\ \A n \in 1..N : g[n] = g[n - 1] \o ss[n]
    BY DEF Joins
  <2> HIDE DEF N
  <2>3. g[1] = ss[1]
    <3>1. g[1] = g[0] \o ss[1]
      <4>1. 1 \in 1..N /\ 1 - 1 = 0
        BY <2>1
      <4> QED  BY <2>2, <4>1
    <3> QED  BY <2>1, <2>2, <3>1, ConcatEmptySeq
  <2>4. Flattens(h)
    <3>1. \A i \in 1..N : h[i] = IF i = 1 THEN ss[i] ELSE h[i - 1] \o ss[i]
      <4> TAKE i \in 1..N
      <4>1. h[i] = g[i] /\ (i # 1 => h[i - 1] = g[i - 1])
        BY <2>1
      <4> HIDE DEF h
      <4> QED  BY <2>2, <2>3, <4>1
    <3>2. h = [i \in 1..N |-> h[i]]
      OBVIOUS
    <3> HIDE DEF h
    <3> QED  BY <3>1, <3>2
  <2>5. ASSUME NEW f, Flattens(f) PROVE f[N] = g[N]
    <3> DEFINE T == {n \in 0..N : n # 0 => f[n] = g[n]}
    <3>1. 0 \in T
      BY <2>1
    <3>2. \A n \in 0..(N - 1) : n \in T => n + 1 \in T
      <4> TAKE n \in 0..(N - 1)
      <4>1. HAVE n \in T
      <4>2. n + 1 \in 1..N /\ n + 1 \in 0..N /\ (n + 1) - 1 = n
        BY <2>1
      <4>3. f[n + 1] = IF n + 1 = 1 THEN ss[n + 1] ELSE f[n] \o ss[n + 1]
        BY <2>5, <4>2
      <4>4. g[n + 1] = g[n] \o ss[n + 1]
        BY <2>2, <4>2
      <4>5. f[n + 1] = g[n + 1]
        <5>1. CASE n = 0
          BY <2>3, <4>2, <4>3, <5>1
        <5>2. CASE n # 0
          <6>1. n + 1 # 1 /\ f[n] = g[n]
            BY <4>1, <5>2
          <6> QED  BY <4>3, <4>4, <6>1
        <5> QED  BY <5>1, <5>2
      <4> QED  BY <4>2, <4>5
    <3>3. N \in T
      <4> HIDE DEF T
      <4>1. N \in Nat /\ N \in 0..N
        BY <2>1
      <4>2. \A n \in 0..N : n \in T
        BY <3>1, <3>2, <4>1, BoundedInduction
      <4> QED  BY <4>1, <4>2
    <3> QED  BY <2>1, <3>3
  <2>6. FlattenSeq(ss) = (CHOOSE f : Flattens(f))[N]
    BY <1>3 DEF FlattenSeq, N
  <2> HIDE DEF Flattens
  <2>7. FlattenSeq(ss) = g[N]
    BY <2>4, <2>5, <2>6
  <2> QED  BY <2>7 DEF N
<1> QED  BY <1>2, <1>3

(* Joining sequences of members of S gives one.                            *)
LEMMA FlattenTyped ==
  ASSUME NEW S, NEW ss \in Seq(Seq(S))
  PROVE  FlattenSeq(ss) \in Seq(S)
<1>1. PICK g \in [0..Len(ss) -> Seq(S)] : Joins(g, ss)
  BY JoinsExist
<1>2. FlattenSeq(ss) = g[Len(ss)] /\ Len(ss) \in 0..Len(ss)
  BY <1>1, JoinsFlatten
<1> QED  BY <1>2

(* Where the parts lie: each behind those before it, as it was.            *)
PartsAt(at, ss) ==
  /\ at \in [1..(Len(ss) + 1) -> Nat]
  /\ at[1] = 0 /\ at[Len(ss) + 1] = Len(FlattenSeq(ss))
  /\ \A k \in 1..(Len(ss) + 1) : at[k] = Len(FlattenSeq(SubSeq(ss, 1, k - 1)))
  /\ \A k \in 1..Len(ss) :
       /\ at[k + 1] = at[k] + Len(ss[k])
       /\ at[k + 1] =< Len(FlattenSeq(ss))
       /\ \A i \in 1..Len(ss[k]) : FlattenSeq(ss)[at[k] + i] = ss[k][i]

(* In what is joined, each part is found at its place.                     *)
LEMMA FlattenParts ==
  ASSUME NEW S, NEW ss \in Seq(Seq(S))
  PROVE  \E at : PartsAt(at, ss)
<1> DEFINE N == Len(ss)
<1>1. N \in Nat /\ \A i \in 1..N : ss[i] \in Seq(S)
  OBVIOUS
<1>2. PICK g \in [0..N -> Seq(S)] : Joins(g, ss)
  BY JoinsExist
<1>3. g[0] = <<>> /\ \A n \in 1..N : g[n] = g[n - 1] \o ss[n]
  BY <1>2 DEF Joins
<1>4. FlattenSeq(ss) = g[N]
  BY <1>2, JoinsFlatten
<1>5. \A n \in 0..N : FlattenSeq(SubSeq(ss, 1, n)) = g[n]
  <2> TAKE n \in 0..N
  <2> DEFINE t == SubSeq(ss, 1, n)
  <2>1. t \in Seq(Seq(S)) /\ Len(t) = n /\ \A i \in 1..n : t[i] = ss[i]
    OBVIOUS
  <2> HIDE DEF t
  <2>2. Joins(g, t)
    <3>1. \A i \in 1..n : i \in 1..N
      BY <1>1
    <3> QED  BY <1>3, <2>1, <3>1 DEF Joins
  <2>3. FlattenSeq(t) = g[n]
    BY <2>1, <2>2, JoinsFlatten
  <2> QED  BY <2>3 DEF t
<1> HIDE DEF N
<1>6. \A n \in 0..N : g[n] \in Seq(S) /\ Len(g[n]) \in Nat
  BY LenProperties
<1>7. ASSUME NEW n \in 1..N
      PROVE  /\ n - 1 \in 0..N /\ n \in 0..N
             /\ Len(g[n]) = Len(g[n - 1]) + Len(ss[n])
             /\ \A i \in 1..Len(g[n - 1]) : g[n][i] = g[n - 1][i]
             /\ \A i \in 1..Len(ss[n]) : g[n][Len(g[n - 1]) + i] = ss[n][i]
  <2> DEFINE a == g[n - 1]
             b == ss[n]
  <2>1. n - 1 \in 0..N /\ n \in 0..N
    BY <1>1
  <2>2. a \in Seq(S) /\ b \in Seq(S) /\ g[n] = a \o b /\ Len(a) \in Nat /\ Len(b) \in Nat
    BY <1>1, <1>3, <1>6, <2>1, LenProperties
  <2> HIDE DEF a, b
  <2>3. /\ Len(a \o b) = Len(a) + Len(b)
        /\ \A i \in 1..(Len(a) + Len(b)) : (a \o b)[i] = IF i =< Len(a) THEN a[i] ELSE b[i - Len(a)]
    BY <2>2, ConcatProperties
  <2>4. \A i \in 1..Len(a) : i \in 1..(Len(a) + Len(b)) /\ i =< Len(a)
    BY <2>2
  <2>5. \A i \in 1..Len(b) :
          /\ Len(a) + i \in 1..(Len(a) + Len(b)) /\ ~(Len(a) + i =< Len(a))
          /\ Len(a) + i - Len(a) = i
    BY <2>2
  <2>6. /\ \A i \in 1..Len(a) : (a \o b)[i] = a[i]
        /\ \A i \in 1..Len(b) : (a \o b)[Len(a) + i] = b[i]
    BY <2>3, <2>4, <2>5
  <2> QED  BY <2>1, <2>2, <2>3, <2>6 DEF a, b
<1>8. ASSUME NEW k \in 1..N
      PROVE  /\ Len(g[k]) =< Len(g[N])
             /\ \A i \in 1..Len(g[k]) : g[N][i] = g[k][i]
  <2> DEFINE T == {m \in 0..(N - k) : /\ Len(g[k]) =< Len(g[k + m])
                                      /\ \A i \in 1..Len(g[k]) : g[k + m][i] = g[k][i]}
  <2>1. N - k \in Nat /\ N - k \in 0..(N - k) /\ k + (N - k) = N /\ k \in 0..N
    BY <1>1
  <2>2. 0 \in T
    <3>1. k + 0 = k /\ 0 \in 0..(N - k)
      BY <2>1
    <3> QED  BY <1>6, <2>1, <3>1
  <2>3. ASSUME NEW m \in 0..(N - k - 1), m \in T PROVE m + 1 \in T
    <3> DEFINE n == k + m + 1
    <3>1. n \in 1..N /\ n - 1 = k + m /\ k + (m + 1) = n /\ m + 1 \in 0..(N - k)
          /\ k + m \in 0..N /\ n \in 0..N
      BY <1>1
    <3> HIDE DEF n
    <3>2. /\ Len(g[n]) = Len(g[k + m]) + Len(ss[n])
          /\ \A i \in 1..Len(g[k + m]) : g[n][i] = g[k + m][i]
      <4>1. /\ Len(g[n]) = Len(g[n - 1]) + Len(ss[n])
            /\ \A i \in 1..Len(g[n - 1]) : g[n][i] = g[n - 1][i]
        BY <1>7, <3>1
      <4>2. g[n - 1] = g[k + m]
        BY <3>1
      <4> QED  BY <4>1, <4>2
    <3>3. Len(g[k]) \in Nat /\ Len(g[k + m]) \in Nat /\ Len(ss[n]) \in Nat
      BY <1>1, <1>6, <2>1, <3>1, LenProperties
    <3>4. Len(g[k]) =< Len(g[k + m]) /\ \A i \in 1..Len(g[k]) : g[k + m][i] = g[k][i]
      BY <2>3
    <3>5. Len(g[k]) =< Len(g[n])
      <4> DEFINE x == Len(g[k])
                 y == Len(g[k + m])
                 z == Len(g[n])
                 v == Len(ss[n])
      <4>1. x \in Nat /\ y \in Nat /\ v \in Nat /\ x =< y /\ z = y + v
        BY <3>2, <3>3, <3>4
      <4> HIDE DEF x, y, z, v
      <4>2. x =< z
        BY <4>1
      <4> QED  BY <4>2 DEF x, z
    <3>6. ASSUME NEW i \in 1..Len(g[k]) PROVE g[n][i] = g[k][i]
      <4>1. i \in 1..Len(g[k + m])
        BY <3>3, <3>4
      <4> QED  BY <3>2, <3>4, <4>1
    <3> QED  BY <3>1, <3>5, <3>6
  <2>4. N - k \in T
    <3> HIDE DEF T
    <3> DEFINE M == N - k
    <3>1. M \in Nat /\ 0 \in T /\ \A m \in 0..(M - 1) : m \in T => m + 1 \in T
      BY <2>1, <2>2, <2>3
    <3> HIDE DEF M
    <3>2. \A m \in 0..M : m \in T
      BY <3>1, BoundedInduction
    <3> QED  BY <2>1, <3>2 DEF M
  <2> QED  BY <2>1, <2>4
<1> DEFINE at == [k \in 1..(N + 1) |-> Len(g[k - 1])]
<1>9. at \in [1..(N + 1) -> Nat] /\ at[1] = 0 /\ at[N + 1] = Len(g[N])
  <2>1. \A k \in 1..(N + 1) : k - 1 \in 0..N
    BY <1>1
  <2>2. 1 \in 1..(N + 1) /\ N + 1 \in 1..(N + 1) /\ 1 - 1 = 0 /\ N + 1 - 1 = N
    BY <1>1
  <2>3. Len(g[0]) = 0
    BY <1>3
  <2>4. at \in [1..(N + 1) -> Nat]
    BY <1>6, <2>1
  <2>5. \A k \in 1..(N + 1), m \in 0..N : k - 1 = m => at[k] = Len(g[m])
    OBVIOUS
  <2> HIDE DEF at
  <2>6. 0 \in 0..N /\ N \in 0..N
    BY <1>1
  <2>7. at[1] = 0
    BY <2>2, <2>3, <2>5, <2>6
  <2>8. at[N + 1] = Len(g[N])
    BY <2>2, <2>5, <2>6
  <2> QED  BY <2>4, <2>7, <2>8
<1>10. \A k \in 1..(N + 1) : at[k] = Len(g[k - 1]) /\ k - 1 \in 0..N
  BY <1>1
<1>11. \A k \in 1..N : at[k] = Len(g[k - 1]) /\ at[k + 1] = Len(g[k])
  <2> TAKE k \in 1..N
  <2>1. k \in 1..(N + 1) /\ k + 1 \in 1..(N + 1) /\ k + 1 - 1 = k
    BY <1>1
  <2> QED  BY <2>1
<1> HIDE DEF at
<1>12. ASSUME NEW k \in 1..N
       PROVE  /\ at[k + 1] = at[k] + Len(ss[k])
              /\ at[k + 1] =< Len(g[N])
              /\ \A i \in 1..Len(ss[k]) : g[N][at[k] + i] = ss[k][i]
  <2>1. k - 1 \in 0..N /\ Len(g[k]) = Len(g[k - 1]) + Len(ss[k])
    BY <1>7
  <2>2. Len(g[k - 1]) \in Nat /\ Len(ss[k]) \in Nat
    BY <1>1, <1>6, <2>1, LenProperties
  <2>3. ASSUME NEW i \in 1..Len(ss[k]) PROVE g[N][at[k] + i] = ss[k][i]
    <3>1. Len(g[k - 1]) + i \in 1..Len(g[k])
      BY <2>1, <2>2
    <3>2. g[N][Len(g[k - 1]) + i] = g[k][Len(g[k - 1]) + i]
      BY <1>8, <3>1
    <3>3. g[k][Len(g[k - 1]) + i] = ss[k][i]
      BY <1>7
    <3> QED  BY <1>11, <3>2, <3>3
  <2> QED  BY <1>8, <1>11, <2>1, <2>3
<1>13. \A k \in 1..(N + 1) : at[k] = Len(FlattenSeq(SubSeq(ss, 1, k - 1)))
  BY <1>5, <1>10
<1>14. PartsAt(at, ss)
  BY <1>4, <1>9, <1>12, <1>13 DEF PartsAt, N
<1> QED  BY <1>14
-----------------------------------------------------------------------------
(* What is left of a sequence after n of its members.                      *)
Left(s, n) == SubSeq(s, n + 1, Len(s))

(* Cutting a sequence in two.                                              *)
LEMMA LeftProperties ==
  ASSUME NEW S, NEW s \in Seq(S), NEW n \in 0..Len(s)
  PROVE  /\ Left(s, n) \in Seq(S) /\ Len(Left(s, n)) = Len(s) - n
         /\ \A i \in 1..(Len(s) - n) : Left(s, n)[i] = s[n + i]
         /\ SubSeq(s, 1, n) \in Seq(S) /\ Len(SubSeq(s, 1, n)) = n
         /\ SubSeq(s, 1, n) \o Left(s, n) = s
<1>1. Len(s) \in Nat /\ n \in Nat /\ \A i \in 1..Len(s) : s[i] \in S
  BY LenProperties
<1>2. /\ Left(s, n) \in Seq(S) /\ Len(Left(s, n)) = Len(s) - n
      /\ \A i \in 1..(Len(s) - n) : Left(s, n)[i] = s[n + i]
  <2>1. \A i \in (n + 1)..Len(s) : s[i] \in S
    BY <1>1
  <2>2. n + 1 \in Int /\ Len(s) \in Int
    BY <1>1
  <2> DEFINE t == SubSeq(s, n + 1, Len(s))
  <2>3. /\ t \in Seq(S) /\ Len(t) = IF n + 1 =< Len(s) THEN Len(s) - (n + 1) + 1 ELSE 0
        /\ \A i \in 1..(Len(s) - (n + 1) + 1) : t[i] = s[n + 1 + i - 1]
    BY <2>1, <2>2, SubSeqProperties
  <2> HIDE DEF t
  <2>4. \A i \in 1..(Len(s) - n) : t[i] = s[n + i]
    <3> TAKE i \in 1..(Len(s) - n)
    <3>1. i \in 1..(Len(s) - (n + 1) + 1) /\ n + 1 + i - 1 = n + i
      BY <1>1
    <3> QED  BY <2>3, <3>1
  <2>5. Len(t) = Len(s) - n
    BY <1>1, <2>3
  <2> QED  BY <2>3, <2>4, <2>5 DEF Left, t
<1>3. SubSeq(s, 1, n) \in Seq(S) /\ Len(SubSeq(s, 1, n)) = n
  <2>1. \A i \in 1..n : s[i] \in S
    BY <1>1
  <2> DEFINE t == SubSeq(s, 1, n)
  <2>2. t \in Seq(S) /\ Len(t) = IF 1 =< n THEN n - 1 + 1 ELSE 0
    BY <1>1, <2>1, SubSeqProperties
  <2> HIDE DEF t
  <2> QED  BY <1>1, <2>2 DEF t
<1>4. SubSeq(s, 1, n) \o Left(s, n) = s
  <2>1. SubSeq(s, 1, n) \o SubSeq(s, n + 1, Len(s)) = SubSeq(s, 1, Len(s))
    <3>1. /\ 1 \in 1..(Len(s) + 1) /\ n \in (1 - 1)..Len(s) /\ Len(s) \in n..Len(s)
      BY <1>1
    <3> QED  BY <3>1, ConcatAdjacentSubSeq
  <2> QED  BY <2>1, SubSeqFull DEF Left
<1> QED  BY <1>2, <1>3, <1>4

(* A part of a part is a part.                                             *)
LEMMA LeftOfPart ==
  ASSUME NEW S, NEW s \in Seq(S), NEW f \in Nat, NEW k \in Nat, f + k =< Len(s), NEW n \in 0..k
  PROVE  /\ SubSeq(s, f + 1, f + k) \in Seq(S) /\ Len(SubSeq(s, f + 1, f + k)) = k
         /\ Left(SubSeq(s, f + 1, f + k), n) = SubSeq(s, f + n + 1, f + k)
<1>1. Len(s) \in Nat /\ n \in Nat /\ \A i \in 1..Len(s) : s[i] \in S
  BY LenProperties
<1> DEFINE t == SubSeq(s, f + 1, f + k)
           u == SubSeq(s, f + n + 1, f + k)
<1>2. /\ t \in Seq(S) /\ Len(t) = k /\ \A i \in 1..k : t[i] = s[f + i]
  <2>1. \A i \in (f + 1)..(f + k) : s[i] \in S
    BY <1>1
  <2>2. f + 1 \in Int /\ f + k \in Int
    OBVIOUS
  <2>3. /\ t \in Seq(S) /\ Len(t) = IF f + 1 =< f + k THEN f + k - (f + 1) + 1 ELSE 0
        /\ \A i \in 1..(f + k - (f + 1) + 1) : t[i] = s[f + 1 + i - 1]
    BY <2>1, <2>2, SubSeqProperties
  <2> HIDE DEF t
  <2>4. \A i \in 1..k : t[i] = s[f + i]
    <3> TAKE i \in 1..k
    <3>1. i \in 1..(f + k - (f + 1) + 1) /\ f + 1 + i - 1 = f + i
      OBVIOUS
    <3> QED  BY <2>3, <3>1
  <2> QED  BY <2>3, <2>4
<1>3. /\ u \in Seq(S) /\ Len(u) = k - n /\ \A i \in 1..(k - n) : u[i] = s[f + n + i]
  <2>1. \A i \in (f + n + 1)..(f + k) : s[i] \in S
    BY <1>1
  <2>2. f + n + 1 \in Int /\ f + k \in Int
    BY <1>1
  <2>3. /\ u \in Seq(S) /\ Len(u) = IF f + n + 1 =< f + k THEN f + k - (f + n + 1) + 1 ELSE 0
        /\ \A i \in 1..(f + k - (f + n + 1) + 1) : u[i] = s[f + n + 1 + i - 1]
    <3> DEFINE a == f + n + 1
               b == f + k
    <3> HIDE DEF a, b
    <3>1. a \in Int /\ b \in Int /\ \A i \in a..b : s[i] \in S
      BY <2>1, <2>2 DEF a, b
    <3>2. /\ SubSeq(s, a, b) \in Seq(S)
          /\ Len(SubSeq(s, a, b)) = IF a =< b THEN b - a + 1 ELSE 0
          /\ \A i \in 1..(b - a + 1) : SubSeq(s, a, b)[i] = s[a + i - 1]
      BY <3>1, SubSeqProperties
    <3> QED  BY <3>2 DEF a, b
  <2> HIDE DEF u
  <2>4. \A i \in 1..(k - n) : u[i] = s[f + n + i]
    <3> TAKE i \in 1..(k - n)
    <3>1. i \in 1..(f + k - (f + n + 1) + 1) /\ f + n + 1 + i - 1 = f + n + i
      BY <1>1
    <3> QED  BY <2>3, <3>1
  <2>5. Len(u) = k - n
    BY <1>1, <2>3
  <2> QED  BY <2>3, <2>4, <2>5
<1> HIDE DEF t, u
<1>4. /\ Left(t, n) \in Seq(S) /\ Len(Left(t, n)) = k - n
      /\ \A i \in 1..(k - n) : Left(t, n)[i] = t[n + i]
  BY <1>2, LeftProperties
<1>5. Left(t, n) = u
  <2>1. \A i \in 1..(k - n) : Left(t, n)[i] = u[i]
    <3> TAKE i \in 1..(k - n)
    <3>1. n + i \in 1..k /\ f + (n + i) = f + n + i
      BY <1>1
    <3> QED  BY <1>2, <1>3, <1>4, <3>1
  <2> QED  BY <1>3, <1>4, <2>1, SeqEqual
<1> QED  BY <1>2, <1>5 DEF t, u

(* What is left of two sequences in a row.                                 *)
LEMMA LeftOfJoined ==
  ASSUME NEW S, NEW s \in Seq(S), NEW t \in Seq(S), NEW n \in 0..(Len(s) + Len(t))
  PROVE  Left(s \o t, n) = IF n =< Len(s) THEN Left(s, n) \o t ELSE Left(t, n - Len(s))
<1>1. Len(s) \in Nat /\ Len(t) \in Nat /\ n \in Nat
  BY LenProperties
<1>2. /\ s \o t \in Seq(S) /\ Len(s \o t) = Len(s) + Len(t)
      /\ \A i \in 1..(Len(s) + Len(t)) :
           (s \o t)[i] = IF i =< Len(s) THEN s[i] ELSE t[i - Len(s)]
  BY ConcatProperties
<1> DEFINE k == Len(s) + Len(t) - n
<1>3. /\ Left(s \o t, n) \in Seq(S) /\ Len(Left(s \o t, n)) = k
      /\ \A i \in 1..k : Left(s \o t, n)[i] = (s \o t)[n + i]
  <2> DEFINE st == s \o t
  <2> HIDE DEF st
  <2>1. st \in Seq(S) /\ n \in 0..Len(st) /\ Len(st) - n = k
    BY <1>1, <1>2 DEF st
  <2>2. /\ Left(st, n) \in Seq(S) /\ Len(Left(st, n)) = Len(st) - n
        /\ \A i \in 1..(Len(st) - n) : Left(st, n)[i] = st[n + i]
    BY <2>1, LeftProperties
  <2> QED  BY <2>1, <2>2 DEF st
<1>4. CASE n =< Len(s)
  <2>1. /\ Left(s, n) \in Seq(S) /\ Len(Left(s, n)) = Len(s) - n
        /\ \A i \in 1..(Len(s) - n) : Left(s, n)[i] = s[n + i]
    <3>1. n \in 0..Len(s)
      BY <1>1, <1>4
    <3> QED  BY <3>1, LeftProperties
  <2> DEFINE a == Left(s, n)
  <2> HIDE DEF a
  <2>2. /\ a \o t \in Seq(S) /\ Len(a \o t) = Len(a) + Len(t)
        /\ \A i \in 1..(Len(a) + Len(t)) :
             (a \o t)[i] = IF i =< Len(a) THEN a[i] ELSE t[i - Len(a)]
    BY <2>1, ConcatProperties DEF a
  <2>3. Len(a \o t) = k
    BY <1>1, <2>1, <2>2 DEF a
  <2>4. ASSUME NEW i \in 1..k PROVE Left(s \o t, n)[i] = (a \o t)[i]
    <3>1. /\ n + i \in 1..(Len(s) + Len(t)) /\ i \in 1..(Len(a) + Len(t))
          /\ (n + i =< Len(s) <=> i =< Len(a)) /\ (n + i) - Len(s) = i - Len(a)
      BY <1>1, <1>4, <2>1 DEF a
    <3>2. i =< Len(a) => a[i] = s[n + i]
      BY <1>1, <2>1, <3>1 DEF a
    <3>3. Left(s \o t, n)[i] = IF n + i =< Len(s) THEN s[n + i] ELSE t[(n + i) - Len(s)]
      BY <1>2, <1>3, <3>1
    <3> QED  BY <2>2, <3>1, <3>2, <3>3
  <2>5. Left(s \o t, n) = a \o t
    BY <1>3, <2>2, <2>3, <2>4, SeqEqual
  <2> QED  BY <1>4, <2>5 DEF a
<1>5. CASE n > Len(s)
  <2> DEFINE m == n - Len(s)
             a == Left(t, m)
  <2>1. m \in 0..Len(t) /\ Len(t) - m = k
    BY <1>1, <1>5
  <2> HIDE DEF m
  <2>2. a \in Seq(S) /\ Len(a) = k /\ \A i \in 1..k : a[i] = t[m + i]
    BY <2>1, LeftProperties
  <2> HIDE DEF a
  <2>3. ASSUME NEW i \in 1..k PROVE Left(s \o t, n)[i] = a[i]
    <3>1. n + i \in 1..(Len(s) + Len(t)) /\ ~(n + i =< Len(s)) /\ (n + i) - Len(s) = m + i
      BY <1>1, <1>5 DEF m
    <3> QED  BY <1>2, <1>3, <2>2, <3>1
  <2>4. Left(s \o t, n) = a
    BY <1>3, <2>2, <2>3, SeqEqual
  <2> QED  BY <1>1, <1>5, <2>4 DEF a, m
<1> QED  BY <1>1, <1>4, <1>5
===============================================================================
