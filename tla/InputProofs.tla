------------------------------ MODULE InputProofs ------------------------------
(***************************************************************************)
(* What the operators of Config and Paths compute, for inputs of any       *)
(* length: Config::parse() finds what the command line means and leaves    *)
(* every setting in its type, url_decode() undoes a client's encoding, and *)
(* normalize_path() finds the components that a path means.                *)
(*                                                                         *)
(* A definition by recursion says nothing until a function is known that   *)
(* satisfies it, so each one (FoldLeft, FlattenSeq, url_decode) comes with *)
(* a lemma that there is one: Foldings, Flattened, Decodings.  They are    *)
(* shown by induction over the set of the lengths for which it exists.     *)
(* What a loop computes is shown by an invariant of its turns: Reached for *)
(* the arguments of parse(), Reading and Stacked for normalize_path().     *)
(***************************************************************************)
EXTENDS Config, Paths, WellFoundedInduction, SequenceTheorems, FiniteSetTheorems, TLAPS

(* Induction on numbers, for a set in place of a predicate: a number that  *)
(* is not in S would have a least one below it (WFMin of the library),     *)
(* which has a predecessor in S.                                           *)
LEMMA NatSetInduction ==
  ASSUME NEW S, 0 \in S, \A n \in Nat : n \in S => n + 1 \in S
  PROVE  \A n \in Nat : n \in S
<1> DEFINE R == OpToRel(<, Nat)
           T == Nat \ S
<1> SUFFICES ASSUME T # {} PROVE FALSE
  OBVIOUS
<1>1. IsWellFoundedOn(R, Nat)
  BY NatLessThanWellFounded
<1>2. ASSUME NEW x \in Nat, NEW y \in Nat, y < x PROVE <<y, x>> \in R
  BY <1>2 DEF OpToRel
<1> HIDE DEF R
<1>3. PICK x \in T : \A y \in T : <<y, x>> \notin R
  <2>1. T \subseteq Nat
    OBVIOUS
  <2> HIDE DEF T
  <2> QED BY <1>1, <2>1, WFMin
<1>4. x \in Nat /\ x # 0 /\ x - 1 \in Nat /\ x - 1 < x
  BY <1>3
<1>5. x - 1 \in T
  BY <1>3, <1>4
<1> QED BY <1>2, <1>3, <1>4, <1>5


(* g is what N steps make of x0, step n by the function E[n]. *)
Iteration(X, x0, E, N, g) ==
  /\ g \in [0..N -> X]
  /\ g[0] = x0
  /\ \A k, n \in 0..N : n = k + 1 => g[n] = E[n][g[k]]

(* Such a sequence of results exists, whatever the steps. *)
LEMMA Iterates ==
  ASSUME NEW X, NEW x0 \in X, NEW E \in [Nat -> [X -> X]], NEW N \in Nat
  PROVE  \E g : Iteration(X, x0, E, N, g)
<1> DEFINE S == {m \in Nat : \E g : Iteration(X, x0, E, m, g)}
<1>1. 0 \in S
  <2> DEFINE g == [n \in 0..0 |-> x0]
  <2>1. Iteration(X, x0, E, 0, g)
    BY DEF Iteration
  <2> HIDE DEF g
  <2> QED BY <2>1
<1>2. ASSUME NEW m \in Nat, m \in S PROVE m + 1 \in S
  <2>1. PICK g : Iteration(X, x0, E, m, g)
    BY <1>2
  <2>2. g \in [0..m -> X] /\ g[0] = x0 /\ \A k, n \in 0..m : n = k + 1 => g[n] = E[n][g[k]]
    BY <2>1 DEF Iteration
  <2> DEFINE h == [n \in 0..(m + 1) |-> IF n = m + 1 THEN E[m + 1][g[m]] ELSE g[n]]
  <2>3. h \in [0..(m + 1) -> X]
    <3>1. E[m + 1] \in [X -> X] /\ g[m] \in X
      BY <2>2
    <3> QED BY <2>2, <3>1
  <2>4. h[0] = x0
    BY <2>2
  <2>5. ASSUME NEW k \in 0..(m + 1), NEW n \in 0..(m + 1), n = k + 1
        PROVE  h[n] = E[n][h[k]]
    <3>1. CASE n = m + 1
      BY <3>1, <2>5
    <3>2. CASE n # m + 1
      <4>1. n \in 0..m /\ k \in 0..m /\ k # m + 1
        BY <2>5, <3>2
      <4> QED BY <2>2, <2>5, <3>2, <4>1
    <3> QED BY <3>1, <3>2
  <2> HIDE DEF h
  <2>6. Iteration(X, x0, E, m + 1, h)
    BY <2>3, <2>4, <2>5 DEF Iteration
  <2> QED BY <2>6
<1>3. \A n \in Nat : n \in S
  <2> HIDE DEF S
  <2> QED BY <1>1, <1>2, NatSetInduction
<1> QED BY <1>3

(* f folds the steps E over each subset of 1..N, the largest number last:  *)
(* the function that MapThenFoldSet defines for FoldLeft.                  *)
Folding(X, x0, E, N, f) ==
  /\ f \in [SUBSET (1..N) -> X]
  /\ f[{}] = x0
  /\ \A s \in SUBSET (1..N) : s # {} => f[s] = E[Max(s)][f[s \ {Max(s)}]]

(* Among the numbers up to n + 1, n + 1 is the largest. *)
LEMMA MaxOfSegment ==
  ASSUME NEW n \in Nat, NEW s \in SUBSET (1..(n + 1)), n + 1 \in s
  PROVE  Max(s) = n + 1
<1>1. \A y \in s : n + 1 >= y
  OBVIOUS
<1>2. \A x \in s : (\A y \in s : x >= y) => x = n + 1
  OBVIOUS
<1>3. PICK x : x = CHOOSE z \in s : \A y \in s : z >= y
  OBVIOUS
<1>4. x \in s /\ \A y \in s : x >= y
  BY <1>1, <1>3, Zenon
<1> QED BY <1>2, <1>3, <1>4, Zenon DEF Max

(* The largest of a set of numbers up to N is one of them. *)
LEMMA MaxIsMember ==
  ASSUME NEW n \in Nat, NEW s \in SUBSET (1..n), s # {}
  PROVE  Max(s) \in s
<1> DEFINE Has(t) == \E x \in t : \A y \in t : x >= y
           S == {m \in Nat : \A t \in SUBSET (1..m) : t # {} => Has(t)}
<1>1. 0 \in S
  <2>1. \A t \in SUBSET (1..0) : t = {}
    OBVIOUS
  <2> QED BY <2>1
<1>2. ASSUME NEW m \in Nat, m \in S PROVE m + 1 \in S
  <2> SUFFICES ASSUME NEW t \in SUBSET (1..(m + 1)), t # {} PROVE Has(t)
    OBVIOUS
  <2>1. CASE m + 1 \in t
    BY <2>1
  <2>2. CASE m + 1 \notin t
    <3>1. t \in SUBSET (1..m)
      BY <2>2
    <3> QED BY <1>2, <3>1
  <2> QED BY <2>1, <2>2
<1>3. \A m \in Nat : m \in S
  <2> HIDE DEF S
  <2> QED BY <1>1, <1>2, NatSetInduction
<1>4. Has(s)
  BY <1>3
<1> QED BY <1>4, Zenon DEF Max

(* The recursion that FoldLeft is defined by has a solution. *)
LEMMA Foldings ==
  ASSUME NEW X, NEW x0 \in X, NEW E \in [Nat -> [X -> X]], NEW N \in Nat
  PROVE  \E f : Folding(X, x0, E, N, f)
<1> DEFINE S == {m \in Nat : \E f : Folding(X, x0, E, m, f)}
<1>1. 0 \in S
  <2> DEFINE f == [s \in SUBSET (1..0) |-> x0]
  <2>1. f \in [SUBSET (1..0) -> X] /\ f[{}] = x0 /\ \A s \in SUBSET (1..0) : s = {}
    OBVIOUS
  <2> HIDE DEF f
  <2>2. Folding(X, x0, E, 0, f)
    BY <2>1 DEF Folding
  <2> QED BY <2>2
<1>2. ASSUME NEW m \in Nat, m \in S PROVE m + 1 \in S
  <2>1. PICK f : Folding(X, x0, E, m, f)
    BY <1>2
  <2>2. f \in [SUBSET (1..m) -> X] /\ f[{}] = x0
    BY <2>1 DEF Folding
  <2> DEFINE n == m + 1
             h == [s \in SUBSET (1..n) |-> IF n \in s THEN E[n][f[s \ {n}]] ELSE f[s]]
  <2>3. n \in Nat /\ \A s \in SUBSET (1..n) :
          s \ {n} \in SUBSET (1..m) /\ (n \notin s => s \in SUBSET (1..m))
    OBVIOUS
  <2>4. \A t \in SUBSET (1..m) : f[t] \in X /\ E[n][f[t]] \in X
    <3>1. E[n] \in [X -> X]
      BY <2>3
    <3> QED BY <2>2, <3>1
  <2>5. h \in [SUBSET (1..n) -> X]
    <3> HIDE DEF n
    <3> QED BY <2>3, <2>4
  <2>6. \A s \in SUBSET (1..n) : h[s] = IF n \in s THEN E[n][f[s \ {n}]] ELSE f[s]
    <3> HIDE DEF n
    <3> QED OBVIOUS
  <2> HIDE DEF h
  <2>7. h[{}] = x0
    BY <2>2, <2>6
  <2>8. ASSUME NEW s \in SUBSET (1..n), s # {} PROVE h[s] = E[Max(s)][h[s \ {Max(s)}]]
    <3>1. CASE n \in s
      <4>1. Max(s) = n
        BY <3>1, MaxOfSegment
      <4>2. s \ {n} \in SUBSET (1..n) /\ n \notin s \ {n}
        BY <2>3
      <4>3. h[s \ {n}] = f[s \ {n}] /\ h[s] = E[n][f[s \ {n}]]
        <5> HIDE DEF n
        <5> QED BY <2>6, <3>1, <4>2
      <4> HIDE DEF n
      <4> QED BY <4>1, <4>3, Zenon
    <3>2. CASE n \notin s
      <4> HIDE DEF n
      <4>1. s \in SUBSET (1..m)
        BY <2>3, <3>2
      <4>2. f[s] = E[Max(s)][f[s \ {Max(s)}]]
        BY <2>1, <2>8, <4>1, Zenon DEF Folding
      <4>3. PICK t : t = s \ {Max(s)}
        OBVIOUS
      <4>4. t \in SUBSET (1..n) /\ n \notin t
        BY <3>2, <4>3
      <4>5. h[t] = f[t] /\ h[s] = f[s]
        BY <2>6, <3>2, <4>4
      <4> QED BY <4>2, <4>3, <4>5, Zenon
    <3> QED BY <3>1, <3>2
  <2>9. Folding(X, x0, E, n, h)
    BY <2>5, <2>7, <2>8, Zenon DEF Folding
  <2> QED BY <2>9
<1>3. \A n \in Nat : n \in S
  <2> HIDE DEF S
  <2> QED BY <1>1, <1>2, NatSetInduction
<1> QED BY <1>3

(* The texts that FlattenSeq joins, one after the other. *)
Chain(C, seqs, g) ==
  /\ g \in [0..Len(seqs) -> Seq(C)]
  /\ g[0] = <<>>
  /\ \A k, n \in 0..Len(seqs) : n = k + 1 => g[n] = g[k] \o seqs[n]
  /\ FlattenSeq(seqs) = g[Len(seqs)]

(* FlattenSeq joins its texts one after the other. *)
LEMMA Flattened ==
  ASSUME NEW C, NEW seqs \in Seq(Seq(C))
  PROVE  \E g : Chain(C, seqs, g)
<1> DEFINE N == Len(seqs)
           X == Seq(C)
           E == [n \in Nat |-> [x \in X |-> IF n \in 1..N THEN x \o seqs[n] ELSE x]]
<1>1. N \in Nat /\ <<>> \in X /\ \A n \in 1..N : seqs[n] \in X
  BY LenProperties, EmptySeq
<1>2. E \in [Nat -> [X -> X]]
  <2> SUFFICES ASSUME NEW n \in 1..N, NEW x \in X PROVE x \o seqs[n] \in X
    OBVIOUS
  <2> QED BY <1>1, ConcatProperties
<1>3. ASSUME NEW n \in 1..N, NEW x \in X PROVE E[n][x] = x \o seqs[n]
  <2>1. n \in Nat
    BY <1>1
  <2>2. E[n] = [y \in X |-> IF n \in 1..N THEN y \o seqs[n] ELSE y]
    BY <2>1
  <2> HIDE DEF E, X, N
  <2> QED BY <2>2
<1>4. \A x \in X : <<>> \o x = x
  BY ConcatEmptySeq
<1>5. FlattenSeq(seqs) =
        IF N = 0 THEN seqs
        ELSE LET f[i \in 1..N] == IF i = 1 THEN seqs[i] ELSE f[i - 1] \o seqs[i] IN f[N]
  BY Zenon DEF FlattenSeq
<1>6. N = 0 => seqs = <<>>
  OBVIOUS
<1> HIDE DEF E, N, X
<1>7. PICK g : Iteration(X, <<>>, E, N, g)
  BY <1>1, <1>2, Iterates
<1>8. g \in [0..N -> X] /\ g[0] = <<>>
  BY <1>7 DEF Iteration
<1>9. ASSUME NEW k \in 0..N, NEW n \in 0..N, n = k + 1 PROVE g[n] = g[k] \o seqs[n]
  <2>1. g[n] = E[n][g[k]]
    BY <1>7, <1>9, Zenon DEF Iteration
  <2>2. g[k] \in X /\ n \in 1..N
    BY <1>1, <1>8, <1>9
  <2> QED BY <1>3, <2>1, <2>2
<1>10. FlattenSeq(seqs) = g[N]
  <2>1. CASE N = 0
    BY <2>1, <1>5, <1>6, <1>8
  <2>2. CASE N # 0
    <3>0. 1 \in 0..N /\ 0 \in 0..N /\ 1 \in 1..N /\ 1 = 0 + 1
      BY <1>1, <2>2
    <3>1. g[1] = seqs[1]
      <4>1. g[1] = g[0] \o seqs[1]
        BY <1>9, <3>0, Zenon
      <4> QED BY <1>1, <1>4, <1>8, <3>0, <4>1
    <3> DEFINE Step(f) == [i \in 1..N |-> IF i = 1 THEN seqs[i] ELSE f[i - 1] \o seqs[i]]
               f == CHOOSE f : f = Step(f)
               h == [i \in 1..N |-> g[i]]
    <3>2. h = Step(h)
      <4> SUFFICES ASSUME NEW i \in 1..N
                   PROVE  g[i] = IF i = 1 THEN seqs[i] ELSE h[i - 1] \o seqs[i]
        OBVIOUS
      <4>1. CASE i # 1
        <5> DEFINE k == i - 1
        <5>1. k \in 1..N /\ k \in 0..N /\ i \in 0..N /\ i = k + 1
          BY <1>1, <4>1
        <5>2. h[k] = g[k]
          BY <5>1
        <5>3. g[i] = g[k] \o seqs[i]
          BY <1>9, <5>1, Zenon
        <5> QED BY <4>1, <5>2, <5>3, Zenon
      <4> QED BY <3>1, <4>1
    <3>3. f = Step(f)
      <4> HIDE DEF h, Step
      <4> QED BY <3>2, Zenon
    <3>4. FlattenSeq(seqs) = f[N]
      BY <1>5, <2>2, Zenon
    <3>5. ASSUME NEW i \in 1..N PROVE f[i] = IF i = 1 THEN seqs[i] ELSE f[i - 1] \o seqs[i]
      <4> HIDE DEF f
      <4> QED BY <3>3
    <3> HIDE DEF f
    <3> DEFINE S == {n \in Nat : n \in 1..N => f[n] = g[n]}
    <3>6. 0 \in S
      OBVIOUS
    <3>7. ASSUME NEW n \in Nat, n \in S PROVE n + 1 \in S
      <4> SUFFICES ASSUME n + 1 \in 1..N PROVE f[n + 1] = g[n + 1]
        OBVIOUS
      <4>1. CASE n = 0
        BY <3>0, <3>1, <3>5, <4>1
      <4>2. CASE n # 0
        <5> DEFINE i == n + 1
        <5>1. n \in 1..N /\ n \in 0..N /\ i \in 0..N /\ i \in 1..N /\ i - 1 = n /\ i # 1
          BY <1>1, <4>2
        <5>2. f[i] = f[i - 1] \o seqs[i]
          BY <3>5, <5>1, Zenon
        <5>3. f[n] = g[n]
          BY <3>7, <5>1
        <5>4. g[i] = g[n] \o seqs[i]
          BY <1>9, <5>1, Zenon
        <5> QED BY <5>1, <5>2, <5>3, <5>4, Zenon
      <4> QED BY <4>1, <4>2
    <3>8. \A n \in Nat : n \in S
      <4> HIDE DEF S
      <4> QED BY <3>6, <3>7, NatSetInduction
    <3> QED BY <2>2, <1>1, <3>4, <3>8
  <2> QED BY <2>1, <2>2
<1> QED BY <1>8, <1>9, <1>10 DEF Chain, N, X

(* What the concatenation of two texts holds. *)
LEMMA Joined ==
  ASSUME NEW C, NEW s \in Seq(C), NEW t \in Seq(C), NEW u, u = s \o t
  PROVE  /\ u \in Seq(C)
         /\ Len(s) \in Nat /\ Len(t) \in Nat /\ Len(u) = Len(s) + Len(t)
         /\ \A x \in 1..Len(s) : u[x] = s[x] /\ x \in 1..Len(u)
         /\ \A y \in 1..Len(t) : u[Len(s) + y] = t[y] /\ Len(s) + y \in 1..Len(u)
OBVIOUS

(* Each part that has been joined is a prefix of the whole. *)
LEMMA ChainPrefix ==
  ASSUME NEW C, NEW seqs \in Seq(Seq(C)), NEW g, Chain(C, seqs, g), NEW i \in 0..Len(seqs)
  PROVE  /\ g[i] \in Seq(C) /\ FlattenSeq(seqs) \in Seq(C)
         /\ Len(g[i]) <= Len(FlattenSeq(seqs))
         /\ \A x \in 1..Len(g[i]) : FlattenSeq(seqs)[x] = g[i][x]
<1> DEFINE N == Len(seqs)
           Ok(j) == Len(g[i]) <= Len(g[j]) /\ \A x \in 1..Len(g[i]) : g[j][x] = g[i][x]
           S == {d \in Nat : i + d <= N => Ok(i + d)}
<1>1. N \in Nat /\ \A n \in 1..N : seqs[n] \in Seq(C)
  BY LenProperties
<1>2. FlattenSeq(seqs) = g[N] /\ \A j \in 0..N : g[j] \in Seq(C)
  BY DEF Chain
<1>2a. \A j \in 0..N : Len(g[j]) \in Nat
  BY <1>2, LenProperties
<1>3. 0 \in S
  BY <1>1, <1>2, <1>2a
<1>4. ASSUME NEW d \in Nat, d \in S PROVE d + 1 \in S
  <2> SUFFICES ASSUME i + (d + 1) <= N PROVE Ok(i + (d + 1))
    OBVIOUS
  <2> DEFINE k == i + d
             n == i + (d + 1)
  <2>1. k \in 0..N /\ n \in 0..N /\ n \in 1..N /\ n = k + 1 /\ i + d <= N
    BY <1>1
  <2>2. Ok(k)
    BY <1>4, <2>1
  <2>3. g[n] = g[k] \o seqs[n]
    BY <2>1, Zenon DEF Chain
  <2>4. g[k] \in Seq(C) /\ seqs[n] \in Seq(C) /\ Len(g[i]) \in Nat
    BY <1>1, <1>2, <1>2a, <2>1
  <2>5. /\ Len(g[k]) \in Nat /\ Len(seqs[n]) \in Nat /\ Len(g[n]) = Len(g[k]) + Len(seqs[n])
        /\ \A x \in 1..Len(g[k]) : g[n][x] = g[k][x]
    <3> HIDE DEF k, n, Ok
    <3>1. PICK a, t, u : a = g[k] /\ t = seqs[n] /\ u = g[n]
      OBVIOUS
    <3>2. u = a \o t /\ a \in Seq(C) /\ t \in Seq(C)
      BY <2>3, <2>4, <3>1, Zenon
    <3>3. /\ Len(a) \in Nat /\ Len(t) \in Nat /\ Len(u) = Len(a) + Len(t)
          /\ \A x \in 1..Len(a) : u[x] = a[x]
      BY <3>2, Joined
    <3> QED BY <3>1, <3>3, Zenon
  <2>6. Ok(n)
    <3> HIDE DEF k, n
    <3>1. Len(g[i]) <= Len(g[n])
      <4>1. Len(g[i]) <= Len(g[k])
        BY <2>2
      <4>2. \A p, q, r \in Nat : p <= q => p <= q + r
        OBVIOUS
      <4> HIDE DEF Ok
      <4> QED BY <2>4, <2>5, <4>1, <4>2, Zenon
    <3>2. ASSUME NEW x \in 1..Len(g[i]) PROVE g[n][x] = g[i][x]
      <4>1. x \in 1..Len(g[k])
        BY <2>2, <2>4, <2>5
      <4> QED BY <2>2, <2>5, <4>1
    <3> QED BY <3>1, <3>2
  <2> QED BY <2>6
<1>5. \A d \in Nat : d \in S
  <2> HIDE DEF S
  <2> QED BY <1>3, <1>4, NatSetInduction
<1>6. Ok(N)
  <2>1. N - i \in Nat /\ i + (N - i) = N
    BY <1>1
  <2>2. N - i \in S
    BY <1>5, <2>1
  <2> QED BY <2>1, <2>2
<1>7. N \in 0..N
  BY <1>1
<1> QED BY <1>1, <1>2, <1>6, <1>7

(* The text seqs[n] begins behind g[k]. *)
ChainLink(seqs, g, k, n) ==
  /\ Len(g[n]) = Len(g[k]) + Len(seqs[n])
  /\ Len(g[n]) <= Len(FlattenSeq(seqs))
  /\ \A y \in 1..Len(seqs[n]) : FlattenSeq(seqs)[Len(g[k]) + y] = seqs[n][y]

(* Where each text lies in the whole. *)
LEMMA ChainLinks ==
  ASSUME NEW C, NEW seqs \in Seq(Seq(C)), NEW g, Chain(C, seqs, g),
         NEW k \in 0..Len(seqs), NEW n \in 0..Len(seqs), n = k + 1
  PROVE  ChainLink(seqs, g, k, n)
<1>1. g[n] = g[k] \o seqs[n]
  BY Zenon DEF Chain
<1>2. g[k] \in Seq(C) /\ seqs[n] \in Seq(C)
  BY LenProperties, ChainPrefix
<1>3. Len(g[n]) <= Len(FlattenSeq(seqs)) /\ \A x \in 1..Len(g[n]) : FlattenSeq(seqs)[x] = g[n][x]
  BY ChainPrefix
<1>4. /\ Len(g[n]) = Len(g[k]) + Len(seqs[n])
      /\ \A y \in 1..Len(seqs[n]) : g[n][Len(g[k]) + y] = seqs[n][y] /\ Len(g[k]) + y \in 1..Len(g[n])
  <2>1. PICK a, t, u : a = g[k] /\ t = seqs[n] /\ u = g[n]
    OBVIOUS
  <2>2. u = a \o t /\ a \in Seq(C) /\ t \in Seq(C)
    BY <1>1, <1>2, <2>1, Zenon
  <2>3. /\ Len(u) = Len(a) + Len(t)
        /\ \A y \in 1..Len(t) : u[Len(a) + y] = t[y] /\ Len(a) + y \in 1..Len(u)
    BY <2>2, Joined
  <2> QED BY <2>1, <2>3, Zenon
<1> QED BY <1>3, <1>4, Zenon DEF ChainLink

(* A text and its prefix agree on the prefix's positions. *)
LEMMA PrefixAgrees ==
  ASSUME NEW C, NEW s \in Seq(C), NEW t \in Seq(C), IsPrefix(s, t)
  PROVE  Len(s) <= Len(t) /\ \A x \in 1..Len(s) : t[x] = s[x]
<1>1. Len(s) \in Nat /\ Len(t) \in Nat /\ Len(s) <= Len(t)
  BY DEF IsPrefix
<1>2. PICK u, v : /\ u = SubSeq(s, 1, Len(s)) /\ v = SubSeq(t, 1, Len(s)) /\ u = v
  BY DEF IsPrefix
<1>3. ASSUME NEW x \in 1..Len(s) PROVE u[x] = s[x] /\ v[x] = t[x]
  BY <1>1, <1>2
<1> QED BY <1>1, <1>2, <1>3

-----------------------------------------------------------------------------
(***************************************************************************)
(* Config::parse()                                                         *)
(***************************************************************************)
(* A configuration while it is parsed, with a document root from Roots. *)
Configs(Roots) ==
  [port : 0..(2^PortBits - 1), thread_count : 0..(2^IntBits - 1),
   queue_capacity : 0..(2^SizeBits - 1), document_root : Roots]
LoopStates(Roots) ==
  [cfg : Configs(Roots), skip : BOOLEAN, end : {"serve", "exit", "terminate"}]

(* static_cast to an unsigned type of this width. *)
LEMMA CastInRange ==
  ASSUME NEW s \in DOMAIN Number, NEW bits, 2^bits \in Nat, 0 < 2^bits
  PROVE  Cast(s, bits) \in 0..(2^bits - 1)
<1>1. PICK M : M = 2^bits
  OBVIOUS
<1>2. PICK x : x = Number[s]
  OBVIOUS
<1>3. x \in Int /\ M \in Nat /\ 0 < M
  BY <1>1, <1>2, ConfigAssumption
<1>4. x % M \in 0..(M - 1)
  BY <1>3
<1> QED BY <1>1, <1>2, <1>4 DEF Cast

(* An option that converts leaves every setting in its type. *)
LEMMA AssignTyped ==
  ASSUME NEW Roots, NEW cfg \in Configs(Roots), NEW o \in ValueOptions, NEW s \in Roots, Converts(o, s)
  PROVE  Assign(cfg, o, s) \in Configs(Roots)
<1>0. 0 < 2^PortBits /\ 0 < 2^IntBits /\ 0 < 2^SizeBits
  BY ConfigAssumption
<1>1. CASE o = "--port"
  <2>1. s \in DOMAIN Number
    BY <1>1 DEF Converts, stoi_ok
  <2>2. PICK v : v = Cast(s, PortBits)
    OBVIOUS
  <2>3. v \in 0..(2^PortBits - 1)
    BY <1>0, <2>1, <2>2, CastInRange, ConfigAssumption
  <2>4. Assign(cfg, o, s) = [cfg EXCEPT !.port = v]
    BY <1>1, <2>2 DEF Assign, Setting, Value
  <2> QED BY <2>3, <2>4 DEF Configs
<1>2. CASE o = "--threads"
  <2>1. s \in DOMAIN Number
    BY <1>2 DEF Converts, stoi_ok
  <2>2. PICK v : v = Cast(s, IntBits)
    OBVIOUS
  <2>3. v \in 0..(2^IntBits - 1)
    BY <1>0, <2>1, <2>2, CastInRange, ConfigAssumption
  <2>4. Assign(cfg, o, s) = [cfg EXCEPT !.thread_count = v]
    BY <1>2, <2>2 DEF Assign, Setting, Value
  <2> QED BY <2>3, <2>4 DEF Configs
<1>3. CASE o = "--capacity"
  <2>1. s \in DOMAIN Number
    BY <1>3 DEF Converts, stoul_ok
  <2>2. PICK v : v = Cast(s, SizeBits)
    OBVIOUS
  <2>3. v \in 0..(2^SizeBits - 1)
    BY <1>0, <2>1, <2>2, CastInRange, ConfigAssumption
  <2>4. Assign(cfg, o, s) = [cfg EXCEPT !.queue_capacity = v]
    BY <1>3, <2>2 DEF Assign, Setting, Value
  <2> QED BY <2>3, <2>4 DEF Configs
<1>4. CASE o = "--root"
  <2>1. Assign(cfg, o, s) = [cfg EXCEPT !.document_root = s]
    BY <1>4 DEF Assign, Setting, Value
  <2> QED BY <2>1 DEF Configs
<1> QED BY <1>1, <1>2, <1>3, <1>4 DEF ValueOptions

(* So do PORT and QUEUE_CAPACITY in the environment, and the defaults. *)
LEMMA EnvironmentTyped ==
  ASSUME NEW env, NEW Roots, Defaults.document_root \in Roots
  PROVE  Environment(env) \in Configs(Roots)
<1> DEFINE port == {s \in env.PORT : Converts("--port", s)}
           cap == {s \in env.QUEUE_CAPACITY : Converts("--capacity", s)}
           v == IF port = {} THEN 8080 ELSE Value("--port", CHOOSE s \in port : TRUE)
           w == IF cap = {} THEN 50 ELSE Value("--capacity", CHOOSE s \in cap : TRUE)
<1>1. 0 < 2^PortBits /\ 0 < 2^SizeBits
  BY ConfigAssumption
<1>2. v \in 0..(2^PortBits - 1)
  <2>1. CASE port = {}
    BY <2>1, ConfigAssumption
  <2>2. CASE port # {}
    <3>1. PICK s : s = CHOOSE t \in port : TRUE
      OBVIOUS
    <3>2. s \in port
      BY <2>2, <3>1
    <3>3. s \in DOMAIN Number
      BY <3>2 DEF Converts, stoi_ok
    <3>4. Cast(s, PortBits) \in 0..(2^PortBits - 1)
      BY <1>1, <3>3, CastInRange, ConfigAssumption
    <3>5. v = Cast(s, PortBits)
      BY <2>2, <3>1 DEF Value
    <3> QED BY <3>4, <3>5
  <2> QED BY <2>1, <2>2
<1>3. w \in 0..(2^SizeBits - 1)
  <2>1. CASE cap = {}
    BY <2>1, ConfigAssumption
  <2>2. CASE cap # {}
    <3>1. PICK s : s = CHOOSE t \in cap : TRUE
      OBVIOUS
    <3>2. s \in cap
      BY <2>2, <3>1
    <3>3. s \in DOMAIN Number
      BY <3>2 DEF Converts, stoul_ok
    <3>4. Cast(s, SizeBits) \in 0..(2^SizeBits - 1)
      BY <1>1, <3>3, CastInRange, ConfigAssumption
    <3>5. w = Cast(s, SizeBits)
      BY <2>2, <3>1 DEF Value
    <3> QED BY <3>4, <3>5
  <2> QED BY <2>1, <2>2
<1>4. Environment(env) = [Defaults EXCEPT !.port = v, !.queue_capacity = w]
  BY DEF Environment, Defaults
<1> HIDE DEF v, w
<1>5. Defaults \in Configs(Roots)
  BY ConfigAssumption DEF Configs, Defaults
<1> HIDE DEF v, w
<1> QED BY <1>2, <1>3, <1>4, <1>5 DEF Configs

(* The environment gives each setting the text of its variable, or leaves  *)
(* the default; but nobody has asked for THREADS.                          *)
LEMMA EnvironmentMeans ==
  ASSUME NEW env, NEW o \in ValueOptions, o = "--threads" => Given(env, o) = {}
  PROVE  Environment(env)[Setting(o)] \in
           IF Given(env, o) # {} THEN {Value(o, s) : s \in Given(env, o)} ELSE {Defaults[Setting(o)]}
<1>1. CASE o = "--port"
  <2>1. PICK G : G = {s \in env.PORT : Converts("--port", s)}
    OBVIOUS
  <2>2. Given(env, o) = G /\ Setting(o) = "port"
    BY <1>1, <2>1 DEF Given, Setting
  <2>3. Environment(env).port = IF G = {} THEN Defaults.port ELSE Value("--port", CHOOSE s \in G : TRUE)
    BY <2>1 DEF Environment, Defaults
  <2> QED BY <1>1, <2>2, <2>3
<1>2. CASE o = "--capacity"
  <2>1. PICK G : G = {s \in env.QUEUE_CAPACITY : Converts("--capacity", s)}
    OBVIOUS
  <2>2. Given(env, o) = G /\ Setting(o) = "queue_capacity"
    BY <1>2, <2>1 DEF Given, Setting
  <2>3. Environment(env).queue_capacity =
          IF G = {} THEN Defaults.queue_capacity ELSE Value("--capacity", CHOOSE s \in G : TRUE)
    BY <2>1 DEF Environment, Defaults
  <2> QED BY <1>2, <2>2, <2>3
<1>3. CASE o = "--threads" \/ o = "--root"
  <2>1. Given(env, o) = {}
    BY <1>3 DEF Given
  <2>2. Setting(o) \in {"thread_count", "document_root"}
    BY <1>3 DEF Setting
  <2>3. /\ Environment(env).thread_count = Defaults.thread_count
        /\ Environment(env).document_root = Defaults.document_root
    BY DEF Environment, Defaults
  <2> QED BY <2>1, <2>2, <2>3
<1> QED BY <1>1, <1>2, <1>3 DEF ValueOptions

(* The loop, one argument at a time. *)
LoopStep(argv, st, i) ==
  CASE st.end # "serve" -> st
    [] st.end = "serve" /\ st.skip -> [st EXCEPT !.skip = FALSE]
    [] st.end = "serve" /\ ~st.skip ->
         CASE argv[i] \in ValueOptions /\ i < Len(argv) -> Take(st, argv[i], argv[i + 1])
           [] argv[i] \in {"--help", "-h"} -> [st EXCEPT !.end = "exit"]
           [] OTHER -> st

(* A turn of the loop over the arguments keeps the types. *)
LEMMA LoopStepTyped ==
  ASSUME NEW Roots, NEW argv \in Seq(Roots), NEW st \in LoopStates(Roots), NEW i \in 1..Len(argv)
  PROVE  LoopStep(argv, st, i) \in LoopStates(Roots)
<1>1. CASE st.end # "serve"
  BY <1>1 DEF LoopStep
<1>2. CASE st.end = "serve" /\ st.skip
  <2>1. LoopStep(argv, st, i) = [st EXCEPT !.skip = FALSE]
    BY <1>2 DEF LoopStep
  <2> QED BY <2>1 DEF LoopStates
<1>3. CASE st.end = "serve" /\ ~st.skip
  <2>1. LoopStep(argv, st, i) =
          CASE argv[i] \in ValueOptions /\ i < Len(argv) -> Take(st, argv[i], argv[i + 1])
            [] argv[i] \in {"--help", "-h"} -> [st EXCEPT !.end = "exit"]
            [] OTHER -> st
    BY <1>3 DEF LoopStep
  <2>2. CASE argv[i] \in ValueOptions /\ i < Len(argv)
    <3>1. PICK o, s : o = argv[i] /\ s = argv[i + 1]
      OBVIOUS
    <3>2. o \in ValueOptions /\ s \in Roots
      <4>1. i + 1 \in 1..Len(argv)
        BY <2>2, LenProperties
      <4> QED BY <2>2, <3>1, <4>1, ElementOfSeq
    <3>3. LoopStep(argv, st, i) = Take(st, o, s)
      <4>1. argv[i] \notin {"--help", "-h"}
        BY <2>2 DEF ValueOptions
      <4> QED BY <2>1, <2>2, <3>1, <4>1
    <3>4. CASE Converts(o, s)
      <4>1. st.cfg \in Configs(Roots)
        BY DEF LoopStates
      <4>2. PICK c \in Configs(Roots) : c = Assign(st.cfg, o, s)
        BY <3>2, <3>4, <4>1, AssignTyped
      <4>3. Take(st, o, s) = [st EXCEPT !.cfg = c, !.skip = TRUE]
        BY <3>4, <4>2 DEF Take
      <4> QED BY <3>3, <4>3 DEF LoopStates
    <3>5. CASE ~Converts(o, s)
      <4>1. Take(st, o, s) = [st EXCEPT !.end = "terminate"]
        BY <3>5 DEF Take
      <4> QED BY <3>3, <4>1 DEF LoopStates
    <3> QED BY <3>4, <3>5
  <2>3. CASE ~(argv[i] \in ValueOptions /\ i < Len(argv))
    <3>1. CASE argv[i] \in {"--help", "-h"}
      <4>1. LoopStep(argv, st, i) = [st EXCEPT !.end = "exit"]
        BY <2>1, <2>3, <3>1
      <4> QED BY <4>1 DEF LoopStates
    <3>2. CASE argv[i] \notin {"--help", "-h"}
      BY <2>1, <2>3, <3>2
    <3> QED BY <3>1, <3>2
  <2> QED BY <2>2, <2>3
<1> QED BY <1>1, <1>2, <1>3

(* g[n] is the state of the loop over argv after n turns. *)
Turns(Roots, cfg0, argv, g) ==
  /\ g \in [0..Len(argv) -> LoopStates(Roots)]
  /\ g[0] = [cfg |-> cfg0, skip |-> FALSE, end |-> "serve"]
  /\ \A k, n \in 0..Len(argv) : n = k + 1 => g[n] = LoopStep(argv, g[k], n)
  /\ Loop(cfg0, argv) = g[Len(argv)]

(* The loop takes one turn after the other and keeps the types, for a      *)
(* command line of any length.                                             *)
LEMMA LoopTurns ==
  ASSUME NEW Roots, NEW argv \in Seq(Roots), NEW cfg0 \in Configs(Roots)
  PROVE  \E g : Turns(Roots, cfg0, argv, g)
<1> DEFINE N == Len(argv)
           X == LoopStates(Roots)
           x0 == [cfg |-> cfg0, skip |-> FALSE, end |-> "serve"]
           index == [i \in DOMAIN argv |-> i]
           E == [n \in Nat |-> [st \in X |-> IF n \in 1..N THEN LoopStep(argv, st, n) ELSE st]]
           Step(f) == [s \in SUBSET (DOMAIN index) |->
                         IF s = {} THEN x0
                         ELSE LoopStep(argv, f[s \ {Max(s)}], index[Max(s)])]
           iter == CHOOSE f : f = Step(f)
<1>1. N \in Nat /\ DOMAIN argv = 1..N /\ DOMAIN index = 1..N /\ \A n \in 1..N : index[n] = n
  BY LenProperties
<1>2. Loop(cfg0, argv) = iter[DOMAIN index]
  BY Zenon DEF Loop, FoldLeftDomain, FoldLeft, MapThenFoldSet, LoopStep
<1>3. x0 \in X
  BY DEF LoopStates
<1>4. E \in [Nat -> [X -> X]]
  <2>1. \A n \in Nat, st \in X : (IF n \in 1..N THEN LoopStep(argv, st, n) ELSE st) \in X
    BY LoopStepTyped
  <2> HIDE DEF X, N
  <2> QED BY <2>1
<1>5. ASSUME NEW n \in 1..N, NEW st \in X PROVE E[n][st] = LoopStep(argv, st, n)
  <2>1. n \in Nat
    BY <1>1
  <2> HIDE DEF X, N
  <2> QED BY <2>1
<1> HIDE DEF N, X, x0, index, E
<1>6. PICK f : Folding(X, x0, E, N, f)
  BY <1>1, <1>3, <1>4, Foldings
<1>7. f = Step(f)
  <2>1. f \in [SUBSET (1..N) -> X] /\ f[{}] = x0
    BY <1>6 DEF Folding
  <2>2. ASSUME NEW s \in SUBSET (1..N), s # {}
        PROVE  f[s] = LoopStep(argv, f[s \ {Max(s)}], index[Max(s)])
    <3>1. f[s] = E[Max(s)][f[s \ {Max(s)}]]
      BY <1>6, <2>2, Zenon DEF Folding
    <3>2. Max(s) \in 1..N
      BY <1>1, <2>2, MaxIsMember
    <3>3. f[s \ {Max(s)}] \in X
      BY <2>1
    <3> QED BY <1>1, <1>5, <3>1, <3>2, <3>3, Zenon
  <2>3. f = [s \in SUBSET (1..N) |-> f[s]]
    BY <2>1
  <2>4. \A s \in SUBSET (1..N) :
          f[s] = IF s = {} THEN x0 ELSE LoopStep(argv, f[s \ {Max(s)}], index[Max(s)])
    BY <2>1, <2>2
  <2> QED BY <1>1, <2>3, <2>4
<1>8. iter = Step(iter)
  <2> HIDE DEF Step
  <2> QED BY <1>7, Zenon
<1>9. ASSUME NEW s \in SUBSET (1..N)
      PROVE  iter[s] = IF s = {} THEN x0 ELSE LoopStep(argv, iter[s \ {Max(s)}], index[Max(s)])
  <2> HIDE DEF iter
  <2> QED BY <1>1, <1>8
<1> HIDE DEF iter
<1>10. iter[1..0] = x0
  <2>1. 1..0 = {} /\ {} \in SUBSET (1..N)
    OBVIOUS
  <2> QED BY <1>9, <2>1
<1>11. ASSUME NEW k \in 0..N, NEW n \in 0..N, n = k + 1
       PROVE  iter[1..n] = LoopStep(argv, iter[1..k], n)
  <2>1. PICK s : s = 1..n
    OBVIOUS
  <2>2. s \in SUBSET (1..N) /\ s # {} /\ s \in SUBSET (1..(k + 1)) /\ k + 1 \in s /\ n \in 1..N
    <3>1. k + 1 \in s /\ k + 1 \in 1..N /\ \A x \in s : x \in 1..(k + 1) /\ x \in 1..N
      BY <1>1, <1>11, <2>1
    <3> QED BY <1>11, <3>1
  <2>3. Max(s) = n
    BY <1>11, <2>2, MaxOfSegment
  <2>4. s \ {n} = 1..k
    BY <1>11, <2>1
  <2>5. index[n] = n
    BY <1>1, <2>2
  <2> QED BY <1>9, <2>1, <2>2, <2>3, <2>4, <2>5, Zenon
<1> DEFINE S == {n \in Nat : n <= N => iter[1..n] \in X}
<1>12. 0 \in S
  BY <1>3, <1>10
<1>13. ASSUME NEW k \in Nat, k \in S PROVE k + 1 \in S
  <2> SUFFICES ASSUME k + 1 <= N PROVE iter[1..(k + 1)] \in X
    OBVIOUS
  <2>1. k \in 0..N /\ k + 1 \in 0..N /\ k + 1 \in 1..N /\ iter[1..k] \in X
    BY <1>1, <1>13
  <2>2. iter[1..(k + 1)] = LoopStep(argv, iter[1..k], k + 1)
    BY <1>11, <2>1
  <2> QED BY <2>1, <2>2, LoopStepTyped DEF X, N
<1>14. \A n \in Nat : n \in S
  <2> HIDE DEF S
  <2> QED BY <1>12, <1>13, NatSetInduction
<1>15. \A n \in 0..N : iter[1..n] \in X
  BY <1>1, <1>14
<1> DEFINE g == [n \in 0..N |-> iter[1..n]]
<1>16. g \in [0..N -> X]
  BY <1>15
<1>17. g[0] = x0 /\ g[N] = iter[1..N]
  BY <1>1, <1>10
<1>18. \A k, n \in 0..N : n = k + 1 => g[n] = LoopStep(argv, g[k], n)
  BY <1>11
<1> HIDE DEF g
<1> QED BY <1>1, <1>2, <1>16, <1>17, <1>18, Zenon DEF Turns, X, N, x0

(* A parsed configuration has at least one thread. *)
LEMMA ParseTyped ==
  ASSUME NEW env, NEW Roots, NEW argv \in Seq(Roots), Defaults.document_root \in Roots
  PROVE  /\ parse(env, argv).end \in {"serve", "exit", "terminate"}
         /\ parse(env, argv).cfg \in Configs(Roots)
         /\ parse(env, argv).cfg.thread_count \in 1..(2^IntBits - 1)
<1>1. PICK r \in LoopStates(Roots) : r = Loop(Environment(env), argv)
  <2>1. PICK g : Turns(Roots, Environment(env), argv, g)
    BY EnvironmentTyped, LoopTurns
  <2>2. Len(argv) \in 0..Len(argv)
    BY LenProperties
  <2> QED BY <2>1, <2>2 DEF Turns
<1>2. PICK t : t = IF r.cfg.thread_count = 0 THEN 2 ELSE r.cfg.thread_count
  OBVIOUS
<1>3. t \in 1..(2^IntBits - 1)
  BY <1>2, ConfigAssumption DEF LoopStates, Configs
<1>4. parse(env, argv) = [cfg |-> [r.cfg EXCEPT !.thread_count = t], end |-> r.end]
  BY <1>1, <1>2 DEF parse
<1>5. t \in 0..(2^IntBits - 1)
  BY <1>3, ConfigAssumption
<1> QED BY <1>3, <1>4, <1>5 DEF LoopStates, Configs
(* Which arguments are options follows from the one before each. *)
LEMMA OptionsAlternate ==
  ASSUME NEW R, NEW argv \in Seq(R)
  PROVE  /\ Options(argv) \subseteq 1..Len(argv)
         /\ \A k, n \in 0..Len(argv) : n = k + 1 =>
              (n \in Options(argv) <=> ~(k \in Options(argv) /\ argv[k] \in ValueOptions))
<1> DEFINE N == Len(argv)
           Good(S) == \A i \in DOMAIN argv : i \in S <=> ~(i - 1 \in S /\ argv[i - 1] \in ValueOptions)
           E == [n \in Nat |-> [b \in BOOLEAN |-> ~(b /\ argv[n - 1] \in ValueOptions)]]
<1>1. N \in Nat /\ DOMAIN argv = 1..N
  BY LenProperties
<1>2. E \in [Nat -> [BOOLEAN -> BOOLEAN]]
  OBVIOUS
<1>3. \A n \in Nat, b \in BOOLEAN : E[n][b] = ~(b /\ argv[n - 1] \in ValueOptions)
  OBVIOUS
<1> HIDE DEF N, E
<1>4. PICK h : Iteration(BOOLEAN, FALSE, E, N, h)
  BY <1>1, <1>2, Iterates
<1>5. h \in [0..N -> BOOLEAN] /\ h[0] = FALSE /\ \A k, n \in 0..N : n = k + 1 => h[n] = E[n][h[k]]
  BY <1>4 DEF Iteration
<1> DEFINE T == {i \in 1..N : h[i] = TRUE}
<1>6. T \in SUBSET DOMAIN argv
  BY <1>1
<1>7. ASSUME NEW i \in DOMAIN argv
      PROVE  i \in T <=> ~(i - 1 \in T /\ argv[i - 1] \in ValueOptions)
  <2>1. PICK k : k = i - 1
    OBVIOUS
  <2>2. k \in 0..N /\ i \in 0..N /\ i = k + 1 /\ i \in Nat /\ i \in 1..N
    BY <1>1, <2>1
  <2>3. h[i] = E[i][h[k]] /\ h[k] \in BOOLEAN /\ h[i] \in BOOLEAN
    BY <1>5, <2>2
  <2>4. h[i] = ~(h[k] /\ argv[k] \in ValueOptions)
    BY <1>3, <2>1, <2>2, <2>3
  <2>5. k \in T <=> h[k] = TRUE
    BY <1>5, <2>2
  <2>6. i \in T <=> h[i] = TRUE
    BY <2>2
  <2> HIDE DEF T
  <2> QED BY <2>1, <2>3, <2>4, <2>5, <2>6
<1> HIDE DEF T
<1>8. Good(T)
  BY <1>7
<1>9. Options(argv) = CHOOSE S \in SUBSET DOMAIN argv : Good(S)
  BY Zenon DEF Options
<1>10. PICK O : O = Options(argv)
  OBVIOUS
<1>11. O \in SUBSET DOMAIN argv /\ Good(O)
  <2> HIDE DEF Good
  <2> QED BY <1>6, <1>8, <1>9, <1>10, Zenon
<1>12. ASSUME NEW k \in 0..N, NEW n \in 0..N, n = k + 1
       PROVE  n \in O <=> ~(k \in O /\ argv[k] \in ValueOptions)
  <2>1. n \in DOMAIN argv /\ n - 1 = k
    BY <1>1, <1>12
  <2>2. n \in O <=> ~(n - 1 \in O /\ argv[n - 1] \in ValueOptions)
    BY <1>11, <2>1
  <2> QED BY <2>1, <2>2, Zenon
<1> QED BY <1>1, <1>10, <1>11, <1>12, Zenon DEF N

(* The first argument that ends the loop is among the first k, and the     *)
(* loop has ended as it says.                                              *)
Ended(argv, k, end) ==
  \E s \in 1..k :
    /\ s \in Stops(argv) /\ \A i \in 1..(s - 1) : i \notin Stops(argv)
    /\ end = IF argv[s] \in {"--help", "-h"} THEN "exit" ELSE "terminate"

(* Of the first k arguments, the last use of o gives its setting. *)
Chosen(cfg0, argv, k, cfg, o) ==
  \/ /\ \A i \in 1..k : i \notin Uses(argv, o)
     /\ cfg[Setting(o)] = cfg0[Setting(o)]
  \/ \E i \in 1..k :
       /\ i \in Uses(argv, o) /\ \A j \in (i + 1)..k : j \notin Uses(argv, o)
       /\ cfg[Setting(o)] = Value(o, argv[i + 1])

(* The loop's invariant: its state after k turns is what the first k       *)
(* arguments mean, and it skips the next just if that is a value.          *)
Reached(cfg0, argv, k, st) ==
  \/ Ended(argv, k, st.end)
  \/ /\ st.end = "serve" /\ \A i \in 1..k : i \notin Stops(argv)
     /\ k < Len(argv) => (st.skip <=> (k \in Options(argv) /\ argv[k] \in ValueOptions))
     /\ \A o \in ValueOptions : Chosen(cfg0, argv, k, st.cfg, o)

(* An argument that is no use of o changes nothing for o. *)
LEMMA ChosenStays ==
  ASSUME NEW cfg0, NEW argv, NEW k \in Nat, NEW cfg, NEW cfg1, NEW o, Chosen(cfg0, argv, k, cfg, o),
         k + 1 \notin Uses(argv, o), cfg1[Setting(o)] = cfg[Setting(o)]
  PROVE  Chosen(cfg0, argv, k + 1, cfg1, o)
<1>1. \A i \in 1..(k + 1) : i \in 1..k \/ i = k + 1
  OBVIOUS
<1>2. CASE /\ \A i \in 1..k : i \notin Uses(argv, o)
           /\ cfg[Setting(o)] = cfg0[Setting(o)]
  BY <1>1, <1>2, Zenon DEF Chosen
<1>3. CASE \E i \in 1..k : /\ i \in Uses(argv, o) /\ \A j \in (i + 1)..k : j \notin Uses(argv, o)
                           /\ cfg[Setting(o)] = Value(o, argv[i + 1])
  <2>1. PICK i \in 1..k : /\ i \in Uses(argv, o) /\ \A j \in (i + 1)..k : j \notin Uses(argv, o)
                          /\ cfg[Setting(o)] = Value(o, argv[i + 1])
    BY <1>3
  <2>2. \A j \in (i + 1)..(k + 1) : j \in (i + 1)..k \/ j = k + 1
    OBVIOUS
  <2>3. i \in 1..(k + 1)
    OBVIOUS
  <2> QED BY <2>1, <2>2, <2>3, Zenon DEF Chosen
<1> QED BY <1>2, <1>3, Zenon DEF Chosen

(* The options assign different settings. *)
LEMMA SettingsDiffer ==
  ASSUME NEW o \in ValueOptions, NEW p \in ValueOptions, Setting(o) = Setting(p)
  PROVE  o = p
BY DEF ValueOptions, Setting

(* An option gives its setting the value, and no other. *)
LEMMA AssignSets ==
  ASSUME NEW Roots, NEW cfg \in Configs(Roots), NEW o \in ValueOptions, NEW s
  PROVE  /\ Assign(cfg, o, s)[Setting(o)] = Value(o, s)
         /\ \A p \in ValueOptions : p # o => Assign(cfg, o, s)[Setting(p)] = cfg[Setting(p)]
<1>1. DOMAIN cfg = {"port", "thread_count", "queue_capacity", "document_root"}
  BY DEF Configs
<1>2. \A p \in ValueOptions : Setting(p) \in DOMAIN cfg
  BY <1>1 DEF ValueOptions, Setting
<1> QED BY <1>2, SettingsDiffer, Zenon DEF Assign

(* A turn of the loop keeps its invariant. *)
LEMMA TurnMeans ==
  ASSUME NEW Roots, NEW cfg0, NEW argv \in Seq(Roots), NEW st \in LoopStates(Roots),
         NEW k \in 0..Len(argv), NEW n \in 0..Len(argv), n = k + 1, Reached(cfg0, argv, k, st)
  PROVE  Reached(cfg0, argv, n, LoopStep(argv, st, n))
<1> DEFINE N == Len(argv)
           next == LoopStep(argv, st, n)
<1> SUFFICES Reached(cfg0, argv, n, next)
  OBVIOUS
<1>1. N \in Nat /\ k \in Nat /\ n \in 1..N /\ k < N /\ \A i \in 1..n : i \in 1..k \/ i = n
  BY LenProperties
<1>2. n \in Options(argv) <=> ~(k \in Options(argv) /\ argv[k] \in ValueOptions)
  BY OptionsAlternate
<1>3. CASE Ended(argv, k, st.end)
  <2>1. PICK s \in 1..k : /\ s \in Stops(argv) /\ \A i \in 1..(s - 1) : i \notin Stops(argv)
                          /\ st.end = IF argv[s] \in {"--help", "-h"} THEN "exit" ELSE "terminate"
    BY <1>3 DEF Ended
  <2>2. st.end # "serve" /\ s \in 1..n
    BY <1>1, <2>1
  <2>3. next = st
    BY <2>2 DEF LoopStep
  <2>4. Ended(argv, n, st.end)
    BY <2>1, <2>2, Zenon DEF Ended
  <2> HIDE DEF next
  <2> QED BY <2>3, <2>4 DEF Reached
<1>4. CASE /\ st.end = "serve" /\ \A i \in 1..k : i \notin Stops(argv)
           /\ k < N => (st.skip <=> (k \in Options(argv) /\ argv[k] \in ValueOptions))
           /\ \A o \in ValueOptions : Chosen(cfg0, argv, k, st.cfg, o)
  <2>1. n \in Options(argv) <=> ~st.skip
    BY <1>1, <1>2, <1>4
  <2>2. \A o : n \in Uses(argv, o) <=> (n \in Options(argv) /\ argv[n] = o /\ n < N)
    BY DEF Uses
  <2>3. ASSUME n \notin Stops(argv), next.end = "serve", n < N => (next.skip <=> (n \in Options(argv) /\ argv[n] \in ValueOptions)),
               \A o \in ValueOptions : Chosen(cfg0, argv, n, next.cfg, o)
        PROVE  Reached(cfg0, argv, n, next)
    <3>1. \A i \in 1..n : i \notin Stops(argv)
      BY <1>1, <1>4, <2>3
    <3> HIDE DEF next
    <3> QED BY <2>3, <3>1, Zenon DEF Reached, N
  <2>4. ASSUME \A o \in ValueOptions : n \notin Uses(argv, o), next.cfg = st.cfg
        PROVE  \A o \in ValueOptions : Chosen(cfg0, argv, n, next.cfg, o)
    <3> HIDE DEF next
    <3> QED BY <1>1, <1>4, <2>4, ChosenStays
  <2>5. ASSUME n \in Stops(argv), next.end = IF argv[n] \in {"--help", "-h"} THEN "exit" ELSE "terminate"
        PROVE  Reached(cfg0, argv, n, next)
    <3>1. \A i \in 1..(n - 1) : i \notin Stops(argv)
      BY <1>1, <1>4
    <3>2. n \in 1..n
      BY <1>1
    <3> HIDE DEF next
    <3> QED BY <2>5, <3>1, <3>2, Zenon DEF Reached, Ended
  <2>6. CASE st.skip
    <3>1. next = [st EXCEPT !.skip = FALSE]
      BY <1>4, <2>6 DEF LoopStep
    <3>2. next.end = "serve" /\ next.skip = FALSE /\ next.cfg = st.cfg
      BY <1>4, <3>1 DEF LoopStates
    <3>3. n \notin Options(argv)
      BY <2>1, <2>6
    <3>4. n \notin Stops(argv)
      BY <3>3 DEF Stops
    <3> HIDE DEF next
    <3> QED BY <2>2, <2>3, <2>4, <3>2, <3>3, <3>4
  <2>7. CASE ~st.skip
    <3>1. n \in Options(argv)
      BY <2>1, <2>7
    <3>2. CASE argv[n] \in ValueOptions /\ n < N
      <4>1. PICK o \in ValueOptions : o = argv[n]
        BY <3>2
      <4>2. PICK v : v = argv[n + 1]
        OBVIOUS
      <4>3. argv[n] \notin {"--help", "-h"}
        BY <3>2 DEF ValueOptions
      <4>4. next = Take(st, o, v)
        BY <1>4, <2>7, <3>2, <4>1, <4>2, <4>3 DEF LoopStep
      <4>5. CASE Converts(o, v)
        <5>1. next = [st EXCEPT !.cfg = Assign(st.cfg, o, v), !.skip = TRUE]
          BY <4>4, <4>5 DEF Take
        <5>2. next.end = "serve" /\ next.skip = TRUE /\ next.cfg = Assign(st.cfg, o, v)
          BY <1>4, <5>1 DEF LoopStates
        <5>3. n \notin Stops(argv)
          BY <4>1, <4>2, <4>3, <4>5 DEF Stops
        <5>4. st.cfg \in Configs(Roots)
          BY DEF LoopStates
        <5> HIDE DEF next
        <5>5. ASSUME NEW p \in ValueOptions PROVE Chosen(cfg0, argv, n, next.cfg, p)
          <6>1. CASE p = o
            <7>1. n \in Uses(argv, p) /\ next.cfg[Setting(p)] = Value(p, argv[n + 1])
              BY <2>2, <3>1, <3>2, <4>1, <4>2, <5>2, <5>4, <6>1, AssignSets
            <7>2. n \in 1..n /\ \A j \in (n + 1)..n : j \notin Uses(argv, p)
              BY <1>1
            <7> QED BY <7>1, <7>2, Zenon DEF Chosen
          <6>2. CASE p # o
            <7>1. n \notin Uses(argv, p) /\ next.cfg[Setting(p)] = st.cfg[Setting(p)]
              BY <2>2, <4>1, <5>2, <5>4, <6>2, AssignSets
            <7> QED BY <1>1, <1>4, <7>1, ChosenStays
          <6> QED BY <6>1, <6>2
        <5> QED BY <2>3, <3>1, <3>2, <5>2, <5>3, <5>5
      <4>6. CASE ~Converts(o, v)
        <5>1. next = [st EXCEPT !.end = "terminate"]
          BY <4>4, <4>6 DEF Take
        <5>2. next.end = "terminate"
          BY <5>1 DEF LoopStates
        <5>3. n \in Stops(argv)
          BY <3>1, <3>2, <4>1, <4>2, <4>6 DEF Stops
        <5> HIDE DEF next
        <5> QED BY <2>5, <4>3, <5>2, <5>3
      <4> QED BY <4>5, <4>6
    <3>3. CASE ~(argv[n] \in ValueOptions /\ n < N) /\ argv[n] \in {"--help", "-h"}
      <4>1. next = [st EXCEPT !.end = "exit"]
        BY <1>4, <2>7, <3>3 DEF LoopStep
      <4>2. next.end = "exit"
        BY <4>1 DEF LoopStates
      <4>3. n \in Stops(argv)
        BY <3>1, <3>3 DEF Stops
      <4> HIDE DEF next
      <4> QED BY <2>5, <3>3, <4>2, <4>3
    <3>4. CASE ~(argv[n] \in ValueOptions /\ n < N) /\ argv[n] \notin {"--help", "-h"}
      <4>1. next = st
        BY <1>4, <2>7, <3>4 DEF LoopStep
      <4>2. n \notin Stops(argv)
        BY <3>4 DEF Stops
      <4>3. \A o \in ValueOptions : n \notin Uses(argv, o)
        BY <2>2, <3>4
      <4>4. n < N => (st.skip <=> (n \in Options(argv) /\ argv[n] \in ValueOptions))
        BY <2>7, <3>4
      <4> HIDE DEF next
      <4> QED BY <1>4, <2>3, <2>4, <4>1, <4>2, <4>3, <4>4
    <3> QED BY <3>2, <3>3, <3>4
  <2> QED BY <2>6, <2>7
<1> QED BY <1>3, <1>4, Zenon DEF Reached, N

(* The loop ends as the command line says, with the settings it says. *)
LEMMA LoopMeans ==
  ASSUME NEW Roots, NEW argv \in Seq(Roots), NEW cfg0 \in Configs(Roots)
  PROVE  Reached(cfg0, argv, Len(argv), Loop(cfg0, argv))
<1> DEFINE N == Len(argv)
<1>1. N \in Nat
  BY LenProperties
<1>2. PICK g : Turns(Roots, cfg0, argv, g)
  BY LoopTurns
<1>3. /\ g \in [0..N -> LoopStates(Roots)] /\ Loop(cfg0, argv) = g[N]
      /\ g[0] = [cfg |-> cfg0, skip |-> FALSE, end |-> "serve"]
      /\ \A k, n \in 0..N : n = k + 1 => g[n] = LoopStep(argv, g[k], n)
  BY <1>2 DEF Turns
<1> DEFINE S == {k \in Nat : k <= N => Reached(cfg0, argv, k, g[k])}
<1>4. 0 \in S
  <2>1. g[0].end = "serve" /\ g[0].skip = FALSE /\ g[0].cfg = cfg0 /\ 1..0 = {}
    BY <1>3
  <2>2. 0 \notin Options(argv)
    BY OptionsAlternate
  <2>3. \A o \in ValueOptions : Chosen(cfg0, argv, 0, g[0].cfg, o)
    BY <2>1 DEF Chosen
  <2>4. Reached(cfg0, argv, 0, g[0])
    BY <2>1, <2>2, <2>3 DEF Reached
  <2> QED BY <2>4
<1>5. ASSUME NEW k \in Nat, k \in S PROVE k + 1 \in S
  <2> SUFFICES ASSUME k + 1 <= N PROVE Reached(cfg0, argv, k + 1, g[k + 1])
    OBVIOUS
  <2>1. k \in 0..N /\ k + 1 \in 0..N /\ Reached(cfg0, argv, k, g[k])
    BY <1>1, <1>5
  <2>2. g[k + 1] = LoopStep(argv, g[k], k + 1) /\ g[k] \in LoopStates(Roots)
    BY <1>3, <2>1
  <2> QED BY <2>1, <2>2, TurnMeans
<1>6. \A k \in Nat : k \in S
  <2> HIDE DEF S
  <2> QED BY <1>4, <1>5, NatSetInduction
<1> QED BY <1>1, <1>3, <1>6

(* Config::parse() finds what the command line means. *)
ParsedAs(env, argv, r) ==
  /\ r.end = MeansEnd(argv)
  /\ r.end = "serve" =>
       \A o \in ValueOptions : Unread(env, argv, o) \/ AsMeant(r.cfg, env, argv, o)

(* It does so for every environment and every command line. *)
LEMMA ParseMeans ==
  ASSUME NEW env, NEW Roots, NEW argv \in Seq(Roots), Defaults.document_root \in Roots
  PROVE  ParsedAs(env, argv, parse(env, argv))
<1> DEFINE N == Len(argv)
<1>1. PICK c \in Configs(Roots) : c = Environment(env)
  BY EnvironmentTyped
<1>2. PICK r : r = Loop(c, argv)
  OBVIOUS
<1>3. r \in LoopStates(Roots)
  <2>1. PICK g : Turns(Roots, c, argv, g)
    BY LoopTurns
  <2>2. N \in 0..N
    BY LenProperties
  <2> QED BY <1>2, <2>1, <2>2 DEF Turns
<1>4. Reached(c, argv, N, r)
  BY <1>2, LoopMeans
<1>5. PICK p : p = parse(env, argv)
  OBVIOUS
<1>6. p = [cfg |-> [r.cfg EXCEPT !.thread_count = IF @ = 0 THEN 2 ELSE @], end |-> r.end]
  BY <1>1, <1>2, <1>5, Zenon DEF parse
<1>7. Stops(argv) \subseteq 1..N /\ \A o : Uses(argv, o) \subseteq 1..N
  BY OptionsAlternate DEF Stops, Uses
<1>8. N \in Nat
  BY LenProperties
<1>9. CASE Ended(argv, N, r.end)
  <2>1. PICK s \in 1..N : /\ s \in Stops(argv) /\ \A i \in 1..(s - 1) : i \notin Stops(argv)
                          /\ r.end = IF argv[s] \in {"--help", "-h"} THEN "exit" ELSE "terminate"
    BY <1>9 DEF Ended
  <2>2. \A j \in Stops(argv) : s <= j
    BY <1>7, <1>8, <2>1
  <2>3. (CHOOSE i \in Stops(argv) : \A j \in Stops(argv) : i <= j) = s
    <3>1. \A i \in Stops(argv) : (\A j \in Stops(argv) : i <= j) => i = s
      BY <1>7, <1>8, <2>1, <2>2
    <3> QED BY <2>1, <2>2, <3>1, Zenon
  <2>4. MeansEnd(argv) = r.end
    BY <2>1, <2>3 DEF MeansEnd
  <2> QED BY <1>5, <1>6, <2>1, <2>4 DEF ParsedAs
<1>10. CASE /\ r.end = "serve" /\ \A i \in 1..N : i \notin Stops(argv)
            /\ \A o \in ValueOptions : Chosen(c, argv, N, r.cfg, o)
  <2>1. MeansEnd(argv) = "serve"
    BY <1>7, <1>10 DEF MeansEnd
  <2>2. ASSUME NEW o \in ValueOptions, ~Unread(env, argv, o)
        PROVE  r.cfg[Setting(o)] \in Means(env, argv, o)
    <3>1. PICK U : U = Uses(argv, o)
      OBVIOUS
    <3>2. U # {} => Means(env, argv, o) = {Value(o, argv[(CHOOSE i \in U : \A j \in U : i >= j) + 1])}
      BY <3>1 DEF Means
    <3>3. CASE (\A i \in 1..N : i \notin U) /\ r.cfg[Setting(o)] = c[Setting(o)]
      <4>1. U = {}
        BY <1>7, <3>1, <3>3
      <4>2. o = "--threads" => Given(env, o) = {}
        BY <2>2, <3>1, <4>1 DEF Unread
      <4>3. Environment(env)[Setting(o)] \in Means(env, argv, o)
        BY <3>1, <4>1, <4>2, EnvironmentMeans, Zenon DEF Means
      <4> QED BY <1>1, <3>3, <4>3
    <3>4. CASE \E i \in 1..N : /\ i \in U /\ \A j \in (i + 1)..N : j \notin U
                               /\ r.cfg[Setting(o)] = Value(o, argv[i + 1])
      <4>1. PICK i \in 1..N : /\ i \in U /\ \A j \in (i + 1)..N : j \notin U
                              /\ r.cfg[Setting(o)] = Value(o, argv[i + 1])
        BY <3>4
      <4>2. \A j \in U : i >= j
        BY <1>7, <1>8, <3>1, <4>1
      <4>3. \A x \in U : (\A j \in U : x >= j) => x = i
        BY <1>7, <1>8, <3>1, <4>1, <4>2
      <4>4. (CHOOSE x \in U : \A j \in U : x >= j) = i
        BY <4>1, <4>2, <4>3, Zenon
      <4> QED BY <3>2, <4>1, <4>4, Zenon
    <3> QED BY <1>10, <3>1, <3>3, <3>4, Zenon DEF Chosen
  <2>3. p.end = "serve" /\ p.cfg = [r.cfg EXCEPT !.thread_count = IF @ = 0 THEN 2 ELSE @]
    BY <1>6, <1>10
  <2>4. ASSUME NEW o \in ValueOptions
        PROVE  Unread(env, argv, o) \/ AsMeant(p.cfg, env, argv, o)
    <3> SUFFICES ASSUME ~Unread(env, argv, o) PROVE AsMeant(p.cfg, env, argv, o)
      OBVIOUS
    <3>1. PICK m \in Means(env, argv, o) : m = r.cfg[Setting(o)]
      BY <2>2
    <3>2. r.cfg \in Configs(Roots)
      BY <1>3 DEF LoopStates
    <3>3. p.cfg[Setting(o)] = IF o = "--threads" /\ m = 0 THEN 2 ELSE m
      <4>1. CASE o = "--threads"
        <5>1. Setting(o) = "thread_count"
          BY <4>1 DEF Setting
        <5> QED BY <2>3, <3>1, <3>2, <4>1, <5>1 DEF Configs
      <4>2. CASE o # "--threads"
        <5>1. Setting(o) \in DOMAIN r.cfg /\ Setting(o) # "thread_count"
          BY <3>2, <4>2 DEF Setting, ValueOptions, Configs
        <5> QED BY <2>3, <3>1, <3>2, <4>2, <5>1
      <4> QED BY <4>1, <4>2
    <3> QED BY <3>1, <3>3, Zenon DEF AsMeant
  <2> QED BY <1>5, <2>1, <2>3, <2>4 DEF ParsedAs
<1> QED BY <1>4, <1>9, <1>10, Zenon DEF Reached

-----------------------------------------------------------------------------
(***************************************************************************)
(* url_decode()                                                            *)
(***************************************************************************)
(* f[i] is what a text of length L holds from position i on, if there is   *)
(* out[i] at i and the next piece skip[i] positions further on.  (Up to m  *)
(* positions from the end.)                                                *)
Rewound(C, out, skip, L, m, f) ==
  /\ f \in [1..(L + 1) -> Seq(C)]
  /\ f[L + 1] = <<>>
  /\ \A i \in 1..L : L < i + m => f[i] = out[i] \o f[i + skip[i]]

(* A function that is defined from the end of a text backwards exists. *)
LEMMA Rewinds ==
  ASSUME NEW C, NEW L \in Nat, NEW out \in [1..L -> Seq(C)], NEW skip \in [1..L -> Nat],
         \A i \in 1..L : i + skip[i] \in (i + 1)..(L + 1)
  PROVE  \E f : Rewound(C, out, skip, L, L, f)
<1> DEFINE S == {m \in Nat : m <= L => \E f : Rewound(C, out, skip, L, m, f)}
<1>1. 0 \in S
  <2> DEFINE f == [i \in 1..(L + 1) |-> <<>>]
  <2>1. f \in [1..(L + 1) -> Seq(C)] /\ f[L + 1] = <<>>
    BY EmptySeq
  <2> HIDE DEF f
  <2>2. \A i \in 1..L : ~(L < i + 0)
    OBVIOUS
  <2>3. Rewound(C, out, skip, L, 0, f)
    BY <2>1, <2>2, Zenon DEF Rewound
  <2> QED BY <2>3
<1>2. ASSUME NEW m \in Nat, m \in S PROVE m + 1 \in S
  <2> SUFFICES ASSUME m + 1 <= L PROVE \E f : Rewound(C, out, skip, L, m + 1, f)
    OBVIOUS
  <2>1. PICK f : Rewound(C, out, skip, L, m, f)
    BY <1>2
  <2>2. PICK j : j = L - m
    OBVIOUS
  <2>3. j \in 1..L /\ j # L + 1 /\ j \in 1..(L + 1)
    BY <2>2
  <2>4. f \in [1..(L + 1) -> Seq(C)] /\ f[L + 1] = <<>>
    BY <2>1 DEF Rewound
  <2>5. PICK v : v = out[j] \o f[j + skip[j]]
    OBVIOUS
  <2>6. v \in Seq(C)
    <3>1. j + skip[j] \in 1..(L + 1)
      BY <2>3
    <3>2. out[j] \in Seq(C) /\ f[j + skip[j]] \in Seq(C)
      BY <2>3, <2>4, <3>1
    <3> QED BY <2>5, <3>2, ConcatProperties
  <2> DEFINE h == [f EXCEPT ![j] = v]
  <2>7. h \in [1..(L + 1) -> Seq(C)] /\ h[L + 1] = <<>> /\ h[j] = v
    BY <2>3, <2>4, <2>6
  <2>8. \A i \in 1..(L + 1) : i # j => h[i] = f[i]
    BY <2>4
  <2> HIDE DEF h
  <2>9. ASSUME NEW i \in 1..L, L < i + (m + 1) PROVE h[i] = out[i] \o h[i + skip[i]]
    <3>1. i + skip[i] \in 1..(L + 1) /\ i + skip[i] # j
      <4>1. i + skip[i] \in (i + 1)..(L + 1)
        OBVIOUS
      <4>2. i >= j
        BY <2>2, <2>9
      <4>3. PICK x : x = i + skip[i]
        OBVIOUS
      <4>4. x \in (i + 1)..(L + 1)
        BY <4>1, <4>3
      <4>5. x \in 1..(L + 1) /\ x # j
        BY <2>3, <4>2, <4>4
      <4> QED BY <4>3, <4>5, Zenon
    <3>2. h[i + skip[i]] = f[i + skip[i]]
      BY <2>8, <3>1, Zenon
    <3>3. CASE i = j
      BY <2>5, <2>7, <3>2, <3>3, Zenon
    <3>4. CASE i # j
      <4>1. L < i + m /\ i \in 1..(L + 1)
        BY <2>2, <2>9, <3>4
      <4>2. f[i] = out[i] \o f[i + skip[i]]
        BY <2>1, <4>1, Zenon DEF Rewound
      <4>3. h[i] = f[i]
        BY <2>8, <3>4, <4>1
      <4> QED BY <3>2, <4>2, <4>3, Zenon
    <3> QED BY <3>3, <3>4
  <2>10. Rewound(C, out, skip, L, m + 1, h)
    BY <2>7, <2>9, Zenon DEF Rewound
  <2> QED BY <2>10
<1>3. \A m \in Nat : m \in S
  <2> HIDE DEF S
  <2> QED BY <1>1, <1>2, NatSetInduction
<1> QED BY <1>3

(* The piece that url_decode() finds at position i, and where it goes on. *)
Piece(s, i) ==
  IF Escape(s, i) # {} THEN <<Char(CHOOSE n \in Escape(s, i) : TRUE)>>
                       ELSE <<IF s[i] = "+" THEN " " ELSE s[i]>>
Width(s, i) == IF Escape(s, i) # {} THEN 3 ELSE 1

Decoding(s, d) ==
  /\ url_decode(s) = d[1]
  /\ d[Len(s) + 1] = <<>>
  /\ \A i \in 1..Len(s) : d[i] = Piece(s, i) \o d[i + Width(s, i)]

(* The recursion of url_decode() has a solution, for every text. *)
LEMMA Decodings ==
  ASSUME NEW C, NEW s \in Seq(C)
  PROVE  \E d : Decoding(s, d)
<1> DEFINE L == Len(s)
           B == {Char(CHOOSE n \in Escape(s, i) : TRUE) : i \in 1..L}
                  \cup {IF s[i] = "+" THEN " " ELSE s[i] : i \in 1..L}
           out == [i \in 1..L |-> Piece(s, i)]
           skip == [i \in 1..L |-> Width(s, i)]
           Step(f) == [i \in 1..(L + 1) |->
                        IF i > L THEN <<>>
                        ELSE IF Escape(s, i) # {}
                             THEN <<Char(CHOOSE n \in Escape(s, i) : TRUE)>> \o f[i + 3]
                             ELSE <<IF s[i] = "+" THEN " " ELSE s[i]>> \o f[i + 1]]
           d == CHOOSE d : d = Step(d)
<1>1. L \in Nat
  BY LenProperties
<1>2. url_decode(s) = d[1]
  BY Zenon DEF url_decode
<1>3. ASSUME NEW i \in 1..L PROVE i + Width(s, i) \in (i + 1)..(L + 1) /\ Width(s, i) \in Nat
  <2>1. CASE Escape(s, i) # {}
    <3>1. i + 2 <= L
      BY <2>1 DEF Escape
    <3> QED BY <1>1, <2>1, <3>1 DEF Width
  <2>2. CASE Escape(s, i) = {}
    BY <1>1, <2>2 DEF Width
  <2> QED BY <2>1, <2>2
<1>4. ASSUME NEW i \in 1..L PROVE Piece(s, i) \in Seq(B)
  <2>1. PICK c, e : c = Char(CHOOSE n \in Escape(s, i) : TRUE) /\ e = IF s[i] = "+" THEN " " ELSE s[i]
    OBVIOUS
  <2>2. c \in B /\ e \in B
    BY <2>1, Zenon
  <2>3. Piece(s, i) = <<c>> \/ Piece(s, i) = <<e>>
    BY <2>1, Zenon DEF Piece
  <2>4. <<c>> \in Seq(B) /\ <<e>> \in Seq(B)
    <3> HIDE DEF B
    <3> QED BY <2>2
  <2> QED BY <2>3, <2>4, Zenon
<1>5. ASSUME NEW f, NEW i \in 1..L
      PROVE  (IF Escape(s, i) # {}
              THEN <<Char(CHOOSE n \in Escape(s, i) : TRUE)>> \o f[i + 3]
              ELSE <<IF s[i] = "+" THEN " " ELSE s[i]>> \o f[i + 1]) = Piece(s, i) \o f[i + Width(s, i)]
  <2>1. CASE Escape(s, i) # {}
    <3>1. Piece(s, i) = <<Char(CHOOSE n \in Escape(s, i) : TRUE)>>
      BY <2>1, Zenon DEF Piece
    <3>2. Width(s, i) = 3
      BY <2>1, Zenon DEF Width
    <3> QED BY <2>1, <3>1, <3>2, Zenon
  <2>2. CASE Escape(s, i) = {}
    BY <2>2, Zenon DEF Piece, Width
  <2> QED BY <2>1, <2>2, Zenon
<1>6. ASSUME NEW f PROVE Step(f) = [i \in 1..(L + 1) |-> IF i > L THEN <<>> ELSE Piece(s, i) \o f[i + Width(s, i)]]
  <2>1. ASSUME NEW i \in 1..(L + 1), ~(i > L) PROVE i \in 1..L
    BY <1>1, <2>1
  <2> QED BY <1>5, <2>1, Zenon
<1>7. out \in [1..L -> Seq(B)] /\ skip \in [1..L -> Nat] /\ \A i \in 1..L : i + skip[i] \in (i + 1)..(L + 1)
  <2> HIDE DEF B, L, Step
  <2> QED BY <1>3, <1>4
<1> HIDE DEF L, B
<1>8. PICK f : Rewound(B, out, skip, L, L, f)
  <2> HIDE DEF out, skip
  <2> QED BY <1>1, <1>7, Rewinds
<1>9. f = Step(f)
  <2>1. f \in [1..(L + 1) -> Seq(B)] /\ f[L + 1] = <<>>
    BY <1>8 DEF Rewound
  <2>2. ASSUME NEW i \in 1..L PROVE f[i] = Piece(s, i) \o f[i + Width(s, i)]
    <3>1. L < i + L
      BY <1>1
    <3>2. f[i] = out[i] \o f[i + skip[i]]
      <4> HIDE DEF out, skip
      <4> QED BY <1>8, <3>1, Zenon DEF Rewound
    <3>3. out[i] = Piece(s, i) /\ skip[i] = Width(s, i)
      OBVIOUS
    <3> HIDE DEF out, skip
    <3> QED BY <3>2, <3>3, Zenon
  <2>3. ASSUME NEW i \in 1..(L + 1)
        PROVE  f[i] = IF i > L THEN <<>> ELSE Piece(s, i) \o f[i + Width(s, i)]
    <3>1. (i \in 1..L /\ ~(i > L)) \/ (i = L + 1 /\ i > L)
      <4> HIDE DEF Step, out, skip
      <4> QED BY <1>1
    <3> QED BY <2>1, <2>2, <3>1, Zenon
  <2>4. f = [i \in 1..(L + 1) |-> f[i]]
    BY <2>1
  <2> HIDE DEF Step, out, skip
  <2> QED BY <1>6, <2>3, <2>4, Zenon
<1>10. d = Step(d)
  <2> HIDE DEF Step
  <2> QED BY <1>9, Zenon
<1>11. d = [i \in 1..(L + 1) |-> IF i > L THEN <<>> ELSE Piece(s, i) \o d[i + Width(s, i)]]
  <2> HIDE DEF Step, d
  <2> QED BY <1>6, <1>10, Zenon
<1> HIDE DEF d
<1>12. ASSUME NEW i \in 1..(L + 1) PROVE d[i] = IF i > L THEN <<>> ELSE Piece(s, i) \o d[i + Width(s, i)]
  BY <1>11, Zenon
<1>13. d[L + 1] = <<>>
  <2>1. L + 1 \in 1..(L + 1) /\ L + 1 > L
    BY <1>1
  <2> QED BY <1>12, <2>1, Zenon
<1>14. ASSUME NEW i \in 1..L PROVE d[i] = Piece(s, i) \o d[i + Width(s, i)]
  <2>1. i \in 1..(L + 1) /\ ~(i > L)
    BY <1>1
  <2> QED BY <1>12, <2>1, Zenon
<1> QED BY <1>2, <1>13, <1>14, Zenon DEF Decoding, L

(* The two digits that spell a character, and the character they spell. *)
Spells(c, x, y) ==
  /\ x = HexDigits[(Ascii[c] \div 16) + 1] /\ y = HexDigits[(Ascii[c] % 16) + 1]
  /\ HexValue(x, y) = {Ascii[c]}
  /\ Char(Ascii[c]) = c

(* The k-th digit has the value k - 1. *)
LEMMA HexOfDigit ==
  ASSUME NEW k \in 1..16
  PROVE  HexDigits[k] \in DOMAIN Hex /\ Hex[HexDigits[k]] = k - 1
<1>1. \A i, j \in 1..16 : HexDigits[i] = HexDigits[j] => i = j
  BY DEF HexDigits
<1>2. PICK c : c = HexDigits[k]
  OBVIOUS
<1>3. c \in ToSet(HexDigits)
  BY <1>2 DEF ToSet, HexDigits
<1>4. (CHOOSE i \in 1..16 : HexDigits[i] = c) = k
  BY <1>1, <1>2
<1> QED BY <1>2, <1>3, <1>4 DEF Hex

(* No two characters have the same code, and two digits are enough. *)
LEMMA AsciiSpelled ==
  ASSUME NEW c \in DOMAIN Ascii
  PROVE  /\ Ascii[c] \in 0..127
         /\ \A b \in DOMAIN Ascii : Ascii[b] = Ascii[c] => b = c
<1>1. DOMAIN Ascii = {"NUL", " ", "%", "+", ".", "/", "\\", "a"}
  BY Zenon DEF Ascii
<1>2. Ascii["NUL"] = 0
  BY DEF Ascii
<1>3. Ascii[" "] = 32
  BY DEF Ascii
<1>4. Ascii["%"] = 37
  BY DEF Ascii
<1>5. Ascii["+"] = 43
  BY DEF Ascii
<1>6. Ascii["."] = 46
  BY DEF Ascii
<1>7. Ascii["/"] = 47
  BY DEF Ascii
<1>8. Ascii["\\"] = 92
  BY DEF Ascii
<1>9. Ascii["a"] = 97
  BY DEF Ascii
<1>10. PICK space : space = " "
  OBVIOUS
<1>11. /\ DOMAIN Ascii = {"NUL", space, "%", "+", ".", "/", "\\", "a"}
       /\ Ascii[space] = 32
       /\ space \notin {"NUL", "%", "+", ".", "/", "\\", "a"}
  BY <1>1, <1>3, <1>10, Zenon
<1> QED BY <1>2, <1>4, <1>5, <1>6, <1>7, <1>8, <1>9, <1>11

(* The two digits a client writes are read back as the character. *)
LEMMA DigitsSpell ==
  ASSUME NEW c \in DOMAIN Ascii
  PROVE  \E x, y : Spells(c, x, y)
<1>1. PICK n : n = Ascii[c]
  OBVIOUS
<1>2. n \in 0..127
  BY <1>1, AsciiSpelled
<1>3. PICK k, l : k = (n \div 16) + 1 /\ l = (n % 16) + 1
  OBVIOUS
<1>4. k \in 1..16 /\ l \in 1..16 /\ n = 16 * (k - 1) + (l - 1)
  BY <1>2, <1>3
<1>5. PICK x, y : x = HexDigits[k] /\ y = HexDigits[l]
  OBVIOUS
<1>6. x \in DOMAIN Hex /\ y \in DOMAIN Hex /\ Hex[x] = k - 1 /\ Hex[y] = l - 1
  BY <1>4, <1>5, HexOfDigit
<1>7. HexValue(x, y) = {16 * Hex[x] + Hex[y]}
  <2>1. \A i \in 1..16 : HexDigits[i] # "+"
    BY DEF HexDigits
  <2>2. x # "+"
    BY <1>4, <1>5, <2>1
  <2> HIDE DEF HexDigits
  <2> QED BY <1>6, <2>2 DEF HexValue
<1>8. HexValue(x, y) = {n}
  BY <1>4, <1>6, <1>7
<1>9. Char(n) = c
  <2>1. \E b \in DOMAIN Ascii : Ascii[b] = n
    BY <1>1
  <2>2. PICK e : e = CHOOSE b \in DOMAIN Ascii : Ascii[b] = n
    OBVIOUS
  <2>3. e \in DOMAIN Ascii /\ Ascii[e] = n
    BY <2>1, <2>2, Zenon
  <2>4. e = c
    BY <1>1, <2>3, AsciiSpelled
  <2> QED BY <2>1, <2>2, <2>4, Zenon DEF Char
<1> QED BY <1>1, <1>3, <1>5, <1>8, <1>9, Zenon DEF Spells

(* A text of one character. *)
LEMMA OneLong == ASSUME NEW C, NEW c \in C PROVE <<c>> \in Seq(C)
OBVIOUS

(* A text of three characters. *)
LEMMA ThreeLong == ASSUME NEW C, NEW a \in C, NEW b \in C, NEW c \in C PROVE <<a, b, c>> \in Seq(C)
OBVIOUS

(* url_decode() is the inverse of a client's encoding, for every name and  *)
(* every choice of the characters that are encoded, as long as "%" and "+" *)
(* are.                                                                    *)
LEMMA DecodeOfEncode ==
  ASSUME NEW C, NEW name \in Seq(C), NEW positions,
         \A i \in positions : name[i] \in DOMAIN Ascii,
         \A i \in DOMAIN name : name[i] \in {"%", "+"} => i \in positions
  PROVE  url_decode(Encode(name, positions)) = name
<1> DEFINE N == Len(name)
           part == [i \in DOMAIN name |->
                      IF i \in positions
                      THEN <<"%", HexDigits[(Ascii[name[i]] \div 16) + 1], HexDigits[(Ascii[name[i]] % 16) + 1]>>
                      ELSE <<name[i]>>]
           B == C \cup {"%"} \cup {HexDigits[(Ascii[name[i]] \div 16) + 1] : i \in 1..N}
                  \cup {HexDigits[(Ascii[name[i]] % 16) + 1] : i \in 1..N}
           T == FlattenSeq(part)
<1>1. N \in Nat /\ DOMAIN name = 1..N /\ \A i \in 1..N : name[i] \in C
  BY LenProperties
<1>2. Encode(name, positions) = T
  BY Zenon DEF Encode
<1>3. ASSUME NEW i \in 1..N, i \in positions
      PROVE  \E x, y \in B : part[i] = <<"%", x, y>> /\ Spells(name[i], x, y)
  <2>1. PICK x, y : Spells(name[i], x, y)
    BY <1>3, DigitsSpell
  <2>2. x = HexDigits[(Ascii[name[i]] \div 16) + 1] /\ y = HexDigits[(Ascii[name[i]] % 16) + 1]
    BY <2>1, Zenon DEF Spells
  <2>3. part[i] = <<"%", x, y>>
    BY <1>1, <1>3, <2>2, Zenon
  <2>4. x \in B /\ y \in B
    BY <2>2, Zenon
  <2> QED BY <2>1, <2>3, <2>4, Zenon
<1>4. ASSUME NEW i \in 1..N, i \notin positions PROVE part[i] = <<name[i]>> /\ name[i] \in B
  BY <1>1, <1>4
<1>5. "%" \in B /\ DOMAIN part = 1..N /\ part = [i \in 1..N |-> part[i]]
  BY <1>1
<1> HIDE DEF N, part, B
<1>6. ASSUME NEW i \in 1..N PROVE part[i] \in Seq(B)
  <2>1. CASE i \in positions
    <3>1. PICK x, y \in B : part[i] = <<"%", x, y>>
      BY <1>3, <2>1
    <3> QED BY <1>5, <3>1, ThreeLong
  <2>2. CASE i \notin positions
    BY <1>4, <2>2, OneLong
  <2> QED BY <2>1, <2>2
<1>7. part \in Seq(Seq(B)) /\ Len(part) = N
  BY <1>1, <1>5, <1>6
<1>8. PICK g : Chain(B, part, g)
  BY <1>7, Flattened
<1>9. T \in Seq(B) /\ Len(T) \in Nat /\ \A k \in 0..N : Len(g[k]) \in Nat
  <2>1. \A k \in 0..N : g[k] \in Seq(B) /\ T \in Seq(B)
    BY <1>7, <1>8, ChainPrefix
  <2>2. 0 \in 0..N
    BY <1>1
  <2> QED BY <2>1, <2>2, LenProperties
<1>10. g[0] = <<>> /\ T = g[N]
  BY <1>7, <1>8 DEF Chain
<1>11. ASSUME NEW k \in 0..N, NEW n \in 0..N, n = k + 1
       PROVE  /\ Len(g[n]) = Len(g[k]) + Len(part[n]) /\ Len(g[n]) <= Len(T)
              /\ \A y \in 1..Len(part[n]) : T[Len(g[k]) + y] = part[n][y]
  <2>1. k \in 0..Len(part) /\ n \in 0..Len(part)
    BY <1>7
  <2>2. ChainLink(part, g, k, n)
    BY <1>7, <1>8, <1>11, <2>1, ChainLinks
  <2> QED BY <2>2, Zenon DEF ChainLink
<1> HIDE DEF T
<1>12. PICK d : Decoding(T, d)
  BY <1>9, Decodings
<1> DEFINE From(k) == SubSeq(name, k + 1, N)
           S == {m \in Nat : m <= N => d[Len(g[N - m]) + 1] = From(N - m)}
<1>13. 0 \in S
  <2>1. d[Len(T) + 1] = <<>>
    BY <1>12, Zenon DEF Decoding
  <2>2. From(N) = <<>>
    BY <1>1, SubSeqEmpty
  <2>3. N - 0 = N
    BY <1>1
  <2> HIDE DEF From
  <2> QED BY <1>10, <2>1, <2>2, <2>3
<1>14. ASSUME NEW m \in Nat, m \in S PROVE m + 1 \in S
  <2> SUFFICES ASSUME m + 1 <= N PROVE d[Len(g[N - (m + 1)]) + 1] = From(N - (m + 1))
    OBVIOUS
  <2>1. PICK k, n : n = N - m /\ k = N - (m + 1)
    OBVIOUS
  <2>2. n \in 1..N /\ n \in 0..N /\ k \in 0..N /\ n = k + 1
    BY <1>1, <2>1
  <2>3. d[Len(g[n]) + 1] = From(n)
    BY <1>1, <1>14, <2>1
  <2>4. PICK a, p : a = Len(g[k]) /\ p = part[n]
    OBVIOUS
  <2>5. /\ a \in Nat /\ Len(g[n]) = a + Len(p) /\ Len(g[n]) <= Len(T)
        /\ \A y \in 1..Len(p) : T[a + y] = p[y]
    BY <1>9, <1>11, <2>2, <2>4, Zenon
  <2>6. PICK i : i = a + 1
    OBVIOUS
  <2>7. PICK c : c = name[n]
    OBVIOUS
  <2>8. Piece(T, i) = <<c>> /\ i + Width(T, i) = Len(g[n]) + 1 /\ i \in 1..Len(T)
    <3>1. CASE n \in positions
      <4>1. PICK x, y \in B : p = <<"%", x, y>> /\ Spells(c, x, y)
        BY <1>3, <2>2, <2>4, <2>7, <3>1
      <4>2. Len(p) = 3 /\ p[1] = "%" /\ p[2] = x /\ p[3] = y
        BY <4>1
      <4>3. PICK b : b = Len(g[n])
        OBVIOUS
      <4>4. b = a + 3 /\ b <= Len(T)
        BY <2>5, <4>2, <4>3
      <4>5. T[a + 1] = "%" /\ T[a + 2] = x /\ T[a + 3] = y
        <5>1. 1 \in 1..Len(p) /\ 2 \in 1..Len(p) /\ 3 \in 1..Len(p)
          BY <4>2
        <5> QED BY <2>5, <4>2, <5>1, Zenon
      <4>6. i + 1 = a + 2 /\ i + 2 = a + 3 /\ i + 2 <= Len(T) /\ i \in 1..Len(T) /\ i + 3 = b + 1
        BY <1>9, <2>5, <2>6, <4>4
      <4>7. Escape(T, i) = HexValue(x, y)
        BY <2>6, <4>5, <4>6, Zenon DEF Escape
      <4>8. Escape(T, i) = {Ascii[c]} /\ Char(Ascii[c]) = c
        BY <4>1, <4>7, Zenon DEF Spells
      <4>9. (CHOOSE z \in Escape(T, i) : TRUE) = Ascii[c] /\ Escape(T, i) # {}
        BY <4>8
      <4>10. Piece(T, i) = <<c>>
        BY <4>8, <4>9, Zenon DEF Piece
      <4>11. Width(T, i) = 3
        BY <4>9, Zenon DEF Width
      <4> QED BY <4>3, <4>6, <4>10, <4>11
    <3>2. CASE n \notin positions
      <4>1. p = <<c>>
        BY <1>4, <2>2, <2>4, <2>7, <3>2
      <4>2. Len(p) = 1 /\ p[1] = c
        BY <4>1
      <4>3. PICK b : b = Len(g[n])
        OBVIOUS
      <4>4. b = a + 1 /\ b <= Len(T)
        BY <2>5, <4>2, <4>3
      <4>5. T[i] = c
        <5>1. 1 \in 1..Len(p)
          BY <4>2
        <5> QED BY <2>5, <2>6, <4>2, <5>1, Zenon
      <4>6. i \in 1..Len(T) /\ i + 1 = b + 1
        BY <1>9, <2>5, <2>6, <4>4
      <4>7. c # "%" /\ c # "+"
        BY <1>1, <2>2, <2>7, <3>2
      <4>8. Escape(T, i) = {}
        BY <4>5, <4>7, Zenon DEF Escape
      <4>9. Piece(T, i) = <<c>>
        BY <4>5, <4>7, <4>8, Zenon DEF Piece
      <4>10. Width(T, i) = 1
        BY <4>8, Zenon DEF Width
      <4> QED BY <4>3, <4>6, <4>9, <4>10
    <3> QED BY <3>1, <3>2
  <2>9. d[i] = <<c>> \o From(n)
    <3>1. d[i] = Piece(T, i) \o d[i + Width(T, i)]
      BY <1>12, <2>8, Zenon DEF Decoding
    <3> HIDE DEF From
    <3> QED BY <2>3, <2>8, <3>1, Zenon
  <2>10. From(k) = <<c>> \o From(n)
    <3>1. n \in 1..Len(name) /\ Len(name) \in n..Len(name)
      BY <1>1, <2>2 DEF N
    <3>2. SubSeq(name, n, Len(name)) = <<name[n]>> \o SubSeq(name, n + 1, Len(name))
      BY <3>1, SubSeqRecursiveFirst
    <3> QED BY <2>2, <2>7, <3>2, Zenon DEF N
  <2> HIDE DEF From
  <2> QED BY <2>1, <2>4, <2>6, <2>9, <2>10, Zenon
<1>15. \A m \in Nat : m \in S
  <2> HIDE DEF S
  <2> QED BY <1>13, <1>14, NatSetInduction
<1>16. d[Len(g[0]) + 1] = From(0)
  <2>1. N \in S /\ N - N = 0
    BY <1>1, <1>15
  <2> HIDE DEF From
  <2> QED BY <1>1, <2>1
<1>17. Len(g[0]) + 1 = 1 /\ 0 + 1 = 1
  BY <1>10
<1>18. From(0) = name
  BY <1>17, SubSeqFull DEF N
<1>19. url_decode(T) = d[1]
  BY <1>12, Zenon DEF Decoding
<1> HIDE DEF From
<1> QED BY <1>2, <1>16, <1>17, <1>18, <1>19, Zenon

(* What a client sends is a text. *)
LEMMA EncodedIsText ==
  ASSUME NEW C, NEW name \in Seq(C), NEW positions
  PROVE  \E B : Encode(name, positions) \in Seq(B)
<1> DEFINE N == Len(name)
           X(i) == HexDigits[(Ascii[name[i]] \div 16) + 1]
           Y(i) == HexDigits[(Ascii[name[i]] % 16) + 1]
           part == [i \in DOMAIN name |-> IF i \in positions THEN <<"%", X(i), Y(i)>> ELSE <<name[i]>>]
           B == C \cup {"%"} \cup {X(i) : i \in 1..N} \cup {Y(i) : i \in 1..N}
<1>1. N \in Nat /\ DOMAIN name = 1..N /\ \A i \in 1..N : name[i] \in C
  BY LenProperties
<1>2. Encode(name, positions) = FlattenSeq(part)
  BY Zenon DEF Encode
<1>3. ASSUME NEW i \in 1..N PROVE (IF i \in positions THEN <<"%", X(i), Y(i)>> ELSE <<name[i]>>) \in Seq(B)
  <2>1. PICK x, y : x = X(i) /\ y = Y(i)
    OBVIOUS
  <2>2. x \in B /\ y \in B /\ "%" \in B /\ name[i] \in B
    BY <1>1, <2>1, Zenon
  <2> HIDE DEF B
  <2>3. <<"%", x, y>> \in Seq(B) /\ <<name[i]>> \in Seq(B)
    BY <2>2, OneLong, ThreeLong
  <2> HIDE DEF X, Y
  <2> QED BY <2>1, <2>3, Zenon
<1>4. part \in [1..N -> Seq(B)]
  <2> HIDE DEF B, X, Y
  <2> QED BY <1>1, <1>3
<1> HIDE DEF part, B, N
<1>5. part \in Seq(Seq(B)) /\ 0 \in 0..Len(part)
  BY <1>1, <1>4
<1>6. PICK g : Chain(B, part, g)
  BY <1>5, Flattened
<1>7. FlattenSeq(part) \in Seq(B)
  BY <1>5, <1>6, ChainPrefix
<1> QED BY <1>2, <1>7

(* So is what url_decode() makes of it. *)
LEMMA DecodedIsText ==
  ASSUME NEW C, NEW s \in Seq(C)
  PROVE  \E B : url_decode(s) \in Seq(B)
<1> DEFINE L == Len(s)
           B == {Char(CHOOSE n \in Escape(s, i) : TRUE) : i \in 1..L}
                  \cup {IF s[i] = "+" THEN " " ELSE s[i] : i \in 1..L}
<1>1. L \in Nat
  BY LenProperties
<1>2. ASSUME NEW i \in 1..L PROVE Piece(s, i) \in Seq(B)
  <2>1. PICK c, e : c = Char(CHOOSE n \in Escape(s, i) : TRUE) /\ e = IF s[i] = "+" THEN " " ELSE s[i]
    OBVIOUS
  <2>2. c \in B /\ e \in B
    BY <2>1, Zenon
  <2>3. Piece(s, i) = <<c>> \/ Piece(s, i) = <<e>>
    BY <2>1, Zenon DEF Piece
  <2> HIDE DEF B
  <2>4. <<c>> \in Seq(B) /\ <<e>> \in Seq(B)
    BY <2>2, OneLong
  <2> QED BY <2>3, <2>4, Zenon
<1>3. ASSUME NEW i \in 1..L PROVE i + Width(s, i) \in (i + 1)..(L + 1)
  <2>1. CASE Escape(s, i) # {}
    <3>1. i + 2 <= L
      BY <2>1 DEF Escape
    <3> QED BY <1>1, <2>1, <3>1 DEF Width
  <2>2. CASE Escape(s, i) = {}
    BY <1>1, <2>2 DEF Width
  <2> QED BY <2>1, <2>2
<1>4. PICK d : Decoding(s, d)
  BY Decodings
<1>5. /\ url_decode(s) = d[1] /\ d[L + 1] = <<>>
      /\ \A i \in 1..L : d[i] = Piece(s, i) \o d[i + Width(s, i)]
  BY <1>4, Zenon DEF Decoding
<1> HIDE DEF B, L
<1> DEFINE S == {m \in Nat : \A i \in 1..(L + 1) : L + 1 <= i + m => d[i] \in Seq(B)}
<1>6. 0 \in S
  <2>1. \A i \in 1..(L + 1) : L + 1 <= i + 0 => i = L + 1
    BY <1>1
  <2>2. <<>> \in Seq(B)
    BY EmptySeq
  <2> QED BY <1>5, <2>1, <2>2
<1>7. ASSUME NEW m \in Nat, m \in S PROVE m + 1 \in S
  <2> SUFFICES ASSUME NEW i \in 1..(L + 1), L + 1 <= i + (m + 1) PROVE d[i] \in Seq(B)
    OBVIOUS
  <2>1. CASE i = L + 1
    BY <1>5, <2>1, EmptySeq
  <2>2. CASE i # L + 1
    <3>1. i \in 1..L
      BY <1>1, <2>2
    <3>2. PICK j : j = i + Width(s, i)
      OBVIOUS
    <3>3. j \in (i + 1)..(L + 1)
      BY <1>3, <3>1, <3>2
    <3>4. j \in 1..(L + 1) /\ L + 1 <= j + m
      BY <1>1, <3>1, <3>3
    <3>5. d[j] \in Seq(B)
      BY <1>7, <3>4
    <3>6. d[i] = Piece(s, i) \o d[j]
      BY <1>5, <3>1, <3>2, Zenon
    <3> QED BY <1>2, <3>1, <3>5, <3>6, ConcatProperties
  <2> QED BY <2>1, <2>2
<1>8. \A m \in Nat : m \in S
  <2> HIDE DEF S
  <2> QED BY <1>6, <1>7, NatSetInduction
<1>9. d[1] \in Seq(B)
  <2>1. L \in S
    BY <1>1, <1>8, Zenon
  <2>2. 1 \in 1..(L + 1) /\ L + 1 <= 1 + L
    <3> HIDE DEF S
    <3> QED BY <1>1
  <2> QED BY <2>1, <2>2
<1> QED BY <1>5, <1>9

-----------------------------------------------------------------------------
(***************************************************************************)
(* normalize_path()                                                        *)
(***************************************************************************)
(* There is no separator between c and d. *)
Adjacent(s, c, d) ==
  /\ c \in 0..Len(s) /\ d \in 1..(Len(s) + 1) /\ c < d
  /\ Sep(s, c) /\ Sep(s, d) /\ \A k \in (c + 1)..(d - 1) : ~Sep(s, k)

(* A component ends before the next separator. *)
LEMMA CompIs ==
  ASSUME NEW C, NEW s \in Seq(C), NEW c, NEW d, Adjacent(s, c, d)
  PROVE  Comp(s, c) = SubSeq(s, c + 1, d - 1)
<1> DEFINE Ends(j) == Sep(s, j) /\ \A k \in (c + 1)..(j - 1) : ~Sep(s, k)
<1>1. Len(s) \in Nat
  BY LenProperties
<1>2. d \in (c + 1)..(Len(s) + 1) /\ Ends(d)
  BY <1>1 DEF Adjacent
<1>3. \A j \in (c + 1)..(Len(s) + 1) : Ends(j) => j = d
  <2> SUFFICES ASSUME NEW j \in (c + 1)..(Len(s) + 1), Ends(j), j # d PROVE FALSE
    OBVIOUS
  <2>1. c \in Nat /\ d \in Nat /\ j \in Nat
    BY <1>1 DEF Adjacent
  <2>2. CASE j < d
    <3>1. j \in (c + 1)..(d - 1)
      BY <2>1, <2>2
    <3> QED BY <1>2, <3>1
  <2>3. CASE d < j
    <3>1. d \in (c + 1)..(j - 1)
      BY <1>2, <2>1, <2>3
    <3> QED BY <1>2, <3>1
  <2> QED BY <2>1, <2>2, <2>3
<1>4. (CHOOSE j \in (c + 1)..(Len(s) + 1) : Ends(j)) = d
  <2> HIDE DEF Ends
  <2> QED BY <1>2, <1>3, Zenon
<1> QED BY <1>4, Zenon DEF Comp

(* Names and Ups are finite sets of positions, and disjoint. *)
LEMMA NamesAndUps ==
  ASSUME NEW C, NEW s \in Seq(C)
  PROVE  /\ Names(s) \subseteq 0..Len(s) /\ Ups(s) \subseteq 0..Len(s)
         /\ Names(s) \subseteq Starts(s) /\ Ups(s) \subseteq Starts(s)
         /\ IsFiniteSet(Names(s)) /\ IsFiniteSet(Ups(s))
         /\ Names(s) \cap Ups(s) = {}
<1>1. Len(s) \in Nat
  BY LenProperties
<1>2. Names(s) \subseteq Starts(s) /\ Ups(s) \subseteq Starts(s) /\ Starts(s) \subseteq 0..Len(s)
  BY DEF Names, Ups, Starts
<1>3. Names(s) \cap Ups(s) = {}
  BY DEF Names, Ups
<1>4. IsFiniteSet(0..Len(s))
  BY <1>1, FS_Interval
<1>5. IsFiniteSet(Names(s)) /\ IsFiniteSet(Ups(s))
  BY <1>2, <1>4, FS_Subset
<1> QED BY <1>2, <1>3, <1>5

(* The positions of T from i to j. *)
Span(T, i, j) == {k \in T : i <= k /\ k <= j}

(* How many there are, from what there were before. *)
SpanRule(T, i, j) ==
  /\ Cardinality(Span(T, i, j)) \in Nat
  /\ (i < j /\ j \in T) => Cardinality(Span(T, i, j)) = Cardinality(Span(T, i, j - 1)) + 1
  /\ (i < j /\ j \notin T) => Cardinality(Span(T, i, j)) = Cardinality(Span(T, i, j - 1))
  /\ \A d \in Nat : (j <= d /\ \A k \in (j + 1)..d : k \notin T) =>
       Cardinality(Span(T, i, d)) = Cardinality(Span(T, i, j))
  /\ Cardinality(Span(T, j, j)) = IF j \in T THEN 1 ELSE 0

(* How many there are, as j grows. *)
LEMMA SpanGrows ==
  ASSUME NEW T, IsFiniteSet(T), T \subseteq Nat, NEW i \in Nat, NEW j \in Nat, i <= j
  PROVE  SpanRule(T, i, j)
<1>1. \A d : IsFiniteSet(Span(T, i, d)) /\ Cardinality(Span(T, i, d)) \in Nat
  <2> SUFFICES ASSUME NEW d PROVE IsFiniteSet(Span(T, i, d)) /\ Cardinality(Span(T, i, d)) \in Nat
    OBVIOUS
  <2>1. Span(T, i, d) \subseteq T
    BY DEF Span
  <2> QED BY <2>1, FS_Subset, FS_CardinalityType
<1>2. \A x, d, e : e \in Span(T, x, d) <=> e \in T /\ x <= e /\ e <= d
  BY Zenon DEF Span
<1>3. \A e \in T : e \in Nat
  OBVIOUS
<1>4. ASSUME i < j, j \in T PROVE Cardinality(Span(T, i, j)) = Cardinality(Span(T, i, j - 1)) + 1
  <2>1. \A e : e \in Span(T, i, j) <=> e \in Span(T, i, j - 1) \/ e = j
    <3>1. \A e \in Nat : (i <= e /\ e <= j) <=> ((i <= e /\ e <= j - 1) \/ e = j)
      BY <1>4
    <3> QED BY <1>2, <1>3, <1>4, <3>1, Zenon
  <2>2. j \notin Span(T, i, j - 1)
    BY <1>2, <1>3, <1>4
  <2>3. Span(T, i, j) = Span(T, i, j - 1) \cup {j}
    BY <2>1, Zenon
  <2> QED BY <1>1, <2>2, <2>3, FS_AddElement
<1>5. ASSUME i < j, j \notin T PROVE Cardinality(Span(T, i, j)) = Cardinality(Span(T, i, j - 1))
  <2>1. \A e : e \in Span(T, i, j) <=> e \in Span(T, i, j - 1)
    <3>1. \A e \in Nat : e # j => ((i <= e /\ e <= j) <=> (i <= e /\ e <= j - 1))
      BY <1>5
    <3>2. \A e \in T : e # j /\ e \in Nat
      BY <1>3, <1>5, Zenon
    <3> QED BY <1>2, <3>1, <3>2, Zenon
  <2>2. Span(T, i, j) = Span(T, i, j - 1)
    BY <2>1, Zenon
  <2> QED BY <2>2
<1>6. ASSUME NEW d \in Nat, j <= d, \A k \in (j + 1)..d : k \notin T
      PROVE  Cardinality(Span(T, i, d)) = Cardinality(Span(T, i, j))
  <2>1. \A e \in T : e <= d => e <= j
    BY <1>3, <1>6
  <2>2. \A e : e \in Span(T, i, d) <=> e \in Span(T, i, j)
    <3>1. \A e \in Nat : e <= j => e <= d
      BY <1>6
    <3> QED BY <1>2, <1>3, <2>1, <3>1, Zenon
  <2>3. Span(T, i, d) = Span(T, i, j)
    BY <2>2, Zenon
  <2> QED BY <2>3
<1>7. Cardinality(Span(T, j, j)) = IF j \in T THEN 1 ELSE 0
  <2>1. \A e : e \in Span(T, j, j) <=> e \in T /\ e = j
    <3>1. \A e \in Nat : (j <= e /\ e <= j) <=> e = j
      OBVIOUS
    <3> QED BY <1>2, <1>3, <3>1, Zenon
  <2>2. CASE j \in T
    <3>1. Span(T, j, j) = {j}
      BY <2>1, <2>2, Zenon
    <3> QED BY <2>2, <3>1, FS_Singleton
  <2>3. CASE j \notin T
    <3>1. Span(T, j, j) = {}
      BY <2>1, <2>3, Zenon
    <3> QED BY <2>3, <3>1, FS_EmptySet
  <2> QED BY <2>2, <2>3
<1> QED BY <1>1, <1>4, <1>5, <1>6, <1>7, Zenon DEF SpanRule

(* The component at c is one level down, one up or none; what is between   *)
(* two separators changes no level.                                        *)
LevelRule(s, c) ==
  /\ \A i \in 0..c : i < c =>
       Level(s, i, c) = Level(s, i, c - 1) + (IF c \in Names(s) THEN 1 ELSE IF c \in Ups(s) THEN -1 ELSE 0)
  /\ c \in Names(s) => Level(s, c, c) = 1
  /\ \A i \in 0..c : Level(s, i, c) \in Int

(* How the levels change from one position to the next. *)
LEMMA LevelAt ==
  ASSUME NEW C, NEW s \in Seq(C), NEW c \in 0..Len(s)
  PROVE  LevelRule(s, c)
<1> DEFINE A == Names(s)
           B == Ups(s)
<1>1. Len(s) \in Nat /\ c \in Nat
  BY LenProperties
<1>2. /\ A \subseteq Nat /\ B \subseteq Nat /\ IsFiniteSet(A) /\ IsFiniteSet(B) /\ A \cap B = {}
  BY <1>1, NamesAndUps
<1>3. \A i, j : Level(s, i, j) = Cardinality(Span(A, i, j)) - Cardinality(Span(B, i, j))
  BY DEF Level, Span
<1> HIDE DEF A, B
<1>4. ASSUME NEW i \in 0..c, i < c
      PROVE  Level(s, i, c) = Level(s, i, c - 1) + (IF c \in A THEN 1 ELSE IF c \in B THEN -1 ELSE 0)
  <2>1. i \in Nat /\ i <= c /\ c - 1 \in Nat /\ i <= c - 1
    BY <1>1, <1>4
  <2>2. PICK a, a1, b, b1 : /\ a = Cardinality(Span(A, i, c)) /\ a1 = Cardinality(Span(A, i, c - 1))
                            /\ b = Cardinality(Span(B, i, c)) /\ b1 = Cardinality(Span(B, i, c - 1))
    OBVIOUS
  <2>3. /\ a \in Nat /\ (c \in A => a = a1 + 1) /\ (c \notin A => a = a1)
        /\ b \in Nat /\ (c \in B => b = b1 + 1) /\ (c \notin B => b = b1)
    <3>1. SpanRule(A, i, c) /\ SpanRule(B, i, c)
      BY <1>1, <1>2, <2>1, SpanGrows
    <3> QED BY <1>4, <2>2, <3>1, Zenon DEF SpanRule
  <2>4. a1 \in Nat /\ b1 \in Nat
    <3>1. SpanRule(A, i, c - 1) /\ SpanRule(B, i, c - 1)
      BY <1>1, <1>2, <2>1, SpanGrows
    <3> QED BY <2>2, <3>1, Zenon DEF SpanRule
  <2>5. Level(s, i, c) = a - b /\ Level(s, i, c - 1) = a1 - b1
    BY <1>3, <2>2
  <2>6. ~(c \in A /\ c \in B)
    BY <1>2
  <2> QED BY <2>3, <2>4, <2>5, <2>6
<1>5. ASSUME c \in A PROVE Level(s, c, c) = 1
  <2>1. c \notin B /\ c <= c
    BY <1>1, <1>2, <1>5
  <2>2. Cardinality(Span(A, c, c)) = 1 /\ Cardinality(Span(B, c, c)) = 0
    <3>1. SpanRule(A, c, c) /\ SpanRule(B, c, c)
      BY <1>1, <1>2, <2>1, SpanGrows
    <3> QED BY <1>5, <2>1, <3>1, Zenon DEF SpanRule
  <2> QED BY <1>3, <2>2
<1>6. ASSUME NEW i \in 0..c PROVE Level(s, i, c) \in Int
  <2>1. i \in Nat /\ i <= c
    BY <1>1
  <2>2. Cardinality(Span(A, i, c)) \in Nat /\ Cardinality(Span(B, i, c)) \in Nat
    BY <1>1, <1>2, <2>1, SpanGrows DEF SpanRule
  <2> QED BY <1>3, <2>2
<1> QED BY <1>4, <1>5, <1>6 DEF LevelRule, A, B

(* They do not change before the next separator. *)
LEMMA LevelBetween ==
  ASSUME NEW C, NEW s \in Seq(C), NEW c, NEW d, Adjacent(s, c, d), NEW i \in 0..c
  PROVE  Level(s, i, d - 1) = Level(s, i, c)
<1> DEFINE A == Names(s)
           B == Ups(s)
<1>1. Len(s) \in Nat /\ c \in Nat /\ d - 1 \in Nat /\ c <= d - 1 /\ i \in Nat /\ i <= c
  BY LenProperties DEF Adjacent
<1>2. /\ A \subseteq Nat /\ B \subseteq Nat /\ IsFiniteSet(A) /\ IsFiniteSet(B)
  BY <1>1, NamesAndUps
<1>3. \A x, y : Level(s, x, y) = Cardinality(Span(A, x, y)) - Cardinality(Span(B, x, y))
  BY DEF Level, Span
<1>4. \A k \in (c + 1)..(d - 1) : k \notin A /\ k \notin B
  BY DEF Adjacent, Names, Ups, Starts
<1> HIDE DEF A, B
<1>5. SpanRule(A, i, c) /\ SpanRule(B, i, c)
  BY <1>1, <1>2, SpanGrows
<1>6. Cardinality(Span(A, i, d - 1)) = Cardinality(Span(A, i, c))
  BY <1>1, <1>4, <1>5, Zenon DEF SpanRule
<1>7. Cardinality(Span(B, i, d - 1)) = Cardinality(Span(B, i, c))
  BY <1>1, <1>4, <1>5, Zenon DEF SpanRule
<1> QED BY <1>3, <1>6, <1>7

(* The component at i is the n-th of m that are kept before c. *)
OnStack(s, c, m, n, i) ==
  /\ i \in Names(s) /\ i < c
  /\ \A j \in Starts(s) : i < j /\ j < c => Level(s, i, j) >= 1
  /\ Level(s, i, c - 1) = m - n + 1

(* The path has climbed out of the component at i before c. *)
Gone(s, c, i) == \E j \in Starts(s) : i < j /\ j < c /\ Level(s, i, j) < 1

(* The loop invariant of normalize_path(): before the separator at c the   *)
(* parts are the components at the positions at[1], at[2], ... that the    *)
(* path has not climbed out of, and the levels say how many lie above.     *)
Stacked(s, c, parts, at) ==
  /\ at \in [1..Len(parts) -> Names(s)]
  /\ \A n \in 1..Len(parts) : OnStack(s, c, Len(parts), n, at[n]) /\ parts[n] = Comp(s, at[n])
  /\ \A m, n \in 1..Len(parts) : m < n => at[m] < at[n]
  /\ \A i \in Names(s) : i < c => (\E n \in 1..Len(parts) : i = at[n]) \/ Gone(s, c, i)

(* Between c and d nothing starts. *)
LEMMA StartsBefore ==
  ASSUME NEW C, NEW s \in Seq(C), NEW c, NEW d, Adjacent(s, c, d)
  PROVE  /\ c \in Nat /\ d \in Nat /\ c < d /\ c \in 0..Len(s) /\ c \in Starts(s)
         /\ \A j \in Starts(s) : j \in Nat /\ (j < d => j < c \/ j = c)
         /\ \A i \in Names(s) : i \in Nat /\ i \in Starts(s)
<1>1. Len(s) \in Nat
  BY LenProperties
<1>2. c \in Nat /\ d \in Nat /\ c < d /\ c \in 0..Len(s) /\ c \in Starts(s)
  BY <1>1 DEF Adjacent, Starts
<1>3. ASSUME NEW j \in Starts(s) PROVE j \in Nat /\ (j < d => j < c \/ j = c)
  <2>1. j \in Nat /\ Sep(s, j)
    BY <1>1 DEF Starts
  <2>2. ~(j \in (c + 1)..(d - 1))
    BY <2>1 DEF Adjacent
  <2> QED BY <1>2, <2>1, <2>2
<1>4. \A i \in Names(s) : i \in Starts(s)
  BY DEF Names
<1> QED BY <1>2, <1>3, <1>4

(* What is kept stays kept while its level stays positive, and its level   *)
(* changes by what the component at c is.                                  *)
LEMMA OnStackStep ==
  ASSUME NEW C, NEW s \in Seq(C), NEW c, NEW d, Adjacent(s, c, d),
         NEW m \in Nat, NEW n \in Nat, NEW i, OnStack(s, c, m, n, i), NEW m2 \in Nat,
         m2 = m + (IF c \in Names(s) THEN 1 ELSE IF c \in Ups(s) THEN -1 ELSE 0), n <= m2
  PROVE  OnStack(s, d, m2, n, i)
<1>1. /\ c \in Nat /\ d \in Nat /\ c < d /\ c \in 0..Len(s)
      /\ \A j \in Starts(s) : j \in Nat /\ (j < d => j < c \/ j = c)
      /\ \A k \in Names(s) : k \in Nat
  BY StartsBefore
<1>2. /\ i \in Names(s) /\ i < c
      /\ \A j \in Starts(s) : i < j /\ j < c => Level(s, i, j) >= 1
      /\ Level(s, i, c - 1) = m - n + 1
  BY Zenon DEF OnStack
<1>3. i \in 0..c /\ i < d
  BY <1>1, <1>2
<1>4. Level(s, i, c) = Level(s, i, c - 1) + (IF c \in Names(s) THEN 1 ELSE IF c \in Ups(s) THEN -1 ELSE 0)
  <2>1. LevelRule(s, c)
    BY <1>1, LevelAt
  <2> QED BY <1>2, <1>3, <2>1, Zenon DEF LevelRule
<1>5. PICK l, l1, e : /\ l = Level(s, i, c) /\ l1 = Level(s, i, c - 1)
                      /\ e = IF c \in Names(s) THEN 1 ELSE IF c \in Ups(s) THEN -1 ELSE 0
  OBVIOUS
<1>6. l = l1 + e /\ l1 = m - n + 1 /\ m2 = m + e /\ e \in Int
  <2>1. e \in Int
    BY <1>5
  <2> QED BY <1>2, <1>4, <1>5, <2>1, Zenon
<1>7. l = m2 - n + 1 /\ l >= 1
  BY <1>6
<1>8. Level(s, i, d - 1) = l
  BY <1>3, <1>5, LevelBetween
<1>9. ASSUME NEW j \in Starts(s), i < j, j < d PROVE Level(s, i, j) >= 1
  BY <1>1, <1>2, <1>5, <1>7, <1>9, Zenon
<1> QED BY <1>2, <1>3, <1>7, <1>8, <1>9, Zenon DEF OnStack

(* What is gone stays gone. *)
LEMMA GoneStep ==
  ASSUME NEW C, NEW s \in Seq(C), NEW c, NEW d, Adjacent(s, c, d), NEW i, Gone(s, c, i)
  PROVE  Gone(s, d, i)
<1>1. c \in Nat /\ d \in Nat /\ c < d /\ \A j \in Starts(s) : j \in Nat
  BY StartsBefore
<1>2. PICK j \in Starts(s) : i < j /\ j < c /\ Level(s, i, j) < 1
  BY DEF Gone
<1>3. j < d
  BY <1>1, <1>2
<1> QED BY <1>2, <1>3 DEF Gone

(* A component that is complete keeps the invariant: "" and "." leave all  *)
(* as it is, a name comes on top, and ".." leaves the component that was   *)
(* on top, whose level it makes zero.                                      *)
LEMMA CompleteStep ==
  ASSUME NEW C, NEW s \in Seq(C), NEW c, NEW d, Adjacent(s, c, d),
         NEW parts \in Seq(Seq(C)), NEW at, Stacked(s, c, parts, at)
  PROVE  \E at2 : Stacked(s, d, Complete(parts, Comp(s, c)), at2)
<1>1. /\ c \in Nat /\ d \in Nat /\ c < d /\ c \in 0..Len(s) /\ c \in Starts(s)
      /\ \A j \in Starts(s) : j \in Nat /\ (j < d => j < c \/ j = c)
      /\ \A i \in Names(s) : i \in Nat /\ i \in Starts(s)
  BY StartsBefore
<1>2. PICK M \in Nat : M = Len(parts)
  BY LenProperties
<1>3. /\ at \in [1..M -> Names(s)]
      /\ \A n \in 1..M : OnStack(s, c, M, n, at[n]) /\ parts[n] = Comp(s, at[n])
      /\ \A m, n \in 1..M : m < n => at[m] < at[n]
      /\ \A i \in Names(s) : i < c => (\E n \in 1..M : i = at[n]) \/ Gone(s, c, i)
  BY <1>2, Zenon DEF Stacked
<1>4. \A i \in Names(s) : i < d => i < c \/ i = c
  BY <1>1
<1>5. PICK w : w = Comp(s, c)
  OBVIOUS
<1>6. CASE w \in {<<>>, <<".">>}
  <2>1. c \notin Names(s) /\ c \notin Ups(s) /\ Complete(parts, w) = parts
    <3>1. w # <<".", ".">>
      <4>1. PICK v : v = <<".", ".">>
        OBVIOUS
      <4>2. Len(v) = 2
        BY <4>1
      <4>3. Len(w) # 2
        <5>1. CASE w = <<>>
          BY <5>1
        <5>2. CASE w = <<".">>
          BY <5>2
        <5> QED BY <1>6, <5>1, <5>2
      <4> QED BY <4>1, <4>2, <4>3, Zenon
    <3>2. c \notin Names(s) /\ c \notin Ups(s)
      BY <1>5, <1>6, <3>1 DEF Names, Ups
    <3> QED BY <1>6, <3>1, <3>2 DEF Complete
  <2>2. ASSUME NEW n \in 1..M PROVE OnStack(s, d, M, n, at[n])
    <3>1. n \in Nat /\ n <= M /\ M = M + 0
      OBVIOUS
    <3>2. M = M + (IF c \in Names(s) THEN 1 ELSE IF c \in Ups(s) THEN -1 ELSE 0)
      BY <2>1, <3>1
    <3> QED BY <1>3, <3>1, <3>2, OnStackStep
  <2>3. ASSUME NEW i \in Names(s), i < d PROVE (\E n \in 1..M : i = at[n]) \/ Gone(s, d, i)
    BY <1>3, <1>4, <2>1, <2>3, GoneStep
  <2>4. Stacked(s, d, parts, at)
    BY <1>2, <1>3, <2>2, <2>3, Zenon DEF Stacked
  <2> QED BY <1>5, <2>1, <2>4
<1>7. CASE w = <<".", ".">>
  <2>1. c \notin Names(s) /\ c \in Ups(s)
    BY <1>1, <1>5, <1>7 DEF Names, Ups
  <2>2. Complete(parts, w) = IF parts = <<>> THEN parts ELSE Front(parts)
    BY <1>7 DEF Complete
  <2>3. CASE M = 0
    <3>1. parts = <<>>
      BY <1>2, <2>3, EmptySeq
    <3>2. \A i \in Names(s) : i < d => Gone(s, d, i)
      <4>1. \A n : n \notin 1..M
        BY <2>3
      <4> QED BY <1>3, <1>4, <2>1, <4>1, GoneStep
    <3>3. Stacked(s, d, parts, at)
      <4>1. \A n : n \notin 1..M
        BY <2>3
      <4> QED BY <1>2, <1>3, <3>2, <4>1, Zenon DEF Stacked
    <3> QED BY <1>5, <2>2, <3>1, <3>3
  <2>4. CASE M # 0
    <3>1. PICK p : p = Front(parts)
      OBVIOUS
    <3>2. PICK L \in Nat : L = M - 1
      BY <2>4
    <3>3. Len(p) = L /\ \A n \in 1..L : p[n] = parts[n]
      BY <1>2, <3>1, <3>2 DEF Front
    <3>4. \A n \in 1..L : n \in 1..M /\ n \in Nat /\ n <= L
      BY <3>2
    <3> DEFINE at2 == [n \in 1..L |-> at[n]]
    <3>5. at2 \in [1..L -> Names(s)] /\ \A n \in 1..L : at2[n] = at[n]
      BY <1>3, <3>4
    <3> HIDE DEF at2
    <3>6. ASSUME NEW n \in 1..L PROVE OnStack(s, d, L, n, at2[n])
      <4>1. L = M + (IF c \in Names(s) THEN 1 ELSE IF c \in Ups(s) THEN -1 ELSE 0)
        BY <2>1, <3>2
      <4>2. OnStack(s, c, M, n, at[n]) /\ n \in Nat /\ n <= L
        BY <1>3, <3>4
      <4>3. OnStack(s, d, L, n, at[n])
        BY <4>1, <4>2, OnStackStep
      <4> QED BY <3>5, <4>3
    <3>7. M \in 1..M /\ M \in Nat
      BY <2>4
    <3>8. Gone(s, d, at[M])
      <4>1. PICK i : i = at[M]
        OBVIOUS
      <4>2. i \in Names(s) /\ i < c /\ Level(s, i, c - 1) = M - M + 1
        BY <1>3, <3>7, <4>1, Zenon DEF OnStack
      <4>3. i \in 0..c
        BY <1>1, <4>2
      <4>4. LevelRule(s, c)
        BY <1>1, LevelAt
      <4>5. Level(s, i, c) = Level(s, i, c - 1) + (IF c \in Names(s) THEN 1 ELSE IF c \in Ups(s) THEN -1 ELSE 0)
        BY <4>2, <4>3, <4>4, Zenon DEF LevelRule
      <4>6. Level(s, i, c) < 1
        BY <2>1, <4>2, <4>5
      <4> QED BY <1>1, <4>1, <4>2, <4>6 DEF Gone
    <3>9. ASSUME NEW i \in Names(s), i < d PROVE (\E n \in 1..L : i = at2[n]) \/ Gone(s, d, i)
      <4>1. i < c
        BY <1>4, <2>1, <3>9
      <4>2. CASE Gone(s, c, i)
        BY <4>2, GoneStep
      <4>3. ASSUME NEW n \in 1..M, i = at[n] PROVE (\E k \in 1..L : i = at2[k]) \/ Gone(s, d, i)
        <5>1. n \in 1..L \/ n = M
          BY <3>2
        <5> QED BY <3>5, <3>8, <4>3, <5>1, Zenon
      <4> QED BY <1>3, <4>1, <4>2, <4>3
    <3>10. \A m, n \in 1..L : m < n => at2[m] < at2[n]
      BY <1>3, <3>4, <3>5, Zenon
    <3>11. \A n \in 1..L : p[n] = Comp(s, at2[n])
      BY <1>3, <3>3, <3>4, <3>5, Zenon
    <3>12. Stacked(s, d, p, at2)
      BY <3>3, <3>5, <3>6, <3>9, <3>10, <3>11, Zenon DEF Stacked
    <3>13. parts # <<>>
      BY <1>2, <2>4
    <3> QED BY <1>5, <2>2, <3>1, <3>12, <3>13
  <2> QED BY <2>3, <2>4
<1>8. CASE w \notin {<<>>, <<".">>, <<".", ".">>}
  <2>1. c \in Names(s) /\ c \notin Ups(s)
    BY <1>1, <1>5, <1>8 DEF Names, Ups
  <2>2. Complete(parts, w) = Append(parts, w)
    BY <1>8 DEF Complete
  <2>3. PICK p : p = Append(parts, w)
    OBVIOUS
  <2>4. PICK L \in Nat : L = M + 1
    OBVIOUS
  <2>5. Len(p) = L /\ p[L] = w /\ \A n \in 1..M : p[n] = parts[n]
    BY <1>2, <2>3, <2>4
  <2>6. \A n \in 1..L : n \in Nat /\ n <= L /\ (n \in 1..M \/ n = L)
    BY <2>4
  <2>7. L \notin 1..M
    BY <2>4
  <2> DEFINE at2 == [n \in 1..L |-> IF n = L THEN c ELSE at[n]]
  <2>8. /\ at2 \in [1..L -> Names(s)] /\ at2[L] = c
        /\ \A n \in 1..M : at2[n] = at[n] /\ n \in 1..L
    BY <1>3, <2>1, <2>4, <2>6
  <2> HIDE DEF at2
  <2>9. OnStack(s, d, L, L, c)
    <3>1. LevelRule(s, c)
      BY <1>1, LevelAt
    <3>2. Level(s, c, c) = 1
      BY <2>1, <3>1, Zenon DEF LevelRule
    <3>3. c \in 0..c
      BY <1>1
    <3>4. Level(s, c, d - 1) = Level(s, c, c)
      BY <3>3, LevelBetween
    <3>5. L - L + 1 = 1
      OBVIOUS
    <3>6. \A j \in Starts(s) : ~(c < j /\ j < d)
      BY <1>1
    <3> QED BY <1>1, <2>1, <3>2, <3>4, <3>5, <3>6, Zenon DEF OnStack
  <2>10. ASSUME NEW n \in 1..L PROVE OnStack(s, d, L, n, at2[n])
    <3>1. CASE n = L
      BY <2>8, <2>9, <3>1
    <3>2. CASE n \in 1..M
      <4>1. L = M + (IF c \in Names(s) THEN 1 ELSE IF c \in Ups(s) THEN -1 ELSE 0)
        BY <2>1, <2>4
      <4>2. OnStack(s, c, M, n, at[n]) /\ n \in Nat /\ n <= L
        BY <1>3, <2>6, <3>2
      <4>3. OnStack(s, d, L, n, at[n])
        BY <4>1, <4>2, OnStackStep
      <4> QED BY <2>8, <3>2, <4>3
    <3> QED BY <2>6, <3>1, <3>2
  <2>11. ASSUME NEW n \in 1..L PROVE p[n] = Comp(s, at2[n])
    <3>1. CASE n = L
      BY <1>5, <2>5, <2>8, <3>1
    <3>2. CASE n \in 1..M
      BY <1>3, <2>5, <2>8, <3>2
    <3> QED BY <2>6, <3>1, <3>2
  <2>12. ASSUME NEW m \in 1..L, NEW n \in 1..L, m < n PROVE at2[m] < at2[n]
    <3>1. m \in 1..M
      BY <2>4, <2>12
    <3>2. CASE n = L
      <4>1. at[m] < c
        BY <1>3, <3>1 DEF OnStack
      <4> QED BY <2>8, <3>1, <3>2, <4>1
    <3>3. CASE n \in 1..M
      BY <1>3, <2>8, <2>12, <3>1, <3>3, Zenon
    <3> QED BY <2>6, <3>2, <3>3
  <2>13. ASSUME NEW i \in Names(s), i < d PROVE (\E n \in 1..L : i = at2[n]) \/ Gone(s, d, i)
    <3>1. L \in 1..L
      BY <2>4
    <3>2. CASE i = c
      BY <2>8, <3>1, <3>2
    <3>3. CASE i < c
      BY <1>3, <2>8, <3>3, GoneStep
    <3> QED BY <1>4, <2>13, <3>2, <3>3
  <2>14. Stacked(s, d, p, at2)
    BY <2>5, <2>8, <2>10, <2>11, <2>12, <2>13, Zenon DEF Stacked
  <2> QED BY <1>5, <2>2, <2>3, <2>14
<1> QED BY <1>6, <1>7, <1>8

(* The loop of normalize_path() over the characters. *)
ReadStates(B) == [parts : Seq(Seq(B)), current : Seq(B)]
ReadStep(st, c) ==
  IF c = "/" THEN [parts |-> Complete(st.parts, st.current), current |-> <<>>]
             ELSE [st EXCEPT !.current = Append(@, c)]

(* A component that is complete leaves a sequence of components. *)
LEMMA CompleteTyped ==
  ASSUME NEW B, NEW parts \in Seq(Seq(B)), NEW w \in Seq(B)
  PROVE  Complete(parts, w) \in Seq(Seq(B))
<1>1. Append(parts, w) \in Seq(Seq(B)) /\ (parts # <<>> => Front(parts) \in Seq(Seq(B)))
  <2>1. parts # <<>> => Len(parts) \in Nat /\ Len(parts) # 0
    BY EmptySeq, LenProperties
  <2> QED BY <2>1 DEF Front
<1> QED BY <1>1, Zenon DEF Complete

(* A turn of the loop keeps the types. *)
LEMMA ReadStepTyped ==
  ASSUME NEW B, NEW st \in ReadStates(B), NEW c \in B
  PROVE  ReadStep(st, c) \in ReadStates(B)
<1>1. st.parts \in Seq(Seq(B)) /\ st.current \in Seq(B)
  BY DEF ReadStates
<1>2. CASE c = "/"
  <2>1. PICK p : p = Complete(st.parts, st.current)
    OBVIOUS
  <2>2. p \in Seq(Seq(B))
    BY <1>1, <2>1, CompleteTyped
  <2>3. ReadStep(st, c) = [parts |-> p, current |-> <<>>]
    BY <1>2, <2>1 DEF ReadStep
  <2> QED BY <2>2, <2>3 DEF ReadStates
<1>3. CASE c # "/"
  <2>1. PICK w : w = Append(st.current, c)
    OBVIOUS
  <2>2. w \in Seq(B)
    BY <1>1, <2>1
  <2>3. ReadStep(st, c) = [st EXCEPT !.current = w]
    BY <1>3, <2>1 DEF ReadStep
  <2> QED BY <2>2, <2>3 DEF ReadStates
<1> QED BY <1>2, <1>3

(* g[n] is the state of the loop after n characters. *)
Reads(B, t, g) ==
  /\ g \in [0..Len(t) -> ReadStates(B)]
  /\ g[0] = [parts |-> <<>>, current |-> <<>>]
  /\ \A k, n \in 0..Len(t) : n = k + 1 => g[n] = ReadStep(g[k], t[n])
  /\ Components(t) = Complete(g[Len(t)].parts, g[Len(t)].current)

(* The loop reads one character after the other, for a path of any length. *)
LEMMA ComponentsRead ==
  ASSUME NEW B, NEW t \in Seq(B)
  PROVE  \E g : Reads(B, t, g)
<1> DEFINE N == Len(t)
           X == ReadStates(B)
           x0 == [parts |-> <<>>, current |-> <<>>]
           E == [n \in Nat |-> [st \in X |-> IF n \in 1..N THEN ReadStep(st, t[n]) ELSE st]]
           Step(f) == [s \in SUBSET (DOMAIN t) |->
                         IF s = {} THEN x0 ELSE ReadStep(f[s \ {Max(s)}], t[Max(s)])]
           iter == CHOOSE f : f = Step(f)
<1>1. N \in Nat /\ DOMAIN t = 1..N /\ \A n \in 1..N : t[n] \in B
  BY LenProperties
<1>2. Components(t) = Complete(iter[DOMAIN t].parts, iter[DOMAIN t].current)
  BY Zenon DEF Components, FoldLeft, MapThenFoldSet, ReadStep
<1>3. x0 \in X
  BY EmptySeq DEF ReadStates
<1>4. E \in [Nat -> [X -> X]]
  <2>1. \A n \in Nat, st \in X : (IF n \in 1..N THEN ReadStep(st, t[n]) ELSE st) \in X
    BY <1>1, ReadStepTyped
  <2> HIDE DEF X, N
  <2> QED BY <2>1
<1>5. ASSUME NEW n \in 1..N, NEW st \in X PROVE E[n][st] = ReadStep(st, t[n])
  <2>1. n \in Nat
    BY <1>1
  <2> HIDE DEF X, N
  <2> QED BY <2>1
<1> HIDE DEF N, X, x0, E
<1>6. PICK f : Folding(X, x0, E, N, f)
  BY <1>1, <1>3, <1>4, Foldings
<1>7. f = Step(f)
  <2>1. f \in [SUBSET (1..N) -> X] /\ f[{}] = x0
    BY <1>6 DEF Folding
  <2>2. ASSUME NEW s \in SUBSET (1..N), s # {}
        PROVE  f[s] = ReadStep(f[s \ {Max(s)}], t[Max(s)])
    <3>1. f[s] = E[Max(s)][f[s \ {Max(s)}]]
      BY <1>6, <2>2, Zenon DEF Folding
    <3>2. Max(s) \in 1..N
      BY <1>1, <2>2, MaxIsMember
    <3>3. f[s \ {Max(s)}] \in X
      BY <2>1
    <3> QED BY <1>5, <3>1, <3>2, <3>3, Zenon
  <2>3. f = [s \in SUBSET (1..N) |-> f[s]]
    BY <2>1
  <2>4. \A s \in SUBSET (1..N) : f[s] = IF s = {} THEN x0 ELSE ReadStep(f[s \ {Max(s)}], t[Max(s)])
    BY <2>1, <2>2
  <2> QED BY <1>1, <2>3, <2>4
<1>8. iter = Step(iter)
  <2> HIDE DEF Step
  <2> QED BY <1>7, Zenon
<1>9. ASSUME NEW s \in SUBSET (1..N)
      PROVE  iter[s] = IF s = {} THEN x0 ELSE ReadStep(iter[s \ {Max(s)}], t[Max(s)])
  <2> HIDE DEF iter
  <2> QED BY <1>1, <1>8
<1> HIDE DEF iter
<1>10. iter[1..0] = x0
  <2>1. 1..0 = {} /\ {} \in SUBSET (1..N)
    OBVIOUS
  <2> QED BY <1>9, <2>1
<1>11. ASSUME NEW k \in 0..N, NEW n \in 0..N, n = k + 1
       PROVE  iter[1..n] = ReadStep(iter[1..k], t[n])
  <2>1. PICK s : s = 1..n
    OBVIOUS
  <2>2. s \in SUBSET (1..N) /\ s # {} /\ s \in SUBSET (1..(k + 1)) /\ k + 1 \in s /\ n \in 1..N
    <3>1. k + 1 \in s /\ k + 1 \in 1..N /\ \A x \in s : x \in 1..(k + 1) /\ x \in 1..N
      BY <1>1, <1>11, <2>1
    <3> QED BY <1>11, <3>1
  <2>3. Max(s) = n
    BY <1>11, <2>2, MaxOfSegment
  <2>4. s \ {n} = 1..k
    BY <1>11, <2>1
  <2> QED BY <1>9, <2>1, <2>2, <2>3, <2>4, Zenon
<1> DEFINE S == {n \in Nat : n <= N => iter[1..n] \in X}
<1>12. 0 \in S
  BY <1>3, <1>10
<1>13. ASSUME NEW k \in Nat, k \in S PROVE k + 1 \in S
  <2> SUFFICES ASSUME k + 1 <= N PROVE iter[1..(k + 1)] \in X
    OBVIOUS
  <2>1. k \in 0..N /\ k + 1 \in 0..N /\ k + 1 \in 1..N /\ iter[1..k] \in X
    BY <1>1, <1>13
  <2>2. iter[1..(k + 1)] = ReadStep(iter[1..k], t[k + 1])
    BY <1>11, <2>1
  <2> QED BY <1>1, <2>1, <2>2, ReadStepTyped DEF X
<1>14. \A n \in Nat : n \in S
  <2> HIDE DEF S
  <2> QED BY <1>12, <1>13, NatSetInduction
<1>15. \A n \in 0..N : iter[1..n] \in X
  BY <1>1, <1>14
<1> DEFINE g == [n \in 0..N |-> iter[1..n]]
<1>16. g \in [0..N -> X]
  BY <1>15
<1>17. g[0] = x0 /\ g[N] = iter[1..N]
  BY <1>1, <1>10
<1>18. \A k, n \in 0..N : n = k + 1 => g[n] = ReadStep(g[k], t[n])
  BY <1>11
<1> HIDE DEF g
<1> QED BY <1>1, <1>2, <1>16, <1>17, <1>18, Zenon DEF Reads, X, N, x0

(* After p characters: the last separator is at c, the current component   *)
(* is what has been read behind it, and the parts are what is kept before. *)
Reading(s, p, st, c) ==
  /\ c \in 0..p /\ Sep(s, c) /\ \A k \in (c + 1)..p : ~Sep(s, k)
  /\ st.current = SubSeq(s, c + 1, p)
  /\ \E at : Stacked(s, c, st.parts, at)

(* The components that the loop ends with are those that are kept. *)
LEMMA ComponentsKept ==
  ASSUME NEW B, "/" \in B, NEW s \in Seq(B), NEW t, t = ReplaceAll(s, "\\", "/")
  PROVE  Components(t) \in Seq(Seq(B)) /\ \E at : Stacked(s, Len(s) + 1, Components(t), at)
<1>1. PICK L \in Nat : L = Len(s)
  BY LenProperties
<1>2. \A n \in 1..L : s[n] \in B
  BY <1>1
<1>3. t \in Seq(B) /\ Len(t) = L
  BY <1>1, <1>2 DEF ReplaceAll
<1>4. ASSUME NEW n \in 1..L PROVE (Sep(s, n) => t[n] = "/") /\ (~Sep(s, n) => t[n] # "/" /\ t[n] = s[n])
  <2>1. t[n] = IF s[n] = "\\" THEN "/" ELSE s[n]
    BY <1>1 DEF ReplaceAll
  <2>2. n # 0 /\ n # Len(s) + 1
    BY <1>1
  <2> QED BY <2>1, <2>2 DEF Sep
<1>5. PICK g : Reads(B, t, g)
  BY <1>3, ComponentsRead
<1>6. /\ g \in [0..L -> ReadStates(B)] /\ g[0] = [parts |-> <<>>, current |-> <<>>]
      /\ \A k, n \in 0..L : n = k + 1 => g[n] = ReadStep(g[k], t[n])
      /\ Components(t) = Complete(g[L].parts, g[L].current)
  BY <1>3, <1>5, Zenon DEF Reads
<1> DEFINE S == {p \in Nat : p <= L => \E c : Reading(s, p, g[p], c)}
<1>7. 0 \in S
  <2>1. g[0].parts = <<>> /\ g[0].current = <<>>
    BY <1>6
  <2>2. SubSeq(s, 0 + 1, 0) = <<>>
    BY SubSeqEmpty
  <2>3. Sep(s, 0) /\ 0 \in 0..0 /\ \A k : k \notin (0 + 1)..0
    BY DEF Sep
  <2> DEFINE at == [n \in 1..0 |-> 0]
  <2>4. Stacked(s, 0, <<>>, at)
    <3>1. Len(<<>>) = 0 /\ (\A n : n \notin 1..0) /\ at \in [1..0 -> Names(s)]
      OBVIOUS
    <3>2. \A i \in Names(s) : ~(i < 0)
      <4>1. \A i \in Names(s) : i \in Nat
        BY <1>1 DEF Names, Starts
      <4> QED BY <4>1
    <3> HIDE DEF at
    <3> QED BY <3>1, <3>2, Zenon DEF Stacked
  <2> HIDE DEF at
  <2>5. Reading(s, 0, g[0], 0)
    BY <2>1, <2>2, <2>3, <2>4, Zenon DEF Reading
  <2> QED BY <2>5
<1>8. ASSUME NEW p \in Nat, p \in S PROVE p + 1 \in S
  <2> SUFFICES ASSUME p + 1 <= L PROVE \E c : Reading(s, p + 1, g[p + 1], c)
    OBVIOUS
  <2>1. PICK q : q = p + 1
    OBVIOUS
  <2>2. q \in 1..L /\ q \in 0..L /\ p \in 0..L /\ p <= L /\ q \in Nat /\ q - 1 = p
    BY <2>1
  <2>3. PICK c : Reading(s, p, g[p], c)
    BY <1>8, <2>2
  <2>4. PICK st : st = g[p]
    OBVIOUS
  <2>5. /\ c \in 0..p /\ Sep(s, c) /\ \A k \in (c + 1)..p : ~Sep(s, k)
        /\ st.current = SubSeq(s, c + 1, p)
    BY <2>3, <2>4, Zenon DEF Reading
  <2>6. PICK at : Stacked(s, c, st.parts, at)
    BY <2>3, <2>4, Zenon DEF Reading
  <2>7. st \in ReadStates(B) /\ st.parts \in Seq(Seq(B)) /\ st.current \in Seq(B)
    BY <1>6, <2>2, <2>4 DEF ReadStates
  <2>8. PICK st2 : st2 = g[q]
    OBVIOUS
  <2>9. st2 = ReadStep(st, t[q])
    BY <1>6, <2>1, <2>2, <2>4, <2>8, Zenon
  <2>10. CASE Sep(s, q)
    <3>1. Adjacent(s, c, q)
      BY <1>1, <2>1, <2>2, <2>5, <2>10 DEF Adjacent
    <3>2. Comp(s, c) = st.current
      BY <2>2, <2>5, <3>1, CompIs
    <3>3. PICK parts : parts = Complete(st.parts, st.current)
      OBVIOUS
    <3>4. st2.parts = parts /\ st2.current = <<>>
      BY <1>4, <2>2, <2>9, <2>10, <3>3 DEF ReadStep
    <3>5. \E at2 : Stacked(s, q, parts, at2)
      <4>1. \E at2 : Stacked(s, q, Complete(st.parts, Comp(s, c)), at2)
        BY <2>6, <2>7, <3>1, CompleteStep
      <4> QED BY <3>2, <3>3, <4>1
    <3>6. SubSeq(s, q + 1, q) = <<>> /\ q \in 0..q /\ \A k : k \notin (q + 1)..q
      BY <2>2, SubSeqEmpty
    <3>7. Reading(s, q, st2, q)
      BY <2>10, <3>4, <3>5, <3>6, Zenon DEF Reading
    <3> QED BY <2>1, <2>8, <3>7, Zenon
  <2>11. CASE ~Sep(s, q)
    <3>1. st2.parts = st.parts /\ st2.current = Append(st.current, s[q])
      BY <1>4, <2>2, <2>7, <2>9, <2>11 DEF ReadStep, ReadStates
    <3>2. SubSeq(s, c + 1, q) = Append(SubSeq(s, c + 1, p), s[q])
      <4>1. c + 1 \in 1..Len(s) /\ q \in (c + 1)..Len(s)
        BY <1>1, <2>1, <2>2, <2>5
      <4>2. SubSeq(s, c + 1, q) = SubSeq(s, c + 1, q - 1) \o <<s[q]>>
        BY <4>1, SubSeqRecursiveSecond
      <4>3. SubSeq(s, c + 1, p) \in Seq(B) /\ s[q] \in B
        BY <1>2, <2>2, <2>5, <2>7
      <4>4. Append(SubSeq(s, c + 1, p), s[q]) = SubSeq(s, c + 1, p) \o <<s[q]>>
        BY <4>3, AppendIsConcat
      <4> QED BY <2>2, <4>2, <4>4, Zenon
    <3>3. c \in 0..q /\ \A k \in (c + 1)..q : ~Sep(s, k)
      <4>1. \A k \in (c + 1)..q : k \in (c + 1)..p \/ k = q
        BY <2>1, <2>2, <2>5
      <4>2. c \in 0..q
        BY <2>1, <2>2, <2>5
      <4> QED BY <2>5, <2>11, <4>1, <4>2
    <3>4. Reading(s, q, st2, c)
      BY <2>5, <2>6, <3>1, <3>2, <3>3, Zenon DEF Reading
    <3> QED BY <2>1, <2>8, <3>4, Zenon
  <2> QED BY <2>10, <2>11
<1>9. \A p \in Nat : p \in S
  <2> HIDE DEF S
  <2> QED BY <1>7, <1>8, NatSetInduction
<1>10. PICK c : Reading(s, L, g[L], c)
  BY <1>9
<1>11. PICK st : st = g[L]
  OBVIOUS
<1>12. /\ c \in 0..L /\ Sep(s, c) /\ \A k \in (c + 1)..L : ~Sep(s, k)
       /\ st.current = SubSeq(s, c + 1, L)
  BY <1>10, <1>11, Zenon DEF Reading
<1>13. PICK at : Stacked(s, c, st.parts, at)
  BY <1>10, <1>11, Zenon DEF Reading
<1>14. st \in ReadStates(B) /\ st.parts \in Seq(Seq(B)) /\ st.current \in Seq(B)
  <2>1. L \in 0..L
    OBVIOUS
  <2> QED BY <1>6, <1>11, <2>1 DEF ReadStates
<1>15. PICK d : d = L + 1
  OBVIOUS
<1>16. d = Len(s) + 1 /\ d - 1 = L
  BY <1>1, <1>15
<1>17. Adjacent(s, c, d)
  BY <1>1, <1>12, <1>15, <1>16 DEF Adjacent, Sep
<1>18. Comp(s, c) = st.current
  BY <1>12, <1>16, <1>17, CompIs
<1>19. \E at2 : Stacked(s, d, Complete(st.parts, Comp(s, c)), at2)
  BY <1>13, <1>14, <1>17, CompleteStep
<1>20. Complete(st.parts, st.current) \in Seq(Seq(B))
  BY <1>14, CompleteTyped
<1> QED BY <1>6, <1>11, <1>16, <1>18, <1>19, <1>20, Zenon

(* The first a elements of a sequence. *)
Firsts(f, a) == {f[n] : n \in 1..a}

(* There are as many numbers in an increasing sequence as it is long. *)
LEMMA Counted ==
  ASSUME NEW m \in Nat, NEW f, \A n \in 1..m : f[n] \in Nat,
         \A k, n \in 1..m : k < n => f[k] < f[n], NEW a \in 0..m
  PROVE  Cardinality(Firsts(f, a)) = a
<1> DEFINE U(k) == {f[n] : n \in 1..k}
           S == {k \in Nat : k <= m => IsFiniteSet(U(k)) /\ Cardinality(U(k)) = k}
<1>1. 0 \in S
  <2>1. U(0) = {}
    OBVIOUS
  <2> QED BY <2>1, FS_EmptySet
<1>2. ASSUME NEW k \in Nat, k \in S PROVE k + 1 \in S
  <2> SUFFICES ASSUME k + 1 <= m PROVE IsFiniteSet(U(k + 1)) /\ Cardinality(U(k + 1)) = k + 1
    OBVIOUS
  <2>1. IsFiniteSet(U(k)) /\ Cardinality(U(k)) = k
    BY <1>2
  <2>2. \A n : n \in 1..(k + 1) <=> n \in 1..k \/ n = k + 1
    OBVIOUS
  <2>3. U(k + 1) = U(k) \cup {f[k + 1]}
    BY <2>2
  <2>4. f[k + 1] \notin U(k)
    <3>1. ASSUME NEW n \in 1..k PROVE f[n] # f[k + 1]
      <4>1. n \in 1..m /\ k + 1 \in 1..m /\ n < k + 1
        OBVIOUS
      <4>2. f[n] < f[k + 1] /\ f[n] \in Nat /\ f[k + 1] \in Nat
        BY <4>1
      <4> QED BY <4>2
    <3> QED BY <3>1
  <2> HIDE DEF U
  <2> QED BY <2>1, <2>3, <2>4, FS_AddElement
<1>3. \A k \in Nat : k \in S
  <2> HIDE DEF S
  <2> QED BY <1>1, <1>2, NatSetInduction
<1>4. a \in Nat /\ a <= m
  OBVIOUS
<1> HIDE DEF U
<1>5. Cardinality(U(a)) = a
  BY <1>3, <1>4
<1> QED BY <1>5 DEF U, Firsts

(* What Meaning() makes of a text without NULs. *)
MeaningOf(s) ==
  LET kept == Kept(s)
      Nth(n) == CHOOSE i \in kept : Cardinality({k \in kept : k <= i}) = n
  IN  [n \in 1..Cardinality(kept) |-> Comp(s, Nth(n))]

(* At the end of the path the positions of the parts are the ones kept, in *)
(* their order.                                                            *)
LEMMA StackedMeans ==
  ASSUME NEW C, NEW s \in Seq(C), NEW D, NEW parts \in Seq(D), NEW at, Stacked(s, Len(s) + 1, parts, at)
  PROVE  parts = MeaningOf(s)
<1>1. PICK L \in Nat : L = Len(s)
  BY LenProperties
<1>2. PICK m \in Nat : m = Len(parts)
  BY LenProperties
<1>3. PICK d : d = L + 1
  OBVIOUS
<1>4. Stacked(s, d, parts, at)
  BY <1>1, <1>3
<1>5. /\ at \in [1..m -> Names(s)]
      /\ \A n \in 1..m : OnStack(s, d, m, n, at[n]) /\ parts[n] = Comp(s, at[n])
      /\ \A k, n \in 1..m : k < n => at[k] < at[n]
      /\ \A i \in Names(s) : i < d => (\E n \in 1..m : i = at[n]) \/ Gone(s, d, i)
  BY <1>2, <1>4, Zenon DEF Stacked
<1>6. \A i \in Starts(s) : i \in Nat /\ i < d
  BY <1>1, <1>3 DEF Starts
<1>7. \A i \in Names(s) : i \in Starts(s)
  BY DEF Names
<1>8. \A n \in 1..m : at[n] \in Names(s) /\ at[n] \in Nat
  BY <1>5, <1>6, <1>7
<1>9. \A i : i \in Kept(s) <=> \E n \in 1..m : i = at[n]
  <2>1. ASSUME NEW n \in 1..m PROVE at[n] \in Kept(s)
    <3>1. PICK i : i = at[n]
      OBVIOUS
    <3>2. i \in Names(s) /\ \A j \in Starts(s) : i < j /\ j < d => Level(s, i, j) >= 1
      BY <1>5, <3>1, Zenon DEF OnStack
    <3>3. ASSUME NEW j \in Starts(s), j > i PROVE Level(s, i, j) >= 1
      <4>1. i < j /\ j < d
        BY <1>6, <1>7, <3>2, <3>3
      <4> QED BY <3>2, <4>1
    <3> QED BY <3>1, <3>2, <3>3 DEF Kept
  <2>2. ASSUME NEW i \in Kept(s) PROVE \E n \in 1..m : i = at[n]
    <3>1. i \in Names(s) /\ \A j \in Starts(s) : j > i => Level(s, i, j) >= 1
      BY DEF Kept
    <3>2. i < d
      BY <1>6, <1>7, <3>1
    <3>3. ~Gone(s, d, i)
      <4> SUFFICES ASSUME Gone(s, d, i) PROVE FALSE
        OBVIOUS
      <4>1. PICK j \in Starts(s) : i < j /\ Level(s, i, j) < 1
        BY DEF Gone
      <4>2. i \in 0..j /\ j \in 0..Len(s) /\ j > i
        BY <1>1, <1>6, <1>7, <3>1, <4>1 DEF Starts
      <4>3. LevelRule(s, j)
        BY <4>2, LevelAt
      <4>4. Level(s, i, j) \in Int
        BY <4>2, <4>3, Zenon DEF LevelRule
      <4>5. Level(s, i, j) >= 1
        BY <3>1, <4>2, Zenon
      <4> QED BY <4>1, <4>4, <4>5
    <3> QED BY <1>5, <3>1, <3>2, <3>3, Zenon
  <2> QED BY <2>1, <2>2, Zenon
<1>10. Kept(s) = Firsts(at, m)
  BY <1>9, Zenon DEF Firsts
<1>11. Cardinality(Kept(s)) = m
  <2>1. m \in 0..m
    OBVIOUS
  <2> QED BY <1>5, <1>8, <1>10, <2>1, Counted
<1> DEFINE Upto(i) == {k \in Kept(s) : k <= i}
<1>12. ASSUME NEW a \in 1..m PROVE Cardinality(Upto(at[a])) = a
  <2>1. \A n \in 1..m : at[n] <= at[a] <=> n \in 1..a
    <3> SUFFICES ASSUME NEW n \in 1..m PROVE at[n] <= at[a] <=> n \in 1..a
      OBVIOUS
    <3>1. (n < a => at[n] < at[a]) /\ (a < n => at[a] < at[n]) /\ at[n] \in Nat /\ at[a] \in Nat
      BY <1>5, <1>8
    <3>2. n < a \/ n = a \/ a < n
      OBVIOUS
    <3> QED BY <3>1, <3>2
  <2>2. \A n \in 1..a : n \in 1..m
    OBVIOUS
  <2>3. Upto(at[a]) = Firsts(at, a)
    BY <1>9, <2>1, <2>2, Zenon DEF Firsts
  <2>4. a \in 0..m
    OBVIOUS
  <2>5. Cardinality(Firsts(at, a)) = a
    BY <1>5, <1>8, <2>4, Counted
  <2> QED BY <2>3, <2>5, Zenon
<1> HIDE DEF Upto
<1>13. ASSUME NEW n \in 1..m PROVE (CHOOSE i \in Kept(s) : Cardinality(Upto(i)) = n) = at[n]
  <2>1. at[n] \in Kept(s) /\ Cardinality(Upto(at[n])) = n
    BY <1>9, <1>12
  <2>2. \A i \in Kept(s) : Cardinality(Upto(i)) = n => i = at[n]
    <3> SUFFICES ASSUME NEW i \in Kept(s), Cardinality(Upto(i)) = n PROVE i = at[n]
      OBVIOUS
    <3>1. PICK a \in 1..m : i = at[a]
      BY <1>9
    <3>2. Cardinality(Upto(at[a])) = a
      BY <1>12
    <3> QED BY <3>1, <3>2
  <2> QED BY <2>1, <2>2, Zenon
<1>14. MeaningOf(s) = [n \in 1..m |-> Comp(s, CHOOSE i \in Kept(s) : Cardinality(Upto(i)) = n)]
  BY <1>11, Zenon DEF MeaningOf, Upto
<1>15. \A n \in 1..m : parts[n] = Comp(s, CHOOSE i \in Kept(s) : Cardinality(Upto(i)) = n)
  BY <1>5, <1>13, Zenon
<1>16. parts = [n \in 1..m |-> parts[n]]
  BY <1>2
<1> QED BY <1>14, <1>15, <1>16, Zenon

(* A text stays one without its NULs. *)
LEMMA WithoutNULTyped ==
  ASSUME NEW C, NEW path \in Seq(C)
  PROVE  WithoutNUL(path) \in Seq(C)
<1> DEFINE seqs == [i \in DOMAIN path |-> IF path[i] = "NUL" THEN <<>> ELSE <<path[i]>>]
<1>1. DOMAIN path = 1..Len(path) /\ Len(path) \in Nat /\ \A i \in 1..Len(path) : path[i] \in C
  BY LenProperties
<1>2. ASSUME NEW i \in 1..Len(path) PROVE (IF path[i] = "NUL" THEN <<>> ELSE <<path[i]>>) \in Seq(C)
  <2>1. <<>> \in Seq(C) /\ <<path[i]>> \in Seq(C)
    BY <1>1, EmptySeq
  <2> QED BY <2>1
<1>3. seqs \in Seq(Seq(C)) /\ Len(seqs) \in Nat
  <2>1. PICK N \in Nat : N = Len(path)
    BY <1>1
  <2>2. seqs \in [1..N -> Seq(C)]
    BY <1>1, <1>2, <2>1
  <2> HIDE DEF seqs
  <2> QED BY <2>2
<1> HIDE DEF seqs
<1>4. PICK g : Chain(C, seqs, g)
  BY <1>3, Flattened
<1>5. 0 \in 0..Len(seqs)
  BY <1>3
<1>6. FlattenSeq(seqs) \in Seq(C)
  BY <1>3, <1>4, <1>5, ChainPrefix
<1> QED BY <1>6, Zenon DEF WithoutNUL, seqs

(* normalize_path() finds the components that a path means, for a path of  *)
(* any length.                                                             *)
LEMMA NormalizeMeans ==
  ASSUME NEW C, NEW path \in Seq(C)
  PROVE  normalize_path(path) = Meaning(path) /\ \E D : Meaning(path) \in Seq(D)
<1>1. PICK s : s = WithoutNUL(path)
  OBVIOUS
<1>2. PICK t : t = ReplaceAll(s, "\\", "/")
  OBVIOUS
<1> DEFINE B == C \cup {"/"}
<1>3. s \in Seq(B) /\ "/" \in B
  <2>1. path \in Seq(B)
    BY SeqMonotonic
  <2> HIDE DEF B
  <2>2. s \in Seq(B)
    BY <1>1, <2>1, WithoutNULTyped
  <2> QED BY <2>2 DEF B
<1> HIDE DEF B
<1>4. Components(t) \in Seq(Seq(B)) /\ \E at : Stacked(s, Len(s) + 1, Components(t), at)
  BY <1>2, <1>3, ComponentsKept
<1>5. Components(t) = MeaningOf(s)
  BY <1>3, <1>4, StackedMeans
<1>6. normalize_path(path) = Components(t)
  BY <1>1, <1>2, Zenon DEF normalize_path
<1>7. Meaning(path) = MeaningOf(s)
  <2>1. Meaning(path) = MeaningOf(WithoutNUL(path))
    BY Zenon DEF Meaning, MeaningOf
  <2> QED BY <1>1, <2>1, Zenon
<1>8. \E D : Meaning(path) \in Seq(D)
  BY <1>4, <1>5, <1>7
<1> QED BY <1>5, <1>6, <1>7, <1>8, Zenon
=============================================================================
