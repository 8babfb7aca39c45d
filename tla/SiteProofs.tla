------------------------------- MODULE SiteProofs -------------------------------
(***************************************************************************)
(* Proofs about Site: the configuration is what the command line means and *)
(* in range, url_decode() undoes the encoding, normalize_path() finds what *)
(* a path means, no file outside the root is served, the file that is      *)
(* named is, and the table of endpoints is kept.  Nothing is assumed of    *)
(* the file system but SiteAssumption, and files may come and go between   *)
(* any two steps.                                                          *)
(***************************************************************************)
EXTENDS Site, InputProofs

(* S is the text of p, whose name n begins at the position after at[n - 1]. *)
Spelled(C, p, S, at) ==
  /\ S \in Seq(C)
  /\ at \in [0..Len(p) -> Nat]
  /\ at[0] = 0
  /\ at[Len(p)] = Len(S)
  /\ \A k, n \in 0..Len(p) : n = k + 1 =>
       /\ at[n] = at[k] + 1 + Len(p[n])
       /\ at[n] <= Len(S)
       /\ S[at[k] + 1] = "/"
       /\ \A y \in 1..Len(p[n]) : S[at[k] + 1 + y] = p[n][y]

(* The text of every path is made this way. *)
LEMMA Spelling ==
  ASSUME NEW C, "/" \in C, NEW p \in Seq(Seq(C))
  PROVE  \E at : Spelled(C, p, String(p), at)
<1> DEFINE seqs == [i \in DOMAIN p |-> <<"/">> \o p[i]]
           S == FlattenSeq(seqs)
<1>1. Len(p) \in Nat /\ DOMAIN p = 1..Len(p) /\ \A n \in 1..Len(p) : p[n] \in Seq(C)
  BY LenProperties
<1>2. ASSUME NEW n \in 1..Len(p)
      PROVE  /\ seqs[n] \in Seq(C) /\ Len(p[n]) \in Nat /\ Len(seqs[n]) = 1 + Len(p[n])
             /\ seqs[n][1] = "/" /\ \A y \in 1..Len(p[n]) : seqs[n][1 + y] = p[n][y]
  <2>1. PICK t : t = p[n]
    OBVIOUS
  <2>2. t \in Seq(C) /\ seqs[n] = <<"/">> \o t
    BY <1>1, <2>1
  <2>3. PICK u : u = <<"/">> \o t
    OBVIOUS
  <2>4. <<"/">> \in Seq(C) /\ Len(<<"/">>) = 1
    OBVIOUS
  <2>5. u \in Seq(C) /\ Len(t) \in Nat /\ Len(u) = 1 + Len(t)
    <3> HIDE DEF seqs
    <3> QED BY <2>2, <2>3, <2>4, Joined
  <2>6. u[1] = "/" /\ \A y \in 1..Len(t) : u[1 + y] = t[y]
    BY <2>2, <2>3
  <2> HIDE DEF seqs
  <2> QED BY <2>1, <2>2, <2>3, <2>5, <2>6, Zenon
<1>3. seqs \in Seq(Seq(C)) /\ Len(seqs) = Len(p)
  <2>1. seqs = [i \in 1..Len(p) |-> seqs[i]]
    BY <1>1
  <2>2. PICK N : N = Len(p)
    OBVIOUS
  <2> HIDE DEF seqs
  <2> QED BY <1>1, <1>2, <2>1, <2>2
<1> HIDE DEF seqs
<1>4. PICK g : Chain(C, seqs, g)
  BY <1>3, Flattened
<1>5. ASSUME NEW n \in 0..Len(p) PROVE g[n] \in Seq(C) /\ S \in Seq(C)
  BY <1>3, <1>4, <1>5, ChainPrefix
<1> DEFINE at == [n \in 0..Len(p) |-> Len(g[n])]
<1>6. S \in Seq(C) /\ at \in [0..Len(p) -> Nat]
  <2>1. 0 \in 0..Len(p)
    BY <1>1
  <2> QED BY <1>5, <2>1, LenProperties
<1>7. at[0] = 0 /\ at[Len(p)] = Len(S)
  BY <1>1, <1>3, <1>4 DEF Chain
<1>8. ASSUME NEW k \in 0..Len(p), NEW n \in 0..Len(p), n = k + 1
      PROVE  /\ at[n] = at[k] + 1 + Len(p[n])
             /\ at[n] <= Len(S)
             /\ S[at[k] + 1] = "/"
             /\ \A y \in 1..Len(p[n]) : S[at[k] + 1 + y] = p[n][y]
  <2>1. /\ Len(g[n]) = Len(g[k]) + Len(seqs[n])
        /\ Len(g[n]) <= Len(S)
        /\ \A y \in 1..Len(seqs[n]) : S[Len(g[k]) + y] = seqs[n][y]
    <3>1. k \in 0..Len(seqs) /\ n \in 0..Len(seqs)
      BY <1>3
    <3> HIDE DEF at
    <3>2. ChainLink(seqs, g, k, n)
      BY <1>3, <1>4, <1>8, <3>1, ChainLinks
    <3> QED BY <3>2, Zenon DEF ChainLink
  <2>2. n \in 1..Len(p)
    BY <1>1, <1>8
  <2>3. PICK a, t, l : a = Len(g[k]) /\ t = p[n] /\ l = Len(t)
    OBVIOUS
  <2>4. a \in Nat /\ at[k] = a /\ at[n] = Len(g[n])
    BY <1>6, <2>3
  <2>5. l \in Nat /\ Len(seqs[n]) = 1 + l
    BY <1>2, <2>2, <2>3, Zenon
  <2> HIDE DEF S, at
  <2>6. at[n] = a + 1 + l /\ at[n] <= Len(S)
    <3>1. PICK b, c : b = Len(g[n]) /\ c = Len(seqs[n])
      OBVIOUS
    <3>2. b = a + c /\ c = 1 + l /\ b <= Len(S)
      BY <2>1, <2>3, <2>5, <3>1, Zenon
    <3> QED BY <2>4, <2>5, <3>1, <3>2
  <2>7. S[a + 1] = "/"
    <3>1. 1 \in 1..Len(seqs[n])
      BY <2>5
    <3> QED BY <1>2, <2>1, <2>2, <2>3, <3>1, Zenon
  <2>8. ASSUME NEW y \in 1..l PROVE S[a + 1 + y] = t[y]
    <3>1. 1 + y \in 1..Len(seqs[n]) /\ a + (1 + y) = a + 1 + y
      BY <2>4, <2>5
    <3>2. S[a + (1 + y)] = seqs[n][1 + y]
      BY <2>1, <2>3, <3>1, Zenon
    <3>3. seqs[n][1 + y] = t[y]
      BY <1>2, <2>2, <2>3, Zenon
    <3> QED BY <3>1, <3>2, <3>3, Zenon
  <2> QED BY <2>3, <2>4, <2>6, <2>7, <2>8, Zenon
<1>9. String(p) = S
  BY Zenon DEF String, S, seqs
<1> HIDE DEF S, at
<1>10. Spelled(C, p, S, at)
  BY <1>6, <1>7, <1>8, Zenon DEF Spelled
<1> QED BY <1>9, <1>10, Zenon

(* The name a stands in the text F behind a slash, at o + 1. *)
Holds(F, o, a) == \A y \in 1..Len(a) : F[o + 1 + y] = a[y] /\ a[y] # "/"

(* A text that holds the names a and b at the same place, a with a slash   *)
(* behind it, b with one or at the end.                                    *)
LEMMA SameName ==
  ASSUME NEW C, NEW a \in Seq(C), NEW b \in Seq(C), NEW F, NEW o \in Nat, NEW L \in Nat,
         Holds(F, o, a), Holds(F, o, b),
         o + 2 + Len(a) <= L, F[o + 2 + Len(a)] = "/",
         o + 1 + Len(b) = L \/ F[o + 2 + Len(b)] = "/"
  PROVE  a = b
<1>1. PICK la, lb \in Nat : la = Len(a) /\ lb = Len(b)
  BY LenProperties
<1>2. ~(lb < la)
  <2> SUFFICES ASSUME lb < la PROVE FALSE
    OBVIOUS
  <2>1. lb + 1 \in 1..la /\ o + 1 + (lb + 1) = o + 2 + lb
    OBVIOUS
  <2>2. F[o + 1 + (lb + 1)] = a[lb + 1] /\ a[lb + 1] # "/"
    BY <1>1, <2>1, Zenon DEF Holds
  <2>3. o + 1 + lb # L
    BY <1>1
  <2> QED BY <1>1, <2>1, <2>2, <2>3
<1>3. ~(la < lb)
  <2> SUFFICES ASSUME la < lb PROVE FALSE
    OBVIOUS
  <2>1. la + 1 \in 1..lb /\ o + 1 + (la + 1) = o + 2 + la
    OBVIOUS
  <2>2. F[o + 1 + (la + 1)] = b[la + 1] /\ b[la + 1] # "/"
    BY <1>1, <2>1, Zenon DEF Holds
  <2> QED BY <1>1, <2>1, <2>2
<1>4. Len(a) = Len(b)
  BY <1>1, <1>2, <1>3
<1>5. ASSUME NEW y \in 1..Len(a) PROVE a[y] = b[y]
  <2>1. y \in 1..Len(b)
    BY <1>4
  <2> QED BY <2>1, Zenon DEF Holds
<1> QED BY <1>4, <1>5, SeqEqual

(* No name of p contains a slash. *)
Plain(p) == \A n \in 1..Len(p) : \A y \in 1..Len(p[n]) : p[n][y] # "/"

(* The comparison of texts in serve() is one of paths: where no name       *)
(* contains a slash, a file whose text starts with the root's and a slash  *)
(* is strictly below the root.  (The names of the root agree with the      *)
(* file's first ones, by induction over how many.)                         *)
LEMMA WithinIsBelow ==
  ASSUME NEW C, "/" \in C, NEW root \in Seq(Seq(C)), NEW file \in Seq(Seq(C)),
         Plain(root), Plain(file), Within(file, root)
  PROVE  IsStrictPrefix(root, file)
<1>1. PICK R, F : R = String(root) /\ F = String(file)
  OBVIOUS
<1>2. PICK at : Spelled(C, root, R, at)
  BY <1>1, Spelling
<1>3. PICK bt : Spelled(C, file, F, bt)
  BY <1>1, Spelling
<1>4. PICK m, n \in Nat : m = Len(root) /\ n = Len(file)
  BY LenProperties
<1>5. R \in Seq(C) /\ F \in Seq(C) /\ Len(R) \in Nat /\ Len(F) \in Nat
  BY <1>2, <1>3, LenProperties DEF Spelled
<1>6. Len(R) + 1 <= Len(F) /\ F[Len(R) + 1] = "/" /\ \A x \in 1..Len(R) : F[x] = R[x]
  <2>1. PICK u : u = R \o <<"/">>
    OBVIOUS
  <2>2. <<"/">> \in Seq(C) /\ Len(<<"/">>) = 1 /\ <<"/">>[1] = "/"
    OBVIOUS
  <2>3. u \in Seq(C) /\ Len(u) = Len(R) + 1 /\ u[Len(R) + 1] = "/"
    BY <1>5, <2>1, <2>2
  <2>4. \A x \in 1..Len(R) : u[x] = R[x] /\ x \in 1..Len(u)
    BY <1>5, <2>1, <2>2, Joined
  <2>5. IsPrefix(u, F)
    BY <1>1, <2>1, Zenon DEF Within
  <2>6. Len(u) <= Len(F) /\ \A x \in 1..Len(u) : F[x] = u[x]
    BY <1>5, <2>3, <2>5, PrefixAgrees
  <2>7. Len(R) + 1 \in 1..Len(u)
    BY <1>5, <2>3
  <2> QED BY <2>3, <2>4, <2>6, <2>7
<1> DEFINE Same(i) == i <= n /\ at[i] = bt[i] /\ \A j \in 1..i : root[j] = file[j]
           S == {i \in Nat : i <= m => Same(i)}
<1>7. 0 \in S
  BY <1>2, <1>3 DEF Spelled
<1>8. ASSUME NEW k \in Nat, k \in S PROVE k + 1 \in S
  <2> SUFFICES ASSUME k + 1 <= m PROVE Same(k + 1)
    OBVIOUS
  <2>1. PICK i : i = k + 1
    OBVIOUS
  <2>2. k \in 0..m /\ i \in 0..m /\ i \in 1..m /\ k <= m
    BY <2>1
  <2>3. Same(k)
    BY <1>8, <2>2
  <2>4. PICK o : o = at[k]
    OBVIOUS
  <2>5. PICK a : a = root[i]
    OBVIOUS
  <2>6. /\ o \in Nat /\ a \in Seq(C) /\ at[i] = o + 1 + Len(a) /\ at[i] <= Len(R) /\ R[o + 1] = "/"
        /\ \A y \in 1..Len(a) : R[o + 1 + y] = a[y] /\ a[y] # "/"
    <3>1. at \in [0..m -> Nat]
      BY <1>2, <1>4, Zenon DEF Spelled
    <3>2. /\ at[i] = o + 1 + Len(a) /\ at[i] <= Len(R) /\ R[o + 1] = "/"
          /\ \A y \in 1..Len(a) : R[o + 1 + y] = a[y]
      BY <1>2, <1>4, <2>1, <2>2, <2>4, <2>5, Zenon DEF Spelled
    <3>3. a \in Seq(C) /\ \A y \in 1..Len(a) : a[y] # "/"
      BY <1>4, <2>2, <2>5, LenProperties DEF Plain
    <3> QED BY <2>2, <2>4, <3>1, <3>2, <3>3
  <2>7. Len(a) \in Nat /\ o + 1 <= Len(R)
    BY <1>5, <2>6, LenProperties
  <2>8. k \in 0..n /\ i \in 0..n /\ i \in 1..n
    <3>1. bt[n] = Len(F)
      BY <1>3, <1>4, Zenon DEF Spelled
    <3>2. k <= n /\ bt[k] = o
      BY <2>3, <2>4
    <3>3. k # n
      BY <1>5, <1>6, <2>6, <2>7, <3>1, <3>2
    <3> QED BY <2>1, <3>2, <3>3
  <2>9. PICK b : b = file[i]
    OBVIOUS
  <2>10. /\ b \in Seq(C) /\ Len(b) \in Nat /\ bt[i] = o + 1 + Len(b)
         /\ \A y \in 1..Len(b) : F[o + 1 + y] = b[y] /\ b[y] # "/"
    <3>1. bt[k] = o
      BY <2>3, <2>4
    <3>2. bt[i] = o + 1 + Len(b) /\ \A y \in 1..Len(b) : F[o + 1 + y] = b[y]
      BY <1>3, <1>4, <2>1, <2>8, <2>9, <3>1, Zenon DEF Spelled
    <3>3. b \in Seq(C) /\ Len(b) \in Nat /\ \A y \in 1..Len(b) : b[y] # "/"
      BY <1>4, <2>8, <2>9, LenProperties DEF Plain
    <3> QED BY <3>2, <3>3
  <2>11. \A y \in 1..Len(a) : F[o + 1 + y] = a[y]
    <3> SUFFICES ASSUME NEW y \in 1..Len(a) PROVE F[o + 1 + y] = a[y]
      OBVIOUS
    <3>1. o + 1 + y \in 1..Len(R)
      BY <1>5, <2>6, <2>7
    <3> QED BY <1>6, <2>6, <3>1, Zenon
  <2>12. o + 2 + Len(a) <= Len(F) /\ F[o + 2 + Len(a)] = "/"
    <3>1. CASE i = m
      <4>1. at[i] = Len(R)
        BY <1>2, <1>4, <3>1, Zenon DEF Spelled
      <4>2. Len(R) + 1 = o + 2 + Len(a)
        <5>1. PICK r, l \in Nat : r = Len(R) /\ l = Len(a)
          BY <1>5, <2>7
        <5>2. r = o + 1 + l
          BY <2>6, <4>1, <5>1, Zenon
        <5> QED BY <2>6, <5>1, <5>2
      <4> QED BY <1>6, <4>2, Zenon
    <3>2. CASE i # m
      <4>1. PICK j : j = i + 1
        OBVIOUS
      <4>2. j \in 0..m /\ j \in 1..m
        BY <2>2, <3>2, <4>1
      <4>3. at[j] = at[i] + 1 + Len(root[j]) /\ at[j] <= Len(R) /\ R[at[i] + 1] = "/"
        BY <1>2, <1>4, <2>2, <4>1, <4>2, Zenon DEF Spelled
      <4>4. Len(root[j]) \in Nat
        BY <1>4, <4>2, LenProperties
      <4>5. PICK l, p, c : l = Len(root[j]) /\ p = Len(a) /\ c = at[j]
        OBVIOUS
      <4>6. l \in Nat /\ p \in Nat /\ c = (o + 1 + p) + 1 + l /\ c <= Len(R) /\ R[(o + 1 + p) + 1] = "/"
        BY <2>6, <2>7, <4>3, <4>4, <4>5, Zenon
      <4>7. o + 2 + p = (o + 1 + p) + 1 /\ o + 2 + p \in 1..Len(R) /\ o + 2 + p <= Len(F)
        BY <1>5, <1>6, <2>6, <4>6
      <4> QED BY <1>6, <4>5, <4>6, <4>7, Zenon
    <3> QED BY <3>1, <3>2
  <2>13. o + 1 + Len(b) = Len(F) \/ F[o + 2 + Len(b)] = "/"
    <3>1. CASE i = n
      <4>1. bt[n] = Len(F)
        BY <1>3, <1>4, Zenon DEF Spelled
      <4> QED BY <2>10, <3>1, <4>1
    <3>2. CASE i # n
      <4>1. PICK j : j = i + 1
        OBVIOUS
      <4>2. j \in 0..n
        BY <2>8, <3>2, <4>1
      <4>3. F[bt[i] + 1] = "/"
        BY <1>3, <1>4, <2>8, <4>1, <4>2, Zenon DEF Spelled
      <4>4. bt[i] + 1 = o + 2 + Len(b)
        BY <2>6, <2>10
      <4> QED BY <4>3, <4>4, Zenon
    <3> QED BY <3>1, <3>2
  <2>14. a = b
    <3>1. Holds(F, o, a) /\ Holds(F, o, b)
      BY <2>6, <2>10, <2>11 DEF Holds
    <3> HIDE DEF S, Same
    <3> QED BY <1>5, <2>6, <2>10, <2>12, <2>13, <3>1, SameName
  <2>15. at[i] = bt[i]
    BY <2>6, <2>10, <2>14, Zenon
  <2>16. ASSUME NEW j \in 1..i PROVE root[j] = file[j]
    <3>1. j \in 1..k \/ j = i
      BY <2>1
    <3>2. \A l \in 1..k : root[l] = file[l]
      BY <2>3
    <3> QED BY <2>5, <2>9, <2>14, <3>1, <3>2, Zenon
  <2>17. i <= n
    BY <2>8
  <2>18. Same(i)
    BY <2>15, <2>16, <2>17, Zenon
  <2> QED BY <2>1, <2>18, Zenon
<1>9. Same(m)
  <2>1. \A i \in Nat : i \in S
    <3> HIDE DEF S
    <3> QED BY <1>7, <1>8, NatSetInduction
  <2> QED BY <2>1
<1>10. IsPrefix(root, file)
  <2>1. m <= n /\ \A j \in 1..m : root[j] = file[j]
    BY <1>9
  <2>2. SubSeq(root, 1, m) = SubSeq(file, 1, m)
    BY <1>4, <2>1
  <2> QED BY <1>4, <2>1, <2>2 DEF IsPrefix
<1>11. root # file
  <2>1. at[m] = Len(R) /\ bt[n] = Len(F)
    BY <1>2, <1>3, <1>4, Zenon DEF Spelled
  <2>2. m # n
    <3> SUFFICES ASSUME m = n PROVE FALSE
      OBVIOUS
    <3>1. PICK r, f \in Nat : r = Len(R) /\ f = Len(F)
      BY <1>5
    <3>2. r = f
      BY <1>9, <2>1, <3>1, Zenon
    <3> QED BY <1>6, <3>1, <3>2
  <2> QED BY <1>4, <2>2
<1> QED BY <1>10, <1>11 DEF IsStrictPrefix

(* Conversely, the text of a path strictly below the root starts with the  *)
(* root's text and a slash.                                                *)
LEMMA BelowIsWithin ==
  ASSUME NEW C, "/" \in C, NEW root \in Seq(Seq(C)), NEW file \in Seq(Seq(C)), IsStrictPrefix(root, file)
  PROVE  Within(file, root)
<1>1. PICK R, F : R = String(root) /\ F = String(file)
  OBVIOUS
<1>2. PICK at : Spelled(C, root, R, at)
  BY <1>1, Spelling
<1>3. PICK bt : Spelled(C, file, F, bt)
  BY <1>1, Spelling
<1>4. PICK m, n \in Nat : m = Len(root) /\ n = Len(file)
  BY LenProperties
<1>5. R \in Seq(C) /\ F \in Seq(C) /\ Len(R) \in Nat /\ Len(F) \in Nat
  BY <1>2, <1>3, LenProperties DEF Spelled
<1>6. m < n /\ \A j \in 1..m : file[j] = root[j]
  <2>1. IsPrefix(root, file) /\ root # file
    BY DEF IsStrictPrefix
  <2>2. Len(root) <= Len(file) /\ \A j \in 1..Len(root) : file[j] = root[j]
    BY <2>1, PrefixAgrees
  <2>3. m # n
    <3> SUFFICES ASSUME m = n PROVE FALSE
      OBVIOUS
    <3>1. Len(root) = Len(file) /\ \A j \in 1..Len(root) : root[j] = file[j]
      BY <1>4, <2>2
    <3> QED BY <2>1, <3>1, SeqEqual
  <2> QED BY <1>4, <2>2, <2>3
<1> DEFINE Same(i) == at[i] = bt[i] /\ at[i] \in Nat /\ \A x \in 1..at[i] : F[x] = R[x]
           S == {i \in Nat : i <= m => Same(i)}
<1>7. 0 \in S
  <2>1. at[0] = 0 /\ bt[0] = 0
    BY <1>2, <1>3, Zenon DEF Spelled
  <2> QED BY <2>1
<1>8. ASSUME NEW k \in Nat, k \in S PROVE k + 1 \in S
  <2> SUFFICES ASSUME k + 1 <= m PROVE Same(k + 1)
    OBVIOUS
  <2>1. PICK i : i = k + 1
    OBVIOUS
  <2>2. k \in 0..m /\ i \in 0..m /\ i \in 1..m /\ k <= m /\ k \in 0..n /\ i \in 0..n
    BY <1>6, <2>1
  <2>3. Same(k)
    BY <1>8, <2>2
  <2>4. PICK o, a : o = at[k] /\ a = root[i]
    OBVIOUS
  <2>5. a \in Seq(C) /\ file[i] = a
    BY <1>4, <1>6, <2>2, <2>4
  <2>6. PICK l \in Nat : l = Len(a)
    BY <2>5, LenProperties
  <2>7. /\ at[i] = o + 1 + l /\ R[o + 1] = "/" /\ \A y \in 1..l : R[o + 1 + y] = a[y]
    BY <1>2, <1>4, <2>1, <2>2, <2>4, <2>6, Zenon DEF Spelled
  <2>8. bt[k] = o /\ o \in Nat /\ \A x \in 1..o : F[x] = R[x]
    BY <2>3, <2>4
  <2>9. /\ bt[i] = o + 1 + l /\ F[o + 1] = "/" /\ \A y \in 1..l : F[o + 1 + y] = a[y]
    BY <1>3, <1>4, <2>1, <2>2, <2>5, <2>6, <2>8, Zenon DEF Spelled
  <2>10. ASSUME NEW x \in 1..(o + 1 + l) PROVE F[x] = R[x]
    <3>1. CASE x \in 1..o
      BY <2>8, <3>1
    <3>2. CASE x = o + 1
      BY <2>7, <2>9, <3>2, Zenon
    <3>3. CASE x > o + 1
      <4>1. PICK y : y = x - (o + 1)
        OBVIOUS
      <4>2. y \in 1..l /\ x = o + 1 + y
        BY <2>8, <3>3, <4>1
      <4> QED BY <2>7, <2>9, <4>2, Zenon
    <3> QED BY <2>8, <3>1, <3>2, <3>3
  <2>11. PICK z : z = o + 1 + l
    OBVIOUS
  <2>12. at[i] = z /\ bt[i] = z /\ z \in Nat /\ \A x \in 1..z : F[x] = R[x]
    <3>1. z \in Nat
      BY <2>8, <2>11
    <3> QED BY <2>7, <2>9, <2>10, <2>11, <3>1, Zenon
  <2>13. Same(i)
    BY <2>12, Zenon
  <2> QED BY <2>1, <2>13, Zenon
<1>9. Same(m)
  <2>1. \A i \in Nat : i \in S
    <3> HIDE DEF S
    <3> QED BY <1>7, <1>8, NatSetInduction
  <2> QED BY <2>1
<1>10. PICK r \in Nat : r = Len(R)
  BY <1>5
<1>11. bt[m] = r /\ \A x \in 1..r : F[x] = R[x]
  <2>1. at[m] = r
    BY <1>2, <1>4, <1>10, Zenon DEF Spelled
  <2> QED BY <1>9, <2>1
<1>12. r + 1 <= Len(F) /\ F[r + 1] = "/"
  <2>1. PICK j : j = m + 1
    OBVIOUS
  <2>2. m \in 0..n /\ j \in 0..n /\ j \in 1..n
    BY <1>6, <2>1
  <2>3. bt[j] = r + 1 + Len(file[j]) /\ bt[j] <= Len(F) /\ F[r + 1] = "/"
    BY <1>3, <1>4, <1>11, <2>1, <2>2, Zenon DEF Spelled
  <2>4. PICK l \in Nat : l = Len(file[j])
    BY <1>4, <2>2, LenProperties
  <2>5. PICK b, f \in Nat : b = bt[j] /\ f = Len(F)
    <3>1. r + 1 + l \in Nat
      OBVIOUS
    <3> QED BY <1>5, <2>3, <2>4, <3>1
  <2>6. b = r + 1 + l /\ b <= f
    BY <2>3, <2>4, <2>5, Zenon
  <2>7. r + 1 <= f
    BY <2>6
  <2> QED BY <2>3, <2>5, <2>7
<1>13. PICK u : u = R \o <<"/">>
  OBVIOUS
<1>14. u \in Seq(C) /\ Len(u) = r + 1 /\ u[r + 1] = "/" /\ \A x \in 1..r : u[x] = R[x]
  <2>1. <<"/">> \in Seq(C) /\ Len(<<"/">>) = 1 /\ <<"/">>[1] = "/"
    OBVIOUS
  <2>2. u \in Seq(C) /\ Len(u) = r + 1 /\ u[r + 1] = "/"
    BY <1>5, <1>10, <1>13, <2>1
  <2>3. \A x \in 1..Len(R) : u[x] = R[x]
    BY <1>5, <1>13, <2>1, Joined
  <2> QED BY <1>10, <2>2, <2>3
<1>15. \A x \in 1..(r + 1) : u[x] = F[x]
  <2>1. \A x \in 1..(r + 1) : x \in 1..r \/ x = r + 1
    OBVIOUS
  <2> QED BY <1>11, <1>12, <1>14, <2>1
<1>16. SubSeq(u, 1, Len(u)) = SubSeq(F, 1, Len(u))
  <2> HIDE DEF S, Same
  <2> QED BY <1>5, <1>12, <1>14, <1>15
<1>17. IsPrefix(u, F)
  BY <1>12, <1>14, <1>16 DEF IsPrefix
<1> QED BY <1>1, <1>13, <1>17, Zenon DEF Within

-----------------------------------------------------------------------------
(* Where there may be something. *)
Places == DOMAIN Tree \cup {<<>>}

(* Where a name leads from the directories in D. *)
Into(gone, D, name) == UNION {Enter(gone, d, name) : d \in D}

(* g holds where the first n names of p lead. *)
Walk(gone, p, g) ==
  /\ g \in [0..Len(p) -> SUBSET Places]
  /\ g[0] = {<<>>}
  /\ \A k, n \in 0..Len(p) : n = k + 1 => g[n] = Into(gone, g[k], p[n])
  /\ CanonicalWithout(gone, p) = g[Len(p)]

(* What a name leads to is there, and is what it leads to when nothing is  *)
(* missing.                                                                *)
LEMMA EnterPlaces ==
  ASSUME NEW gone, NEW d, NEW name, NEW q \in Enter(gone, d, name)
  PROVE  q \in Places /\ ExistsWithout(gone, q) /\ q \in Enter({}, d, name)
<1>1. PICK e : e = Append(d, name)
  OBVIOUS
<1>2. /\ ExistsWithout(gone, e)
      /\ q \in IF Tree[e].kind = "link" THEN {t \in {Tree[e].to} : ExistsWithout(gone, t)} ELSE {e}
  BY <1>1, Zenon DEF Enter
<1>3. ExistsWithout(gone, q) /\ (Tree[e].kind = "link" => q = Tree[e].to) /\ (Tree[e].kind # "link" => q = e)
  BY <1>2
<1>4. \A x : ExistsWithout(gone, x) => ExistsWithout({}, x) /\ x \in Places
  BY DEF ExistsWithout, Places
<1>5. q \in IF Tree[e].kind = "link" THEN {t \in {Tree[e].to} : ExistsWithout({}, t)} ELSE {e}
  BY <1>3, <1>4
<1> QED BY <1>1, <1>2, <1>3, <1>4, <1>5, Zenon DEF Enter

(* The recursion of fs::canonical() has a solution. *)
LEMMA Walks ==
  ASSUME NEW C, NEW gone, NEW p \in Seq(C)
  PROVE  \E g : Walk(gone, p, g)
<1> DEFINE N == Len(p)
           X == SUBSET Places
           E == [n \in Nat |-> [D \in X |-> Into(gone, D, p[n])]]
<1>1. N \in Nat /\ {<<>>} \in X
  BY LenProperties DEF Places
<1>2. E \in [Nat -> [X -> X]]
  <2>1. ASSUME NEW n \in Nat, NEW D \in X PROVE Into(gone, D, p[n]) \in X
    BY EnterPlaces DEF Into
  <2> HIDE DEF X
  <2> QED BY <2>1
<1>3. ASSUME NEW n \in Nat, NEW D \in X PROVE E[n][D] = Into(gone, D, p[n])
  <2> HIDE DEF X
  <2> QED OBVIOUS
<1>4. CanonicalWithout(gone, p) =
        LET r[n \in 0..N] == IF n = 0 THEN {<<>>} ELSE Into(gone, r[n - 1], p[n]) IN r[N]
  BY Zenon DEF CanonicalWithout, Into
<1> HIDE DEF N, X, E
<1>5. PICK g : Iteration(X, {<<>>}, E, N, g)
  BY <1>1, <1>2, Iterates
<1>6. g \in [0..N -> X] /\ g[0] = {<<>>}
  BY <1>5 DEF Iteration
<1>7. ASSUME NEW k \in 0..N, NEW n \in 0..N, n = k + 1 PROVE g[n] = Into(gone, g[k], p[n])
  <2>1. g[n] = E[n][g[k]]
    BY <1>5, <1>7, Zenon DEF Iteration
  <2>2. g[k] \in X /\ n \in Nat
    BY <1>1, <1>6
  <2> QED BY <1>3, <2>1, <2>2, Zenon
<1>8. CanonicalWithout(gone, p) = g[N]
  <2> DEFINE Step(r) == [n \in 0..N |-> IF n = 0 THEN {<<>>} ELSE Into(gone, r[n - 1], p[n])]
             r == CHOOSE r : r = Step(r)
  <2>1. g = Step(g)
    <3>1. g = [n \in 0..N |-> g[n]]
      BY <1>6
    <3>2. ASSUME NEW n \in 0..N PROVE g[n] = IF n = 0 THEN {<<>>} ELSE Into(gone, g[n - 1], p[n])
      <4>1. CASE n # 0
        <5>1. PICK k : k = n - 1
          OBVIOUS
        <5>2. k \in 0..N /\ n = k + 1
          BY <1>1, <4>1, <5>1
        <5> QED BY <1>7, <4>1, <5>1, <5>2, Zenon
      <4> QED BY <1>6, <4>1
    <3> QED BY <3>1, <3>2
  <2>2. r = Step(r)
    <3> HIDE DEF Step
    <3> QED BY <2>1, Zenon
  <2>3. CanonicalWithout(gone, p) = r[N]
    BY <1>4, Zenon
  <2>4. ASSUME NEW n \in 0..N PROVE r[n] = IF n = 0 THEN {<<>>} ELSE Into(gone, r[n - 1], p[n])
    <3> HIDE DEF r
    <3> QED BY <2>2
  <2> HIDE DEF r
  <2> DEFINE S == {n \in Nat : n \in 0..N => r[n] = g[n]}
  <2>5. 0 \in S
    BY <1>6, <2>4
  <2>6. ASSUME NEW k \in Nat, k \in S PROVE k + 1 \in S
    <3> SUFFICES ASSUME k + 1 \in 0..N PROVE r[k + 1] = g[k + 1]
      OBVIOUS
    <3>1. PICK n : n = k + 1
      OBVIOUS
    <3>2. n \in 0..N /\ k \in 0..N /\ n # 0 /\ k = n - 1
      BY <1>1, <3>1
    <3>3. r[n] = Into(gone, r[k], p[n])
      BY <2>4, <3>2, Zenon
    <3>4. r[k] = g[k]
      BY <2>6, <3>2
    <3>5. g[n] = Into(gone, g[k], p[n])
      BY <1>7, <3>1, <3>2, Zenon
    <3> QED BY <3>1, <3>3, <3>4, <3>5, Zenon
  <2>7. \A n \in Nat : n \in S
    <3> HIDE DEF S
    <3> QED BY <2>5, <2>6, NatSetInduction
  <2>8. N \in 0..N
    BY <1>1
  <2> QED BY <1>1, <2>3, <2>7, <2>8
<1> QED BY <1>6, <1>7, <1>8, Zenon DEF Walk, N, X

(* What fs::canonical() finds is there, and is what it finds when nothing  *)
(* is missing.                                                             *)
LEMMA CanonicalFound ==
  ASSUME NEW C, NEW gone, NEW p \in Seq(C), NEW q \in CanonicalWithout(gone, p)
  PROVE  q \in Places /\ ExistsWithout(gone, q) /\ q \in CanonicalWithout({}, p)
<1>1. PICK g : Walk(gone, p, g)
  BY Walks
<1>2. PICK h : Walk({}, p, h)
  BY Walks
<1>3. PICK N \in Nat : N = Len(p)
  BY LenProperties
<1> DEFINE Ok(n) == \A d \in g[n] : d \in Places /\ ExistsWithout(gone, d) /\ d \in h[n]
           S == {n \in Nat : n \in 0..N => Ok(n)}
<1>4. 0 \in S
  BY <1>1, <1>2 DEF Walk, Places, ExistsWithout
<1>5. ASSUME NEW k \in Nat, k \in S PROVE k + 1 \in S
  <2> SUFFICES ASSUME k + 1 \in 0..N PROVE Ok(k + 1)
    OBVIOUS
  <2>1. PICK n : n = k + 1
    OBVIOUS
  <2>2. n \in 0..N /\ k \in 0..N /\ n \in 0..Len(p) /\ k \in 0..Len(p)
    BY <1>3, <2>1
  <2>3. g[n] = Into(gone, g[k], p[n])
    BY <1>1, <2>1, <2>2, Zenon DEF Walk
  <2>4. h[n] = Into({}, h[k], p[n])
    BY <1>2, <2>1, <2>2, Zenon DEF Walk
  <2>5. Ok(k)
    BY <1>5, <2>2
  <2>6. ASSUME NEW e \in g[n] PROVE e \in Places /\ ExistsWithout(gone, e) /\ e \in h[n]
    <3>1. PICK d \in g[k] : e \in Enter(gone, d, p[n])
      BY <2>3 DEF Into
    <3>2. e \in Places /\ ExistsWithout(gone, e) /\ e \in Enter({}, d, p[n])
      BY <3>1, EnterPlaces
    <3>3. d \in h[k]
      BY <2>5
    <3>4. e \in h[n]
      BY <2>4, <3>2, <3>3 DEF Into
    <3> QED BY <3>2, <3>4
  <2>7. Ok(n)
    BY <2>6
  <2> QED BY <2>1, <2>7, Zenon
<1>6. \A n \in Nat : n \in S
  <2> HIDE DEF S
  <2> QED BY <1>4, <1>5, NatSetInduction
<1>7. Ok(N)
  BY <1>6
<1>8. CanonicalWithout(gone, p) = g[N] /\ CanonicalWithout({}, p) = h[N]
  BY <1>1, <1>2, <1>3, Zenon DEF Walk
<1> QED BY <1>7, <1>8, Zenon

(* fs::canonical() finds at most one path. *)
LEMMA CanonicalUnique ==
  ASSUME NEW C, NEW gone, NEW p \in Seq(C),
         NEW q \in CanonicalWithout(gone, p), NEW r \in CanonicalWithout(gone, p)
  PROVE  q = r
<1>1. PICK g : Walk(gone, p, g)
  BY Walks
<1>2. PICK N \in Nat : N = Len(p)
  BY LenProperties
<1>3. ASSUME NEW d, NEW name, NEW x \in Enter(gone, d, name), NEW y \in Enter(gone, d, name)
      PROVE  x = y
  BY DEF Enter
<1> DEFINE One(n) == \A x, y \in g[n] : x = y
           S == {n \in Nat : n \in 0..N => One(n)}
<1>4. 0 \in S
  BY <1>1 DEF Walk
<1>5. ASSUME NEW k \in Nat, k \in S PROVE k + 1 \in S
  <2> SUFFICES ASSUME k + 1 \in 0..N PROVE One(k + 1)
    OBVIOUS
  <2>1. PICK n : n = k + 1
    OBVIOUS
  <2>2. n \in 0..Len(p) /\ k \in 0..Len(p) /\ k \in 0..N
    BY <1>2, <2>1
  <2>3. g[n] = Into(gone, g[k], p[n])
    BY <1>1, <2>1, <2>2, Zenon DEF Walk
  <2>4. One(k)
    BY <1>5, <2>2
  <2>5. ASSUME NEW x \in g[n], NEW y \in g[n] PROVE x = y
    <3>1. PICK d \in g[k] : x \in Enter(gone, d, p[n])
      BY <2>3 DEF Into
    <3>2. PICK e \in g[k] : y \in Enter(gone, e, p[n])
      BY <2>3 DEF Into
    <3>3. d = e
      BY <2>4
    <3> QED BY <1>3, <3>1, <3>2, <3>3
  <2> QED BY <2>1, <2>5, Zenon
<1>6. \A n \in Nat : n \in S
  <2> HIDE DEF S
  <2> QED BY <1>4, <1>5, NatSetInduction
<1>7. One(N)
  BY <1>6
<1>8. CanonicalWithout(gone, p) = g[N]
  BY <1>1, <1>2, Zenon DEF Walk
<1> QED BY <1>7, <1>8, Zenon

(* The root directory is always there. *)
LEMMA CanonicalRoot ==
  ASSUME NEW gone
  PROVE  CanonicalWithout(gone, <<>>) = {<<>>}
<1>1. <<>> \in Seq({}) /\ Len(<<>>) = 0
  OBVIOUS
<1>2. PICK g : Walk(gone, <<>>, g)
  BY <1>1, Walks
<1> QED BY <1>1, <1>2, Zenon DEF Walk

(* weakly_canonical() is a path, and what fs::canonical() finds if it      *)
(* finds anything.                                                         *)
LEMMA WeaklyCanonicalIsPath ==
  ASSUME NEW C, NEW p \in Seq(C), Places \subseteq Seq(C)
  PROVE  weakly_canonical(p) \in Seq(C)
<1> DEFINE Found(i) == Canonical(SubSeq(p, 1, i)) # {}
           Longest(i) == Found(i) /\ \A j \in (i + 1)..Len(p) : Canonical(SubSeq(p, 1, j)) = {}
           S == {d \in Nat : d \in 0..Len(p) =>
                   \/ \E i \in 0..Len(p) : Longest(i)
                   \/ \A j \in (Len(p) - d)..Len(p) : ~Found(j)}
<1>1. Len(p) \in Nat
  BY LenProperties
<1>2. Found(0)
  <2>1. SubSeq(p, 1, 0) = <<>>
    OBVIOUS
  <2> QED BY <2>1, CanonicalRoot DEF Canonical
<1> HIDE DEF Found
<1>3. ASSUME NEW i \in 0..Len(p) PROVE Longest(i) <=> Found(i) /\ \A j \in (i + 1)..Len(p) : ~Found(j)
  BY DEF Found
<1> HIDE DEF Longest
<1>4. 0 \in S
  <2>1. CASE Found(Len(p))
    BY <1>1, <1>3, <2>1
  <2>2. CASE ~Found(Len(p))
    BY <1>1, <2>2
  <2> QED BY <2>1, <2>2
<1>5. ASSUME NEW d \in Nat, d \in S PROVE d + 1 \in S
  <2> SUFFICES ASSUME d + 1 \in 0..Len(p), \A i \in 0..Len(p) : ~Longest(i),
                      NEW j \in (Len(p) - (d + 1))..Len(p)
               PROVE  ~Found(j)
    OBVIOUS
  <2>1. \A l \in (Len(p) - d)..Len(p) : ~Found(l)
    BY <1>1, <1>5
  <2>2. CASE j = Len(p) - (d + 1)
    <3>1. j \in 0..Len(p) /\ \A l \in (j + 1)..Len(p) : l \in (Len(p) - d)..Len(p)
      BY <1>1, <2>2
    <3> QED BY <1>3, <2>1, <3>1
  <2>3. CASE j # Len(p) - (d + 1)
    <3>1. j \in (Len(p) - d)..Len(p)
      BY <1>1, <2>3
    <3> QED BY <2>1, <3>1
  <2> QED BY <2>2, <2>3
<1>6. \A d \in Nat : d \in S
  <2> HIDE DEF S
  <2> QED BY <1>4, <1>5, NatSetInduction
<1>7. \E i \in 0..Len(p) : Longest(i)
  <2>1. Len(p) \in S /\ Len(p) \in 0..Len(p) /\ 0 \in (Len(p) - Len(p))..Len(p)
    BY <1>1, <1>6
  <2> QED BY <1>2, <2>1
<1>8. PICK n : n = CHOOSE i \in 0..Len(p) : Longest(i)
  OBVIOUS
<1>9. n \in 0..Len(p) /\ Longest(n)
  BY <1>7, <1>8, Zenon
<1>10. weakly_canonical(p) =
         (CHOOSE q \in Canonical(SubSeq(p, 1, n)) : TRUE) \o SubSeq(p, n + 1, Len(p))
  BY <1>8, Zenon DEF weakly_canonical, Longest, Found
<1>11. SubSeq(p, 1, n) \in Seq(C) /\ SubSeq(p, n + 1, Len(p)) \in Seq(C)
  BY <1>1, <1>9
<1>12. PICK q : q = CHOOSE x \in Canonical(SubSeq(p, 1, n)) : TRUE
  OBVIOUS
<1>13. q \in Canonical(SubSeq(p, 1, n))
  BY <1>9, <1>12 DEF Longest, Found
<1>14. q \in Seq(C)
  BY <1>11, <1>13, CanonicalFound DEF Canonical
<1> QED BY <1>10, <1>11, <1>12, <1>14, ConcatProperties

(* Where fs::canonical() finds a path, weakly_canonical() is that path. *)
LEMMA WeaklyCanonicalOfFound ==
  ASSUME NEW C, NEW p \in Seq(C), Places \subseteq Seq(C), Canonical(p) # {}
  PROVE  weakly_canonical(p) \in Canonical(p)
<1> DEFINE Longest(i) == /\ Canonical(SubSeq(p, 1, i)) # {}
                         /\ \A j \in (i + 1)..Len(p) : Canonical(SubSeq(p, 1, j)) = {}
<1>1. Len(p) \in Nat /\ SubSeq(p, 1, Len(p)) = p
  BY LenProperties, SubSeqFull
<1>2. Len(p) \in 0..Len(p) /\ Longest(Len(p))
  <2>1. Len(p) \in 0..Len(p) /\ \A j : j \notin (Len(p) + 1)..Len(p)
    <3> HIDE DEF Longest
    <3> QED BY <1>1
  <2> QED BY <1>1, <2>1, Zenon
<1>3. ASSUME NEW i \in 0..Len(p), Longest(i) PROVE i = Len(p)
  <2> SUFFICES ASSUME i # Len(p) PROVE FALSE
    OBVIOUS
  <2>1. Len(p) \in (i + 1)..Len(p)
    <3>1. PICK N \in Nat : N = Len(p)
      BY <1>1
    <3>2. i \in 0..N /\ i # N
      BY <3>1
    <3>3. N \in (i + 1)..N
      BY <3>2
    <3> QED BY <3>1, <3>3, Zenon
  <2> QED BY <1>1, <1>3, <2>1, Zenon
<1>4. PICK n : n = CHOOSE i \in 0..Len(p) : Longest(i)
  OBVIOUS
<1>5. n = Len(p)
  <2> HIDE DEF Longest
  <2>1. n \in 0..Len(p) /\ Longest(n)
    BY <1>2, <1>4, Zenon
  <2> QED BY <1>3, <2>1
<1>6. weakly_canonical(p) =
        (CHOOSE q \in Canonical(SubSeq(p, 1, n)) : TRUE) \o SubSeq(p, n + 1, Len(p))
  BY <1>4, Zenon DEF weakly_canonical
<1>7. SubSeq(p, n + 1, Len(p)) = <<>>
  BY <1>1, <1>5, SubSeqEmpty
<1>8. PICK q : q = CHOOSE x \in Canonical(p) : TRUE
  OBVIOUS
<1>9. q \in Canonical(p)
  BY <1>8
<1>10. weakly_canonical(p) = q \o <<>>
  BY <1>1, <1>5, <1>6, <1>7, <1>8, Zenon
<1>11. q \in Seq(C)
  BY <1>9, CanonicalFound DEF Canonical
<1> QED BY <1>9, <1>10, <1>11, ConcatEmptySeq
-----------------------------------------------------------------------------
(* Texts are made of these. *)
Characters == STRING \cup {"/"}

(* Every place, and every document root, is a path; a place is made of     *)
(* names without slashes.                                                  *)
LEMMA PlacesArePaths ==
  /\ Places \subseteq Seq(Seq(Characters))
  /\ \A p \in Places : Plain(p)
  /\ \A s \in DOMAIN RootOf : RootOf[s] \in Seq(Seq(Characters))
<1>1. Seq(Seq(STRING)) \subseteq Seq(Seq(Characters))
  <2>1. Seq(STRING) \subseteq Seq(Characters)
    <3>1. STRING \subseteq Characters
      BY DEF Characters
    <3> QED BY <3>1, SeqMonotonic
  <2> QED BY <2>1, SeqMonotonic
<1>2. <<>> \in Seq(Seq(Characters)) /\ Plain(<<>>)
  BY EmptySeq DEF Plain
<1>3. ASSUME NEW p \in DOMAIN Tree PROVE p \in Seq(Seq(Characters)) /\ Plain(p)
  <2>1. p \in Seq(Seq(STRING)) /\ \A n \in DOMAIN p : \A i \in DOMAIN p[n] : p[n][i] # "/"
    BY SiteAssumption
  <2>2. ASSUME NEW n \in 1..Len(p), NEW y \in 1..Len(p[n]) PROVE p[n][y] # "/"
    <3>1. n \in DOMAIN p /\ p[n] \in Seq(STRING)
      BY <2>1, LenProperties
    <3>2. y \in DOMAIN p[n]
      BY <3>1, LenProperties
    <3> QED BY <2>1, <3>1, <3>2
  <2> QED BY <1>1, <2>1, <2>2 DEF Plain
<1>4. \A s \in DOMAIN RootOf : RootOf[s] \in Seq(Seq(Characters))
  BY <1>1, SiteAssumption
<1> QED BY <1>2, <1>3, <1>4 DEF Places

(* The routes of setup_default_routes() are those of the table. *)
RoutedAs(w) ==
  /\ <<"/", w>> \in DOMAIN Routes
  /\ DOMAIN Routes[<<"/", w>>] = Endpoints[w]
  /\ \A m \in Endpoints[w] : Routes[<<"/", w>>][m] = "page" => w \in Pages

(* Every path of the table is routed so, by its methods and no other. *)
LEMMA EndpointsAreRoutes ==
  ASSUME NEW w \in DOMAIN Endpoints
  PROVE  RoutedAs(w)
<1>1. w \in Pages \cup {"work", "health", "hello", "metrics", "echo"}
  BY DEF Endpoints, Pages
<1>2. PICK p : p = <<"/", w>>
  OBVIOUS
<1>3. p[2] = w
  BY <1>2
<1>4. p \in DOMAIN Routes
  BY <1>1, <1>2 DEF Routes
<1>5. Routes[p] =
        CASE p[2] \in Pages -> [GET |-> "page"]
          [] p[2] \in {"work", "metrics"} -> [GET |-> p[2]]
          [] p[2] \in {"health", "hello"} -> [GET |-> p[2], HEAD |-> "empty"]
          [] p[2] = "echo" -> [POST |-> p[2]]
  BY <1>1, <1>2 DEF Routes
<1>6. CASE w \in Pages
  <2>1. Routes[p] = [GET |-> "page"]
    BY <1>3, <1>5, <1>6 DEF Pages
  <2>2. Endpoints[w] = {"GET"}
    BY <1>6 DEF Pages, Endpoints
  <2> QED BY <1>2, <1>4, <1>6, <2>1, <2>2 DEF RoutedAs
<1>7. CASE w \in {"work", "metrics"}
  <2>1. Routes[p] = [GET |-> w]
    BY <1>3, <1>5, <1>7 DEF Pages
  <2>2. Endpoints[w] = {"GET"}
    BY <1>7 DEF Endpoints
  <2> QED BY <1>2, <1>4, <1>7, <2>1, <2>2 DEF RoutedAs
<1>8. CASE w \in {"health", "hello"}
  <2>1. Routes[p] = [GET |-> w, HEAD |-> "empty"]
    BY <1>3, <1>5, <1>8 DEF Pages
  <2>2. Endpoints[w] = {"GET", "HEAD"}
    BY <1>8 DEF Endpoints
  <2> QED BY <1>2, <1>4, <1>8, <2>1, <2>2 DEF RoutedAs
<1>9. CASE w = "echo"
  <2>1. Routes[p] = [POST |-> w]
    BY <1>3, <1>5, <1>9 DEF Pages
  <2>2. Endpoints[w] = {"POST"}
    BY <1>9 DEF Endpoints
  <2> QED BY <1>2, <1>4, <1>9, <2>1, <2>2 DEF RoutedAs
<1> QED BY <1>1, <1>6, <1>7, <1>8, <1>9

-----------------------------------------------------------------------------
(* The document root, from the command line to the handlers, and what is   *)
(* handled is a request.                                                   *)
SetupOK ==
  /\ pc = "parse" => input \in Inputs
  /\ roots.router \in Seq(Seq(Characters))
  /\ roots.files \in Seq(Seq(Characters))
  /\ pc \in {"route", "root", "regular", "open", "done"} => req \in Requests

(* What serve() has found out about the path, although files come and go. *)
HandlingOK ==
  /\ pc \in {"root", "regular", "open"} => Target(req) \notin DOMAIN Routes
  /\ pc \in {"regular", "open"} =>
       \E root \in CanonicalWithout({}, roots.files) : Within(canonical, root)
  /\ pc = "open" => canonical \in Places /\ Tree[canonical].kind = "file"

(* While nothing happens to the files, the path that has been found is the *)
(* one that a search would find now.                                       *)
FoundOK ==
  stable /\ pc \in {"root", "regular", "open"} => canonical \in Canonical(roots.files \o Normalized)

(* The inductive invariant. *)
SiteInv ==
  /\ TypeOK /\ SetupOK /\ HandlingOK /\ FoundOK
  /\ ConfigMeans /\ OnlyBelowRoot /\ EndpointsAnswer /\ PresentIsServed

(* The invariant holds before the command line is parsed. *)
LEMMA SiteInit == Init => SiteInv
<1> SUFFICES ASSUME Init PROVE SiteInv
  OBVIOUS
<1>1. <<>> \in Seq(Seq(Characters))
  BY EmptySeq
<1>2. SetupOK
  BY <1>1 DEF Init, SetupOK
<1>3. TypeOK
  BY DEF Init, TypeOK, NoRequest, NoResponse
<1>4. pc = "parse"
  BY DEF Init
<1>5. HandlingOK /\ FoundOK /\ ConfigMeans
  BY <1>4 DEF HandlingOK, FoundOK, ConfigMeans
<1>6. OnlyBelowRoot /\ EndpointsAnswer /\ PresentIsServed
  BY <1>4 DEF OnlyBelowRoot, EndpointsAnswer, PresentIsServed
<1> QED BY <1>2, <1>3, <1>5, <1>6 DEF SiteInv

(* Config::parse() ends in one of three ways. *)
LEMMA ParseEnds ==
  ASSUME SetupOK, ParseArguments
  PROVE  pc' \in {"construct", "exit", "terminate"}
<1>1. input \in Inputs
  BY DEF ParseArguments, SetupOK
<1>2. parse(input.env, input.argv).end \in {"serve", "exit", "terminate"}
  BY <1>1, ParseTyped, SiteAssumption
<1> QED BY <1>2 DEF ParseArguments

(* What a reply leaves behind. *)
LEMMA ReplySays ==
  ASSUME NEW s, NEW b, NEW a, Reply(s, b, a)
  PROVE  pc' = "done" /\ response'.status = s /\ response'.allow = a
BY DEF Reply

(* What a 404 leaves behind. *)
LEMMA NotFoundSays ==
  ASSUME NotFound
  PROVE  pc' = "done" /\ response'.status = 404 /\ response'.allow = {}
<1>1. PICK b : b = Text("Not Found")
  OBVIOUS
<1>2. Reply(404, b, {})
  BY <1>1, Zenon DEF NotFound
<1> QED BY <1>2, ReplySays

(* What a 405 leaves behind. *)
LEMMA NotAllowedSays ==
  ASSUME NotAllowed
  PROVE  /\ pc' = "done" /\ UNCHANGED <<setupVars, missing, stable, req>>
         /\ response'.status = 405 /\ response'.allow = DOMAIN Routes[Target(req)]
<1>1. PICK b, a : b = Text("Method Not Allowed") /\ a = DOMAIN Routes[Target(req)]
  OBVIOUS
<1>2. Reply(405, b, a) /\ UNCHANGED <<setupVars, missing, stable, req>>
  BY <1>1, Zenon DEF NotAllowed
<1>3. pc' = "done" /\ response'.status = 405 /\ response'.allow = a
  BY <1>2, ReplySays
<1> QED BY <1>1, <1>2, <1>3, Zenon

(* A file that is opened is answered with, or has not been there, or       *)
(* stable says that something happened to it.                              *)
LEMMA OpenSays ==
  ASSUME NEW f, NEW b, Open(f, b)
  PROVE  /\ pc' = "done" /\ response'.status \in {200, 404} /\ response'.allow = {}
         /\ stable' = stable \/ stable' \in BOOLEAN
         /\ response'.status = 200 \/ stable' = (stable /\ ~Exists(f))
<1>1. CASE Exists(f) /\ Reply(200, b, {}) /\ UNCHANGED stable
  BY <1>1, ReplySays
<1>2. CASE NotFound /\ stable' = (stable /\ ~Exists(f))
  <2>1. pc' = "done" /\ response'.status = 404 /\ response'.allow = {}
    BY <1>2, NotFoundSays
  <2>2. stable' \in BOOLEAN
    BY <1>2
  <2> QED BY <1>2, <2>1, <2>2
<1> QED BY <1>1, <1>2 DEF Open

(* The steps of serve() before the file is opened, and the answer where    *)
(* there is neither a route nor a file.                                    *)
LEMMA SearchSays ==
  ASSUME NotRouted \/ Locate \/ CheckRoot \/ CheckRegular
  PROVE  /\ UNCHANGED <<setupVars, missing, stable, req>> /\ pc \in {"route", "root", "regular"}
         /\ \/ pc' \in {"root", "regular", "open"} /\ UNCHANGED response
            \/ pc' = "done" /\ response'.status \in {403, 404} /\ response'.allow = {}
<1>1. NotFound => pc' = "done" /\ response'.status = 404 /\ response'.allow = {}
  BY NotFoundSays
<1>2. CASE NotRouted
  BY <1>1, <1>2 DEF NotRouted
<1>3. CASE Locate
  BY <1>1, <1>3 DEF Locate
<1>4. CASE CheckRoot
  <2>0. PICK b : b = Body(Text("403 Forbidden"))
    OBVIOUS
  <2>1. \/ NotFound
        \/ Reply(403, b, {})
        \/ pc' = "regular" /\ UNCHANGED response
    BY <1>4, <2>0, Zenon DEF CheckRoot
  <2>2. UNCHANGED <<setupVars, missing, stable, req>> /\ pc = "root"
    BY <1>4, Zenon DEF CheckRoot
  <2>3. \/ pc' \in {"root", "regular", "open"} /\ UNCHANGED response
        \/ pc' = "done" /\ response'.status \in {403, 404} /\ response'.allow = {}
    <3>1. CASE NotFound
      BY <3>1, NotFoundSays
    <3>2. CASE Reply(403, b, {})
      BY <3>2, ReplySays
    <3>3. CASE pc' = "regular" /\ UNCHANGED response
      BY <3>3
    <3> QED BY <2>1, <3>1, <3>2, <3>3, Zenon
  <2> QED BY <2>2, <2>3, Zenon
<1>5. CASE CheckRegular
  BY <1>1, <1>5 DEF CheckRegular
<1> QED BY <1>2, <1>3, <1>4, <1>5

(* Without a file to look for, Router::handle() answers in one step. *)
LEMMA RouterSays ==
  ASSUME CallHandler \/ NotAllowed \/ NotRouted
  PROVE  pc = "route" /\ pc' = "done" /\ UNCHANGED <<setupVars, req>>
<1>1. CASE CallHandler
  <2>1. PICK text, page : IF text = "page" THEN Open(page, page)
                          ELSE Reply(200, Text(text), {}) /\ UNCHANGED stable
    BY <1>1, Zenon DEF CallHandler
  <2>2. pc' = "done"
    BY <2>1, ReplySays, OpenSays, Zenon
  <2> QED BY <1>1, <2>2, Zenon DEF CallHandler, Routed
<1>2. CASE NotAllowed
  BY <1>2, NotAllowedSays, Zenon DEF NotAllowed, Routed
<1>3. CASE NotRouted
  BY <1>3, NotFoundSays, Zenon DEF NotRouted
<1> QED BY <1>1, <1>2, <1>3

(* The root stays a path: the constructors take it from the parsed         *)
(* configuration, and no request changes it.                               *)
LEMMA SetupStep ==
  ASSUME TypeOK, SetupOK, [Next]_vars
  PROVE  SetupOK'
<1>1. CASE ParseArguments
  BY <1>1, ParseEnds DEF ParseArguments, SetupOK
<1>2. CASE Construct
  <2>1. PICK p : p = RootOf[config.document_root]
    OBVIOUS
  <2>2. p \in Seq(Seq(Characters))
    BY <1>2, <2>1, PlacesArePaths DEF Construct, TypeOK
  <2>3. weakly_canonical(p) \in Seq(Seq(Characters))
    BY <2>2, PlacesArePaths, WeaklyCanonicalIsPath
  <2>4. PICK root \in {weakly_canonical(p), p} : roots' = [router |-> p, files |-> root]
    BY <1>2, <2>1 DEF Construct
  <2>5. pc' = "serve"
    BY <1>2 DEF Construct
  <2> QED BY <2>2, <2>3, <2>4, <2>5 DEF SetupOK
<1>3. CASE /\ UNCHANGED <<setupVars, req>> /\ pc \in {"route", "root", "regular", "open"}
           /\ pc' \notin {"parse", "construct"}
  BY <1>3 DEF SetupOK, setupVars
<1>4. CASE UNCHANGED <<pc, setupVars, req>>
  BY <1>4 DEF SetupOK, setupVars
<1>5. CASE \E r \in Requests : ReceiveRequest(r)
  BY <1>5 DEF ReceiveRequest, SetupOK, setupVars
<1>6. CASE CallHandler \/ NotAllowed \/ NotRouted
  BY <1>3, <1>6, RouterSays
<1>7. CASE Locate \/ CheckRoot \/ CheckRegular \/ OpenAndRead
  <2>1. CASE Locate \/ CheckRoot \/ CheckRegular
    BY <1>3, <2>1, SearchSays
  <2>2. CASE OpenAndRead
    BY <1>3, <2>2, OpenSays DEF OpenAndRead
  <2> QED BY <1>7, <2>1, <2>2
<1>8. CASE \E p \in Volatile : Vanish(p) \/ Appear(p)
  BY <1>4, <1>8 DEF Vanish, Appear, Touch, requestVars
<1>9. CASE Over \/ UNCHANGED vars
  BY <1>4, <1>9 DEF Over, vars, requestVars
<1> QED BY <1>1, <1>2, <1>5, <1>6, <1>7, <1>8, <1>9 DEF Next

(* Each check of serve() adds to what is known of the path, and what it    *)
(* has added stays true although files come and go: nothing of it is about *)
(* what is missing now.                                                    *)
LEMMA HandlingStep ==
  ASSUME SetupOK, HandlingOK, [Next]_vars
  PROVE  HandlingOK'
<1>1. CASE pc' \notin {"root", "regular", "open"}
  BY <1>1 DEF HandlingOK
<1>2. CASE ParseArguments \/ Construct \/ \E r \in Requests : ReceiveRequest(r)
  <2>1. CASE ParseArguments
    BY <1>1, <2>1, ParseEnds
  <2>2. CASE Construct
    BY <1>1, <2>2 DEF Construct
  <2>3. CASE \E r \in Requests : ReceiveRequest(r)
    BY <1>1, <2>3 DEF ReceiveRequest
  <2> QED BY <1>2, <2>1, <2>2, <2>3
<1>3. CASE CallHandler \/ NotAllowed \/ NotRouted
  BY <1>1, <1>3, RouterSays
<1>4. CASE Locate
  <2>1. CASE pc' = "root"
    BY <1>4, <2>1 DEF Locate, Routed, HandlingOK
  <2> QED BY <1>1, <1>4, <2>1 DEF Locate, NotFound, Reply
<1>5. CASE CheckRoot
  <2>1. CASE pc' = "regular"
    <3>1. PICK root \in Canonical(roots.files) : Within(canonical, root)
      BY <1>5, <2>1 DEF CheckRoot, NotFound, Reply
    <3>2. root \in CanonicalWithout({}, roots.files)
      BY <3>1, CanonicalFound DEF Canonical, SetupOK
    <3>3. Target(req') \notin DOMAIN Routes /\ roots' = roots /\ canonical' = canonical
      BY <1>5 DEF CheckRoot, HandlingOK, setupVars
    <3> QED BY <2>1, <3>1, <3>2, <3>3 DEF HandlingOK
  <2> QED BY <1>1, <1>5, <2>1 DEF CheckRoot, NotFound, Reply
<1>6. CASE CheckRegular
  <2>1. CASE pc' = "open"
    <3>1. Exists(canonical) /\ Tree[canonical].kind = "file"
      BY <1>6, <2>1 DEF CheckRegular, NotFound, Reply
    <3>2. canonical \in Places
      BY <3>1 DEF Exists, ExistsWithout, Places
    <3> QED BY <1>6, <2>1, <3>1, <3>2 DEF CheckRegular, HandlingOK, setupVars
  <2> QED BY <1>1, <1>6, <2>1 DEF CheckRegular, NotFound, Reply
<1>7. CASE OpenAndRead
  BY <1>1, <1>7 DEF OpenAndRead, Open, NotFound, Reply
<1>8. CASE \E p \in Volatile : Vanish(p) \/ Appear(p)
  BY <1>8 DEF Vanish, Appear, Touch, HandlingOK, setupVars, requestVars
<1>9. CASE Over \/ UNCHANGED vars
  BY <1>9 DEF Over, vars, HandlingOK, setupVars, requestVars
<1> QED BY <1>2, <1>3, <1>4, <1>5, <1>6, <1>7, <1>8, <1>9 DEF Next

(* Every step keeps the types; the one that parses leaves a configuration  *)
(* in range.                                                               *)
LEMMA TypeStep ==
  ASSUME TypeOK, SetupOK, [Next]_vars
  PROVE  TypeOK'
<1>1. CASE ParseArguments
  <2>1. PICK r : r = parse(input.env, input.argv)
    OBVIOUS
  <2>2. /\ r.end \in {"serve", "exit", "terminate"}
        /\ r.cfg \in Configs(DOMAIN RootOf)
        /\ r.cfg.thread_count \in 1..(2^IntBits - 1)
    BY <1>1, <2>1, ParseTyped, SiteAssumption DEF ParseArguments, SetupOK
  <2>3. config' = r.cfg /\ pc' = IF r.end = "serve" THEN "construct" ELSE r.end
    BY <1>1, <2>1 DEF ParseArguments
  <2>4. UNCHANGED <<missing, stable, req, response>>
    BY <1>1 DEF ParseArguments, requestVars
  <2>5. pc' \in {"construct", "exit", "terminate"}
    BY <2>2, <2>3
  <2>6. /\ config'.port \in 0..(2^PortBits - 1)
        /\ config'.thread_count \in 1..(2^IntBits - 1)
        /\ config'.queue_capacity \in 0..(2^SizeBits - 1)
        /\ config'.document_root \in DOMAIN RootOf
    BY <2>2, <2>3 DEF Configs
  <2> QED BY <2>4, <2>5, <2>6 DEF TypeOK
<1>2. CASE Construct
  BY <1>2 DEF Construct, TypeOK, requestVars
<1>3. CASE \E r \in Requests : ReceiveRequest(r)
  <2>1. PICK r \in Requests : ReceiveRequest(r)
    BY <1>3
  <2>2. r.encoded \subseteq DOMAIN r.name
    BY SiteAssumption
  <2> QED BY <2>1, <2>2 DEF ReceiveRequest, TypeOK
<1>4. ASSUME pc' = "done", UNCHANGED <<missing, req>>, stable' \in BOOLEAN,
             response'.status \in {200, 403, 404, 405}, response'.allow \subseteq {"GET", "POST", "HEAD"}
      PROVE  TypeOK'
  BY <1>4 DEF TypeOK
<1>5. CASE CallHandler
  <2>1. PICK text, page : /\ UNCHANGED <<missing, req>>
                          /\ IF text = "page" THEN Open(page, page)
                             ELSE Reply(200, Text(text), {}) /\ UNCHANGED stable
    BY <1>5, Zenon DEF CallHandler
  <2>2. CASE text = "page"
    BY <1>4, <2>1, <2>2, OpenSays DEF TypeOK
  <2>3. CASE text # "page"
    BY <1>4, <2>1, <2>3, ReplySays DEF TypeOK
  <2> QED BY <2>2, <2>3
<1>6. CASE NotAllowed
  <2>1. /\ pc' = "done" /\ UNCHANGED <<missing, stable, req>>
        /\ response'.status = 405 /\ response'.allow = DOMAIN Routes[Target(req)]
    BY <1>6 DEF NotAllowed, Reply
  <2>2. DOMAIN Routes[Target(req)] \subseteq {"GET", "POST", "HEAD"}
    <3>1. PICK w \in Pages \cup {"work", "health", "hello", "metrics", "echo"} : Target(req) = <<"/", w>>
      BY <1>6 DEF NotAllowed, Routed, Routes
    <3>2. w \in DOMAIN Endpoints
      BY DEF Endpoints, Pages
    <3>3. Endpoints[w] \subseteq {"GET", "POST", "HEAD"}
      BY <3>2 DEF Endpoints
    <3> QED BY <3>1, <3>2, <3>3, EndpointsAreRoutes DEF RoutedAs
  <2> QED BY <1>4, <2>1, <2>2 DEF TypeOK
<1>7. CASE NotRouted \/ Locate \/ CheckRoot \/ CheckRegular
  BY <1>7, SearchSays DEF TypeOK
<1>8. CASE OpenAndRead
  <2>1. Open(canonical, Body(canonical)) /\ UNCHANGED <<missing, req>>
    BY <1>8 DEF OpenAndRead
  <2> QED BY <1>4, <2>1, OpenSays DEF TypeOK
<1>9. CASE \E p \in Volatile : Vanish(p) \/ Appear(p)
  <2>1. missing' \subseteq Volatile
    BY <1>9 DEF Vanish, Appear, Touch, TypeOK
  <2>2. UNCHANGED <<pc, config, req, response>>
    BY <1>9 DEF Vanish, Appear, Touch, setupVars, requestVars
  <2>3. stable' \in BOOLEAN
    BY <1>9 DEF Vanish, Appear, Touch
  <2> QED BY <2>1, <2>2, <2>3 DEF TypeOK
<1>10. CASE Over \/ UNCHANGED vars
  BY <1>10 DEF Over, vars, TypeOK, setupVars, requestVars
<1> QED BY <1>1, <1>2, <1>3, <1>5, <1>6, <1>7, <1>8, <1>9, <1>10 DEF Next

(* A file is only served by the step that opens it, after all checks. *)
LEMMA OnlyBelowRootStep ==
  ASSUME HandlingOK, SetupOK, OnlyBelowRoot, TypeOK, [Next]_vars
  PROVE  OnlyBelowRoot'
<1> SUFFICES ASSUME pc' = "done", response'.status = 200, Target(req') \notin DOMAIN Routes
             PROVE  /\ Tree[canonical'].kind = "file"
                    /\ \E root \in CanonicalWithout({}, roots'.files) : IsStrictPrefix(root, canonical')
  BY DEF OnlyBelowRoot
<1>1. CASE OpenAndRead
  <2>1. UNCHANGED <<roots, canonical>> /\ pc = "open"
    BY <1>1 DEF OpenAndRead, setupVars
  <2>2. canonical \in Places /\ Tree[canonical].kind = "file"
    BY <2>1 DEF HandlingOK
  <2>3. PICK root \in CanonicalWithout({}, roots.files) : Within(canonical, root)
    BY <2>1 DEF HandlingOK
  <2>4. root \in Places
    BY <2>3, CanonicalFound DEF SetupOK
  <2>5. IsStrictPrefix(root, canonical)
    <3>1. "/" \in Characters
      BY DEF Characters
    <3>2. /\ root \in Seq(Seq(Characters)) /\ Plain(root)
          /\ canonical \in Seq(Seq(Characters)) /\ Plain(canonical)
      BY <2>2, <2>4, PlacesArePaths
    <3> QED BY <2>3, <3>1, <3>2, WithinIsBelow
  <2> QED BY <2>1, <2>2, <2>3, <2>5
<1>2. CASE ParseArguments
  BY <1>2, ParseEnds
<1>3. CASE Construct \/ \E r \in Requests : ReceiveRequest(r)
  BY <1>3 DEF Construct, ReceiveRequest
<1>4. CASE CallHandler
  BY <1>4 DEF CallHandler, Routed
<1>5. CASE NotAllowed
  BY <1>5 DEF NotAllowed, Routed
<1>6. CASE NotRouted \/ Locate \/ CheckRoot \/ CheckRegular
  BY <1>6, SearchSays
<1>7. CASE \E p \in Volatile : Vanish(p) \/ Appear(p)
  BY <1>7 DEF Vanish, Appear, Touch
<1>8. CASE Over \/ UNCHANGED vars
  BY <1>8 DEF Over, vars, OnlyBelowRoot, setupVars, requestVars
<1> QED BY <1>1, <1>2, <1>3, <1>4, <1>5, <1>6, <1>7, <1>8 DEF Next

(* A path of the table is answered by CallHandler or NotAllowed alone. *)
LEMMA EndpointsStep ==
  ASSUME HandlingOK, SetupOK, EndpointsAnswer, [Next]_vars
  PROVE  EndpointsAnswer'
<1> SUFFICES ASSUME pc' = "done", NEW w \in DOMAIN Endpoints, Target(req') = <<"/", w>>
             PROVE  IF req'.method \notin Endpoints[w]
                    THEN response'.status = 405 /\ response'.allow = Endpoints[w]
                    ELSE \/ response'.status = 200
                         \/ /\ w \in Pages
                            /\ ~(/\ stable'
                                 /\ CanonicalWithout(missing', Append(roots'.router, <<w, ".html">>)) # {})
  BY DEF EndpointsAnswer, Canonical
<1>1. RoutedAs(w)
  BY EndpointsAreRoutes
<1>2. Target(req') \in DOMAIN Routes /\ DOMAIN Routes[Target(req')] = Endpoints[w]
  BY <1>1 DEF RoutedAs
<1>3. CASE CallHandler
  <2>1. UNCHANGED <<roots, missing, req>> /\ Target(req) = <<"/", w>> /\ Target(req)[2] = w
    BY <1>3 DEF CallHandler, setupVars
  <2>2. req.method \in Endpoints[w]
    BY <1>2, <1>3, <2>1 DEF CallHandler
  <2>3. PICK text, p : text = Routes[Target(req)][req.method] /\ p = Append(roots.router, <<w, ".html">>)
    OBVIOUS
  <2>4. CASE text # "page"
    BY <1>3, <2>1, <2>2, <2>3, <2>4 DEF CallHandler, Reply
  <2>5. CASE text = "page"
    <3>1. w \in Pages
      BY <1>1, <2>1, <2>2, <2>3, <2>5 DEF RoutedAs
    <3>2. Open(weakly_canonical(p), weakly_canonical(p))
      BY <1>3, <2>1, <2>3, <2>5, Zenon DEF CallHandler
    <3>3. response'.status = 200 \/ stable' = (stable /\ ~Exists(weakly_canonical(p)))
      BY <3>2, OpenSays
    <3>4. Canonical(p) # {} => Exists(weakly_canonical(p))
      <4> SUFFICES ASSUME Canonical(p) # {} PROVE Exists(weakly_canonical(p))
        OBVIOUS
      <4> DEFINE D == Seq(Characters) \cup {<<w, ".html">>}
      <4>1. Seq(Seq(Characters)) \subseteq Seq(D)
        BY SeqMonotonic
      <4>2. roots.router \in Seq(D) /\ Places \subseteq Seq(D)
        BY <4>1, PlacesArePaths DEF SetupOK
      <4>3. <<w, ".html">> \in D
        OBVIOUS
      <4> HIDE DEF D
      <4>4. p \in Seq(D)
        BY <2>3, <4>2, <4>3, AppendProperties
      <4>5. weakly_canonical(p) \in Canonical(p)
        BY <4>2, <4>4, WeaklyCanonicalOfFound
      <4> QED BY <4>4, <4>5, CanonicalFound DEF Canonical, Exists
    <3>5. Canonical(p) = CanonicalWithout(missing', Append(roots'.router, <<w, ".html">>))
      BY <2>1, <2>3 DEF Canonical
    <3> QED BY <2>1, <2>2, <3>1, <3>3, <3>4, <3>5
  <2> QED BY <2>4, <2>5
<1>4. CASE NotAllowed
  <2>1. UNCHANGED req /\ response' = [status |-> 405, body |-> Text("Method Not Allowed"),
                                      allow |-> DOMAIN Routes[Target(req)]]
    BY <1>4 DEF NotAllowed, Reply
  <2>2. req.method \notin Endpoints[w]
    BY <1>2, <1>4, <2>1 DEF NotAllowed
  <2> QED BY <1>2, <2>1, <2>2
<1>5. CASE NotRouted \/ Locate
  BY <1>2, <1>5 DEF NotRouted, Locate, Routed
<1>6. CASE CheckRoot \/ CheckRegular \/ OpenAndRead
  BY <1>2, <1>6 DEF CheckRoot, CheckRegular, OpenAndRead, HandlingOK
<1>7. CASE ParseArguments
  BY <1>7, ParseEnds
<1>8. CASE Construct \/ \E r \in Requests : ReceiveRequest(r)
  BY <1>8 DEF Construct, ReceiveRequest
<1>9. CASE \E p \in Volatile : Vanish(p) \/ Appear(p)
  BY <1>9 DEF Vanish, Appear, Touch
<1>10. CASE Over \/ UNCHANGED vars
  BY <1>10 DEF Over, vars, EndpointsAnswer, Canonical, setupVars, requestVars
<1> QED BY <1>3, <1>4, <1>5, <1>6, <1>7, <1>8, <1>9, <1>10 DEF Next

(* Config::parse() is the one step that leaves a configuration behind. *)
LEMMA ConfigStep ==
  ASSUME SetupOK, ConfigMeans, [Next]_vars
  PROVE  ConfigMeans'
<1>1. CASE ParseArguments
  <2>1. PICK r : r = parse(input.env, input.argv)
    OBVIOUS
  <2>2. input \in Inputs /\ input.argv \in Seq(DOMAIN RootOf) /\ Defaults.document_root \in DOMAIN RootOf
    BY <1>1, SiteAssumption DEF ParseArguments, SetupOK
  <2>3. ParsedAs(input.env, input.argv, r) /\ r.end \in {"serve", "exit", "terminate"}
    BY <2>1, <2>2, ParseMeans, ParseTyped
  <2>4. config' = r.cfg /\ pc' = (IF r.end = "serve" THEN "construct" ELSE r.end) /\ input' = input
    BY <1>1, <2>1 DEF ParseArguments
  <2>5. (IF pc' = "construct" THEN "serve" ELSE pc') = r.end
    BY <2>3, <2>4
  <2>6. pc' = "construct" => r.end = "serve"
    BY <2>3, <2>4
  <2>7. (IF pc' = "construct" THEN "serve" ELSE pc') = MeansEnd(input'.argv)
    BY <2>3, <2>4, <2>5, Zenon DEF ParsedAs
  <2>8. ASSUME pc' = "construct", NEW o \in ValueOptions
        PROVE  Unread(input'.env, input'.argv, o) \/ AsMeant(config', input'.env, input'.argv, o)
    <3>1. Unread(input.env, input.argv, o) \/ AsMeant(r.cfg, input.env, input.argv, o)
      BY <2>3, <2>6, <2>8, Zenon DEF ParsedAs
    <3> QED BY <2>4, <3>1, Zenon
  <2> QED BY <2>7, <2>8, Zenon DEF ConfigMeans
<1>2. CASE UNCHANGED <<pc, setupVars>>
  BY <1>2 DEF ConfigMeans, setupVars
<1>3. CASE pc' \notin {"construct", "exit", "terminate"}
  BY <1>3 DEF ConfigMeans
<1>4. CASE Construct \/ \E r \in Requests : ReceiveRequest(r)
  BY <1>3, <1>4 DEF Construct, ReceiveRequest
<1>5. CASE CallHandler \/ NotAllowed \/ NotRouted
  BY <1>3, <1>5, RouterSays
<1>6. CASE Locate \/ CheckRoot \/ CheckRegular
  BY <1>3, <1>6, SearchSays
<1>7. CASE OpenAndRead
  BY <1>3, <1>7, OpenSays DEF OpenAndRead
<1>8. CASE \E p \in Volatile : Vanish(p) \/ Appear(p)
  BY <1>2, <1>8 DEF Vanish, Appear, Touch
<1>9. CASE Over \/ UNCHANGED vars
  BY <1>2, <1>9 DEF Over, vars
<1> QED BY <1>1, <1>4, <1>5, <1>6, <1>7, <1>8, <1>9 DEF Next

(* The search is for the same path until the answer, and a file that comes *)
(* or goes ends stable.                                                    *)
LEMMA FoundStep ==
  ASSUME SetupOK, FoundOK, [Next]_vars
  PROVE  FoundOK'
<1>1. CASE pc' \notin {"root", "regular", "open"}
  BY <1>1 DEF FoundOK
<1>2. CASE ParseArguments
  BY <1>1, <1>2, ParseEnds
<1>3. CASE Construct \/ \E r \in Requests : ReceiveRequest(r)
  BY <1>1, <1>3 DEF Construct, ReceiveRequest
<1>4. CASE CallHandler \/ NotAllowed \/ NotRouted
  BY <1>1, <1>4, RouterSays
<1>5. CASE OpenAndRead
  BY <1>1, <1>5, OpenSays DEF OpenAndRead
<1>6. CASE Locate
  <2>1. UNCHANGED <<roots, missing, req>>
    BY <1>6 DEF Locate, setupVars
  <2>2. CASE pc' = "root"
    <3>1. canonical' \in Canonical(roots.files \o Normalized)
      BY <1>6, <2>2, NotFoundSays DEF Locate
    <3> QED BY <2>1, <3>1 DEF FoundOK, Canonical, Normalized
  <2> QED BY <1>1, <1>6, <2>2, NotFoundSays DEF Locate
<1>7. CASE CheckRoot \/ CheckRegular
  <2>1. UNCHANGED <<roots, missing, req, stable, canonical>> /\ pc \in {"root", "regular"}
    BY <1>7 DEF CheckRoot, CheckRegular, setupVars
  <2> QED BY <2>1 DEF FoundOK, Canonical, Normalized
<1>8. CASE \E p \in Volatile : Vanish(p) \/ Appear(p)
  BY <1>8 DEF Vanish, Appear, Touch, FoundOK
<1>9. CASE Over \/ UNCHANGED vars
  BY <1>9 DEF Over, vars, FoundOK, Canonical, Normalized, setupVars, requestVars
<1> QED BY <1>2, <1>3, <1>4, <1>5, <1>6, <1>7, <1>8, <1>9 DEF Next

(* What serve() looks for is what a client names that encodes properly. *)
LEMMA NormalizedIsNamed ==
  ASSUME req \in Requests, Properly(req)
  PROVE  Normalized = Named(req) /\ \E D : Named(req) \in Seq(D)
<1>1. req.name \in Seq(STRING) /\ \A i \in req.encoded : req.name[i] \in DOMAIN Ascii
  BY SiteAssumption
<1>2. \A i \in DOMAIN req.name : req.name[i] \in {"%", "+"} => i \in req.encoded
  BY Zenon DEF Properly
<1>3. url_decode(Target(req)) = req.name
  BY <1>1, <1>2, DecodeOfEncode DEF Target
<1>4. PICK m : m = Meaning(req.name)
  OBVIOUS
<1>5. normalize_path(req.name) = m /\ \E D : m \in Seq(D)
  BY <1>1, <1>4, NormalizeMeans
<1>6. Normalized = Named(req)
  BY <1>3, <1>4, <1>5, Zenon DEF Normalized, Named
<1>7. \E D : <<<<"index.html">>>> \in Seq(D)
  <2>1. <<<<"index.html">>>> \in Seq({<<"index.html">>})
    BY OneLong
  <2> QED BY <2>1
<1>8. Named(req) = m \/ Named(req) = <<<<"index.html">>>>
  BY <1>4, Zenon DEF Named
<1> QED BY <1>5, <1>6, <1>7, <1>8, Zenon

(* The file f that is there for the request, below the root. *)
Sought(f, root) ==
  /\ f \in Canonical(roots.files \o Normalized) /\ root \in Canonical(roots.files)
  /\ Tree[f].kind = "file" /\ IsStrictPrefix(root, f)

(* No check of serve() fails for such a file: fs::canonical() finds this   *)
(* file and this root and no other, and the comparison of their texts      *)
(* succeeds.                                                               *)
LEMMA SoughtIsFound ==
  ASSUME SetupOK, FoundOK, stable, req \in Requests, Properly(req), NEW f, NEW root, Sought(f, root)
  PROVE  /\ \A r \in Canonical(roots.files) : r = root
         /\ pc \in {"root", "regular", "open"} => canonical = f
         /\ Exists(f) /\ Within(f, root)
<1>1. PICK p : p = roots.files \o Normalized
  OBVIOUS
<1>2. /\ f \in Canonical(p) /\ root \in Canonical(roots.files)
      /\ Tree[f].kind = "file" /\ IsStrictPrefix(root, f)
  BY <1>1, Zenon DEF Sought
<1>3. PICK D : p \in Seq(D)
  <2>1. PICK E : Normalized \in Seq(E)
    BY NormalizedIsNamed
  <2>2. PICK n : n = Normalized
    OBVIOUS
  <2>3. PICK F : F = Seq(Characters) \cup E
    OBVIOUS
  <2>4. roots.files \in Seq(Seq(Characters))
    BY DEF SetupOK
  <2>5. Seq(Characters) \subseteq F /\ E \subseteq F
    BY <2>3
  <2>6. roots.files \in Seq(F) /\ n \in Seq(F)
    BY <2>1, <2>2, <2>4, <2>5, SeqMonotonic
  <2>7. roots.files \o n \in Seq(F)
    BY <2>6, ConcatProperties
  <2> QED BY <1>1, <2>2, <2>7
<1>4. \A r \in Canonical(roots.files) : r = root
  BY <1>2, CanonicalUnique DEF Canonical, SetupOK
<1>5. pc \in {"root", "regular", "open"} => canonical = f
  <2>1. pc \in {"root", "regular", "open"} => canonical \in Canonical(p)
    BY <1>1 DEF FoundOK
  <2> QED BY <1>2, <1>3, <2>1, CanonicalUnique DEF Canonical
<1>6. f \in Places /\ Exists(f)
  BY <1>2, <1>3, CanonicalFound DEF Canonical, Exists
<1>7. root \in Places
  BY <1>2, CanonicalFound DEF Canonical, SetupOK
<1>8. Within(f, root)
  <2>1. "/" \in Characters
    BY DEF Characters
  <2>2. root \in Seq(Seq(Characters)) /\ f \in Seq(Seq(Characters))
    BY <1>6, <1>7, PlacesArePaths
  <2> QED BY <1>2, <2>1, <2>2, BelowIsWithin
<1> QED BY <1>4, <1>5, <1>6, <1>8

(* The file that a request names is what it is answered with, or something *)
(* has happened to it.                                                     *)
LEMMA PresentStep ==
  ASSUME SetupOK, FoundOK, PresentIsServed, [Next]_vars
  PROVE  PresentIsServed'
<1> DEFINE Answer(r, f) == [status |-> 200, body |-> IF r.method = "GET" THEN f ELSE <<>>, allow |-> {}]
<1> SUFFICES ASSUME pc' = "done", stable', Properly(req'),
                    Target(req') \notin DOMAIN Routes, req'.method \in {"GET", "HEAD"},
                    NEW f \in CanonicalWithout(missing', roots'.files \o Named(req')),
                    NEW root \in CanonicalWithout(missing', roots'.files),
                    Tree[f].kind = "file", IsStrictPrefix(root, f)
             PROVE  response' = Answer(req', f)
  BY Zenon DEF PresentIsServed, Canonical
<1>1. CASE Over \/ UNCHANGED vars
  <2>1. UNCHANGED <<pc, roots, missing, stable, req, response>>
    BY <1>1 DEF Over, vars, setupVars, requestVars
  <2>2. /\ pc = "done" /\ stable /\ Properly(req) /\ Target(req) \notin DOMAIN Routes
        /\ req.method \in {"GET", "HEAD"} /\ f \in Canonical(roots.files \o Named(req))
        /\ root \in Canonical(roots.files)
    BY <2>1 DEF Canonical
  <2>3. response = Answer(req, f)
    BY <2>2, Zenon DEF PresentIsServed
  <2> QED BY <2>1, <2>3
<1>2. CASE ParseArguments
  BY <1>2, ParseEnds
<1>3. CASE Construct \/ \E r \in Requests : ReceiveRequest(r)
  BY <1>3 DEF Construct, ReceiveRequest
<1>4. CASE CallHandler
  BY <1>4 DEF CallHandler, Routed
<1>5. CASE NotAllowed
  BY <1>5 DEF NotAllowed, Routed
<1>6. CASE NotRouted
  BY <1>6 DEF NotRouted, Method
<1>7. CASE \E p \in Volatile : Vanish(p) \/ Appear(p)
  BY <1>7 DEF Vanish, Appear, Touch
<1>8. ASSUME UNCHANGED <<roots, missing, req>>, stable, req \in Requests
      PROVE  /\ Sought(f, root) /\ Exists(f) /\ Within(f, root)
             /\ \A r \in Canonical(roots.files) : r = root
             /\ pc \in {"root", "regular", "open"} => canonical = f
  <2>1. Properly(req) /\ f \in Canonical(roots.files \o Named(req)) /\ root \in Canonical(roots.files)
    BY <1>8 DEF Canonical
  <2>2. Normalized = Named(req)
    BY <1>8, <2>1, NormalizedIsNamed
  <2>3. Sought(f, root)
    BY <2>1, <2>2 DEF Sought
  <2> QED BY <1>8, <2>1, <2>3, SoughtIsFound
<1>9. CASE Locate
  <2>1. UNCHANGED <<roots, missing, req, stable>> /\ req \in Requests
    BY <1>9 DEF Locate, setupVars, SetupOK
  <2>2. Canonical(roots.files \o Normalized) = {}
    BY <1>9 DEF Locate
  <2>3. Sought(f, root)
    BY <1>8, <2>1
  <2> QED BY <2>2, <2>3 DEF Sought
<1>10. CASE CheckRoot
  <2>1. UNCHANGED <<roots, missing, req, stable>> /\ req \in Requests /\ pc = "root"
    BY <1>10 DEF CheckRoot, setupVars, SetupOK
  <2>2. /\ root \in Canonical(roots.files) /\ Within(f, root) /\ canonical = f
        /\ \A r \in Canonical(roots.files) : r = root
    BY <1>8, <2>1 DEF Sought
  <2>3. ~(pc' = "regular")
    OBVIOUS
  <2>4. Canonical(roots.files) = {} \/ \E r \in Canonical(roots.files) : ~Within(canonical, r)
    BY <1>10, <2>3, Zenon DEF CheckRoot
  <2> QED BY <2>2, <2>4, Zenon
<1>11. CASE CheckRegular
  <2>1. UNCHANGED <<roots, missing, req, stable>> /\ req \in Requests /\ pc = "regular"
    BY <1>11 DEF CheckRegular, setupVars, SetupOK
  <2>2. Exists(f) /\ canonical = f
    BY <1>8, <2>1
  <2> QED BY <1>11, <2>2 DEF CheckRegular
<1>12. CASE OpenAndRead
  <2>1. UNCHANGED <<roots, missing, req>> /\ req \in Requests /\ pc = "open" /\ Open(canonical, Body(canonical))
    BY <1>12 DEF OpenAndRead, setupVars, SetupOK
  <2>2. stable
    BY <2>1, Zenon DEF Open
  <2>3. Exists(f) /\ canonical = f
    BY <1>8, <2>1, <2>2
  <2>4. PICK b : b = Body(canonical)
    OBVIOUS
  <2>5. Reply(200, b, {})
    BY <2>1, <2>3, <2>4, Zenon DEF Open
  <2>6. b = IF req.method = "GET" THEN f ELSE <<>>
    BY <2>1, <2>3, <2>4 DEF Body, Method
  <2> QED BY <2>1, <2>5, <2>6 DEF Reply
<1> QED BY <1>1, <1>2, <1>3, <1>4, <1>5, <1>6, <1>7, <1>9, <1>10, <1>11, <1>12 DEF Next

(* In every state the document root is a path, what serve() has checked    *)
(* stays true of the path while files come and go, and the properties hold. *)
THEOREM SiteInvariant == Spec => []SiteInv
<1>1. SiteInv /\ [Next]_vars => SiteInv'
  BY TypeStep, SetupStep, HandlingStep, FoundStep, ConfigStep, OnlyBelowRootStep, EndpointsStep,
     PresentStep DEF SiteInv
<1> QED BY SiteInit, <1>1, PTL DEF Spec

(* The types: a parsed configuration is in range. *)
THEOREM SiteTypeCorrect == Spec => []TypeOK
<1>1. SiteInv => TypeOK
  BY DEF SiteInv
<1> QED BY SiteInvariant, <1>1, PTL

(* Path traversal is prevented, for every file system, every document      *)
(* root, every request and every interleaving with files that come and go: *)
(* what serve() answers 200 with is a regular file strictly below the      *)
(* root.                                                                   *)
THEOREM TraversalPrevented == Spec => []OnlyBelowRoot
<1>1. SiteInv => OnlyBelowRoot
  BY DEF SiteInv
<1> QED BY SiteInvariant, <1>1, PTL

(* The README's table of endpoints is what the Router answers by, for      *)
(* every request: the methods it lists, and 405 with exactly them for any  *)
(* other.                                                                  *)
THEOREM TableKept == Spec => []EndpointsAnswer
<1>1. SiteInv => EndpointsAnswer
  BY DEF SiteInv
<1> QED BY SiteInvariant, <1>1, PTL

(* url_decode() gives back the name a client has encoded, whatever the     *)
(* name, its length and the characters that are encoded.                   *)
THEOREM DecodingInverts == Spec => []DecodeInverts
<1>1. ASSUME SiteInv PROVE DecodeInverts
  <2> SUFFICES ASSUME pc = "route", Properly(req)
               PROVE  url_decode(Encode(req.name, req.encoded)) = req.name
    BY DEF DecodeInverts, Target
  <2>1. req \in Requests
    BY <1>1 DEF SiteInv, SetupOK
  <2>2. req.name \in Seq(STRING) /\ \A i \in req.encoded : req.name[i] \in DOMAIN Ascii
    BY <2>1, SiteAssumption
  <2>3. \A i \in DOMAIN req.name : req.name[i] \in {"%", "+"} => i \in req.encoded
    BY Zenon DEF Properly
  <2> QED BY <2>2, <2>3, DecodeOfEncode
<1> QED BY SiteInvariant, <1>1, PTL

(* The configuration that the server is constructed with is what the       *)
(* environment and the command line mean, for a command line of any        *)
(* length: of repeated options the last, never a value taken for an        *)
(* option, and --help or a value that does not convert ends the process,   *)
(* whichever comes first.                                                  *)
THEOREM ConfigurationMeant == Spec => []ConfigMeans
<1>1. SiteInv => ConfigMeans
  BY DEF SiteInv
<1> QED BY SiteInvariant, <1>1, PTL

(* normalize_path() finds the components that a path means, whatever a     *)
(* client sends and however long it is: what it keeps is what the path     *)
(* never climbs out of again.                                              *)
THEOREM PathsNormalized == Spec => []NormalizedAgrees
<1>1. ASSUME SiteInv PROVE NormalizedAgrees
  <2> SUFFICES ASSUME pc = "route", NEW path, path = url_decode(Target(req))
               PROVE  normalize_path(path) = Meaning(path)
    BY DEF NormalizedAgrees
  <2>1. req.name \in Seq(STRING)
    BY <1>1, SiteAssumption DEF SiteInv, SetupOK
  <2>2. PICK B : Target(req) \in Seq(B)
    BY <2>1, EncodedIsText DEF Target
  <2>3. PICK C : path \in Seq(C)
    BY <2>2, DecodedIsText
  <2> QED BY <2>3, NormalizeMeans
<1> QED BY SiteInvariant, <1>1, PTL

(* The file that a client names is the file it gets, for every file system *)
(* with its links, every document root and every way to spell and encode   *)
(* the path, if nothing happens to the files meanwhile: decoding,          *)
(* normalisation and the checks of serve() together lose no file.          *)
THEOREM FilesServed == Spec => []PresentIsServed
<1>1. SiteInv => PresentIsServed
  BY DEF SiteInv
<1> QED BY SiteInvariant, <1>1, PTL

=============================================================================
